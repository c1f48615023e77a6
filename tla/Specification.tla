--------------------------- MODULE Specification ---------------------------
(***************************************************************************)
(* Lookup in the bundled OpenAPI specification (schema/__init__.py).  The  *)
(* specification is a graph: Spec maps every schema node, named or inline, *)
(* to its keywords.  A node that is a $ref has the name it refers to in    *)
(* ref.  The options of a union are in anyOf, whether it is written anyOf  *)
(* or, if oneOf says so, oneOf.                                            *)
(***************************************************************************)
EXTENDS Documents

CONSTANTS
    Nodes,       \* the schema nodes
    Spec,        \* the keywords of each
    Root,        \* the node of /config
    NoNode,      \* no node
    AppSchemas,  \* _APPLICATION_SCHEMAS: application types to their nodes
    Common       \* what every application has, whatever its type

Keywords == {"ref", "props", "required", "allOf", "anyOf", "oneOf", "additional",
             "type", "enum", "text"}

ASSUME SpecAssumption ==
    /\ DOMAIN Spec = Nodes
    /\ NoNode \notin Nodes /\ {Root, Common} \subseteq Nodes /\ Range(AppSchemas) \subseteq Nodes
    /\ \A n \in Nodes :
        /\ DOMAIN Spec[n] = Keywords /\ {Spec[n].text, Spec[n].oneOf} \subseteq BOOLEAN
        /\ Spec[n].props \in [DOMAIN Spec[n].props -> Nodes]
        /\ Spec[n].allOf \in Seq(Nodes) /\ Spec[n].anyOf \subseteq Nodes
        /\ {Spec[n].ref, Spec[n].additional} \subseteq Nodes \cup {NoNode}

(* The bundled specification is a finite document, and it keeps to a form: *)
(* a $ref stands alone, an enum lists texts, what allOf and anyOf combine  *)
(* does not combine inline itself, and the options of a union all have a   *)
(* type, or none of them has.                                              *)
ASSUME BundledAssumption ==
    /\ IsFiniteSet(Nodes)
    /\ \A n \in Nodes :
        /\ Spec[n].ref # NoNode =>
            /\ Spec[n].type = "" /\ Spec[n].enum = {} /\ Spec[n].anyOf = {}
            /\ Spec[n].props = << >> /\ Spec[n].additional = NoNode
        /\ Spec[n].enum # {} => Spec[n].type \in {"", "string"} /\ Spec[n].anyOf = {}
        /\ \A i \in DOMAIN Spec[n].allOf : Spec[Spec[n].allOf[i]].allOf = << >>
        /\ \A o \in Spec[n].anyOf : Spec[o].anyOf = {}
        /\ LET meant == {IF Spec[o].ref # NoNode THEN Spec[o].ref ELSE o : o \in Spec[n].anyOf} IN
            \/ \A o \in meant : Spec[o].type # ""
            \/ \A o \in meant : Spec[o].type = "" /\ Spec[o].ref = NoNode /\ Spec[o].anyOf = {}

Nothing == [props |-> << >>, required |-> {}, text |-> FALSE]

(* _resolve: $ref and allOf flattened.  A later part overrides the members *)
(* of an earlier one; a name met again on the way is not followed.         *)
Flatten(parts) ==
    LET having(m) == {i \in DOMAIN parts : m \in DOMAIN parts[i].props}
        last(m) == CHOOSE i \in having(m) : \A j \in having(m) : j <= i
    IN  [props    |-> [m \in UNION {DOMAIN parts[i].props : i \in DOMAIN parts} |->
                          parts[last(m)].props[m]],
         required |-> UNION {parts[i].required : i \in DOMAIN parts},
         text     |-> \E i \in DOMAIN parts : parts[i].text]

Resolve[x \in Nodes \X SUBSET Nodes] ==    \* a node, and the names met on the way
    LET d == Spec[x[1]]  seen == x[2]
        own == [props |-> d.props, required |-> d.required, text |-> d.text]
    IN  IF d.ref \in seen THEN Nothing
        ELSE IF d.ref # NoNode THEN Resolve[<<d.ref, seen \cup {d.ref}>>]
        ELSE Flatten([i \in 0..Len(d.allOf) |->
                         IF i = 0 THEN own ELSE Resolve[<<d.allOf[i], seen>>]])

(* What _resolve gives when it is called. *)
Resolved == [n \in Nodes |-> Resolve[<<n, {}>>]]

(* _type_name, as the set of the names it joins with "or".                 *)
TypeNames[n \in Nodes] ==
    LET d == Spec[n] IN
    IF d.type # "" THEN {d.type}
    ELSE IF d.ref # NoNode THEN {"object"}
    ELSE UNION {TypeNames[o] : o \in d.anyOf}

(* accepted_types: the types of values a node permits, none when it does   *)
(* not constrain them.                                                     *)
JsonTypesExact(name) ==    \* (mutant) an integer is not a number
    {IF name = "number" THEN "float" ELSE name}

JsonTypes(name) == IF name = "number" THEN {"integer", "float"} ELSE {name}

AcceptedTypes[x \in Nodes \X SUBSET Nodes] ==
    LET d == Spec[x[1]]  seen == x[2] IN
    IF d.ref \in seen THEN {}
    ELSE IF d.ref # NoNode THEN AcceptedTypes[<<d.ref, seen \cup {d.ref}>>]
    ELSE IF d.type # "" THEN JsonTypes(d.type)
    ELSE UNION {AcceptedTypes[<<o, seen>>] : o \in d.anyOf}

Accepted == [n \in Nodes |-> AcceptedTypes[<<n, {}>>]]

Target == [n \in Nodes |-> IF Spec[n].ref # NoNode THEN Spec[n].ref ELSE n]

(* _descend: one $ref, then the named members, then the chosen ones.       *)
Descend(n, m) ==
    LET d == Spec[Target[n]] IN
    IF m \in DOMAIN d.props THEN d.props[m] ELSE d.additional

NodeAt(path) ==
    LET along[k \in 0..Len(path)] ==
            IF k = 0 THEN Root
            ELSE IF along[k-1] = NoNode THEN NoNode
            ELSE Descend(along[k-1], path[k])
    IN  along[Len(path)]

(* _select_branch: the branch of a union the document's own type names.    *)
(* It looks for anyOf only.                                                *)
KindOf(v) == IF TypeOf(Get(v, "type")) = "string" THEN FirstWord(Get(v, "type")[2]) ELSE ""

Unions == {n \in Nodes : Spec[Target[n]].anyOf # {} /\ ~ Spec[Target[n]].oneOf}
ApplicationUnions ==
    {n \in Unions : {Spec[o].ref : o \in Spec[Target[n]].anyOf} \subseteq Range(AppSchemas)}

SelectBranch(n, v) ==
    IF n \notin Unions THEN n
    ELSE IF KindOf(v) \in DOMAIN AppSchemas THEN AppSchemas[KindOf(v)]
    ELSE IF n \in ApplicationUnions THEN Common
    ELSE n

(* describe and raw_properties: the members the specification knows at a   *)
(* path, each with its node, for the value stored there.                   *)
Describe(path, v) ==
    LET n == NodeAt(path) IN IF n = NoNode THEN Nothing ELSE Resolved[SelectBranch(n, v)]

Described(path, v) == LET d == Describe(path, v) IN DOMAIN d.props # {} \/ d.text

UnknownMembers(path, v) ==
    LET props == Describe(path, v).props IN
    IF DOMAIN props = {} THEN {} ELSE Members(v) \ DOMAIN props
=============================================================================
