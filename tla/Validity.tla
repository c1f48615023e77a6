------------------------------ MODULE Validity ------------------------------
(***************************************************************************)
(* What an OpenAPI validator would say of a document: a reading of the     *)
(* specification that shares nothing with the lookup in                    *)
(* schema/__init__.py, to judge the findings of check by.  What is at a    *)
(* position is valid for a node unless a keyword of the node refutes it;   *)
(* a $ref that leads back to its own node refutes nothing.  A oneOf is     *)
(* read as an anyOf: that its options exclude each other is not asked.     *)
(***************************************************************************)
EXTENDS Validation

OfType(w, type) ==
    \/ type = ""
    \/ type = "number" /\ TypeOf(w) \in {"integer", "float"}
    \/ type # "number" /\ TypeOf(w) = type

(* The application types discriminate the union of applications.           *)
Discriminated(n) == Spec[n].anyOf # {} /\ \A o \in Spec[n].anyOf : Spec[o].ref \in Range(AppSchemas)

Names(w, n) ==
    /\ "type" \in Members(w) /\ TypeOf(w[2]["type"]) = "string"
    /\ LET t == FirstWord(w[2]["type"][2]) IN t \in DOMAIN AppSchemas /\ AppSchemas[t] = n

(* The keywords of n allow w, found at p, if R has what is valid elsewhere.*)
Allows(n, p, w, R) ==
    LET d == Spec[n] IN
    IF d.ref # NoNode THEN <<d.ref, p>> \in R
    ELSE /\ OfType(w, d.type)
         /\ d.enum # {} => TypeOf(w) = "string" /\ FirstWord(w[2]) \in d.enum
         /\ \A i \in DOMAIN d.allOf : <<d.allOf[i], p>> \in R
         /\ d.anyOf # {} => \E o \in d.anyOf :
                <<o, p>> \in R /\ (Discriminated(n) => Names(w, Spec[o].ref))
         /\ d.required \subseteq Members(w) \/ ~ IsObject(w)
         /\ \A m \in Members(w) :
                IF m \in DOMAIN d.props THEN <<d.props[m], Append(p, m)>> \in R
                ELSE d.additional # NoNode => <<d.additional, Append(p, m)>> \in R

(* Judgements <<n, p>>, that what is at p is valid for n, that hold        *)
(* together.                                                               *)
Consistent(R, v) ==
    /\ R \subseteq Nodes \X Positions(v)
    /\ \A x \in R : Allows(x[1], x[2], At(v, x[2]), R)

(* All that do: what is refuted goes, until nothing is.                    *)
Judged(v) ==
    LET settled[R \in SUBSET (Nodes \X Positions(v))] ==
            LET S == {x \in R : Allows(x[1], x[2], At(v, x[2]), R)} IN
            IF S = R THEN R ELSE settled[S]
    IN  settled[Nodes \X Positions(v)]

(* A document is valid when some judgements that hold together say so.     *)
Valid(n, v) == LET R == Judged(v) IN Consistent(R, v) /\ <<n, << >>>> \in R

(* The lookup takes the branch of an application in any union with an      *)
(* object that has an application's type; of applications no others do.    *)
StrayType(at, v) ==
    \E p \in Positions(v) :
        NodeAt(at \o p) \in Unions \ ApplicationUnions /\ KindOf(At(v, p)) \in DOMAIN AppSchemas
=============================================================================
