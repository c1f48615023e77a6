------------------------ MODULE SpecificationProofs ------------------------
(***************************************************************************)
(* What the lookup in the specification computes, and that the advisory    *)
(* check raises no false alarm: for any specification that keeps to the    *)
(* form of the bundled one, any document and any depth of checking.  What  *)
(* the recursive definitions compute is proved by Recursion, from a        *)
(* measure of how far a walk over the specification can still go.          *)
(***************************************************************************)
EXTENDS Validity, DiffProofs, Induction, FiniteSetTheorems, TLAPS

-----------------------------------------------------------------------------
(* What the recursive lookups compute.                                     *)

(* What _type_name gives: unions nest once, so it is defined.              *)
LEMMA TypeNamesIs ==
    ASSUME NEW n \in Nodes
    PROVE  TypeNames[n] = IF Spec[n].type # "" THEN {Spec[n].type}
                          ELSE IF Spec[n].ref # NoNode THEN {"object"}
                          ELSE UNION {TypeNames[o] : o \in Spec[n].anyOf}
<1>. DEFINE Single(k) == IF Spec[k].type # "" THEN {Spec[k].type}
                         ELSE IF Spec[k].ref # NoNode THEN {"object"} ELSE {}
            Step(f, k) == IF Spec[k].type # "" THEN {Spec[k].type}
                          ELSE IF Spec[k].ref # NoNode THEN {"object"}
                          ELSE UNION {f[o] : o \in Spec[k].anyOf}
            Eq(f) == f = [k \in Nodes |-> Step(f, k)]
            g == [k \in Nodes |-> IF Spec[k].type # "" \/ Spec[k].ref # NoNode THEN Single(k)
                                  ELSE UNION {Single(o) : o \in Spec[k].anyOf}]
<1>1. ASSUME NEW k \in Nodes PROVE g[k] = Step(g, k)
    <2>1. ASSUME NEW o \in Spec[k].anyOf PROVE g[o] = Single(o)
        <3>1. o \in Nodes /\ Spec[o].anyOf = {}
            BY SpecAssumption, BundledAssumption
        <3>. HIDE DEF Single
        <3>2. UNION {Single(x) : x \in Spec[o].anyOf} = {}
            BY <3>1
        <3>3. g[o] = IF Spec[o].type # "" \/ Spec[o].ref # NoNode THEN Single(o) ELSE {}
            BY <3>1, <3>2
        <3>. QED BY <3>3 DEF Single
    <2>2. UNION {g[o] : o \in Spec[k].anyOf} = UNION {Single(o) : o \in Spec[k].anyOf}
        <3>. HIDE DEF g, Single
        <3>. QED BY <2>1
    <2>. QED BY <2>2
<1>2. Eq(g)
    <2>1. g = [k \in Nodes |-> g[k]]
        OBVIOUS
    <2>. HIDE DEF g, Step
    <2>. QED BY <1>1, <2>1
<1>3. TypeNames = CHOOSE f : Eq(f)
    BY DEF TypeNames
<1>4. Eq(TypeNames)
    <2>. HIDE DEF Eq
    <2>. QED BY <1>2, <1>3
<1>. QED BY <1>4

(* What accepted_types gives, for a node met after the names seen.  It is  *)
(* defined since a name is followed once and unions nest once.             *)
AcceptsStep(f, x) ==
    LET d == Spec[x[1]]  seen == x[2] IN
    IF d.ref \in seen THEN {}
    ELSE IF d.ref # NoNode THEN f[<<d.ref, seen \cup {d.ref}>>]
    ELSE IF d.type # "" THEN JsonTypes(d.type)
    ELSE UNION {f[<<o, seen>>] : o \in d.anyOf}

(* How far a walk can still go.                                            *)
Ahead(x) == 2 * Cardinality(Nodes \ x[2]) + (IF Spec[x[1]].anyOf = {} THEN 0 ELSE 1)

(* A node seen is one node less to see.                                    *)
LEMMA OneFewer ==
    ASSUME NEW seen \in SUBSET Nodes, NEW r \in Nodes \ seen
    PROVE  Cardinality(Nodes \ (seen \cup {r})) = Cardinality(Nodes \ seen) - 1
<1>. SUFFICES ASSUME NEW A, A = Nodes \ seen, NEW B, B = Nodes \ (seen \cup {r})
              PROVE  Cardinality(B) = Cardinality(A) - 1
    OBVIOUS
<1>1. B \subseteq Nodes /\ IsFiniteSet(Nodes)
    BY BundledAssumption
<1>2. A = B \cup {r} /\ r \notin B /\ IsFiniteSet(B)
    BY <1>1, FS_Subset
<1>3. Cardinality(B \cup {r}) = Cardinality(B) + 1 /\ Cardinality(B) \in Nat
    BY <1>2, FS_AddElement, FS_CardinalityType
<1>4. Cardinality(A) = Cardinality(B) + 1
    BY <1>2, <1>3
<1>. QED BY <1>3, <1>4

(* There are never more to see than there are nodes.                       *)
LEMMA WalkBounded ==
    ASSUME NEW seen \in SUBSET Nodes
    PROVE  /\ Cardinality(Nodes \ seen) \in Nat /\ Cardinality(Nodes) \in Nat
           /\ Cardinality(Nodes \ seen) <= Cardinality(Nodes)
<1>1. IsFiniteSet(Nodes) /\ Nodes \ seen \subseteq Nodes
    BY BundledAssumption
<1>. QED BY <1>1, FS_Subset, FS_CardinalityType

(* Where a step of accepted_types goes is less far from the end.           *)
LEMMA AcceptsAhead ==
    ASSUME NEW k \in Nodes, NEW seen \in SUBSET Nodes
    PROVE  LET d == Spec[k]  x == <<k, seen>> IN
           /\ Ahead(x) \in 0..(2 * Cardinality(Nodes) + 1)
           /\ d.ref \notin seen /\ d.ref # NoNode =>
                  LET y == <<d.ref, seen \cup {d.ref}>> IN y \in Nodes \X SUBSET Nodes /\ Ahead(y) < Ahead(x)
           /\ \A o \in d.anyOf :
                  LET y == <<o, seen>> IN y \in Nodes \X SUBSET Nodes /\ Ahead(y) < Ahead(x)
<1>. DEFINE d == Spec[k]
            x == <<k, seen>>
<1>1. /\ Cardinality(Nodes \ seen) \in Nat /\ Cardinality(Nodes) \in Nat
      /\ Cardinality(Nodes \ seen) <= Cardinality(Nodes)
    BY WalkBounded
<1>2. x[1] = k /\ x[2] = seen
    OBVIOUS
<1>3. Ahead(x) \in 0..(2 * Cardinality(Nodes) + 1)
    BY <1>1, <1>2 DEF Ahead
<1>4. ASSUME d.ref \notin seen, d.ref # NoNode, NEW y, y = <<d.ref, seen \cup {d.ref}>>
      PROVE  y \in Nodes \X SUBSET Nodes /\ Ahead(y) < Ahead(x)
    <2>1. d.ref \in Nodes \ seen
        BY <1>4, SpecAssumption
    <2>2. Cardinality(Nodes \ (seen \cup {d.ref})) = Cardinality(Nodes \ seen) - 1
        BY <2>1, OneFewer
    <2>3. y \in Nodes \X SUBSET Nodes /\ y[2] = seen \cup {d.ref}
        BY <1>4, <2>1
    <2>4. Cardinality(Nodes \ y[2]) = Cardinality(Nodes \ seen) - 1
        BY <2>2, <2>3
    <2>. QED BY <1>1, <1>2, <2>3, <2>4 DEF Ahead
<1>5. ASSUME NEW o \in d.anyOf, NEW y, y = <<o, seen>>
      PROVE  y \in Nodes \X SUBSET Nodes /\ Ahead(y) < Ahead(x)
    <2>1. o \in Nodes /\ Spec[o].anyOf = {} /\ d.anyOf # {}
        BY SpecAssumption, BundledAssumption
    <2>2. y \in Nodes \X SUBSET Nodes /\ y[1] = o /\ y[2] = seen
        BY <1>5, <2>1
    <2>. QED BY <1>1, <1>2, <2>1, <2>2 DEF Ahead
<1>. QED BY <1>3, <1>4, <1>5

(* A step of accepted_types looks at what is ahead only.                   *)
LEMMA StepLooksAhead ==
    ASSUME NEW x \in Nodes \X SUBSET Nodes, NEW f, NEW g,
           \A y \in Nodes \X SUBSET Nodes : Ahead(y) < Ahead(x) => f[y] = g[y]
    PROVE  AcceptsStep(f, x) = AcceptsStep(g, x)
<1>. DEFINE d == Spec[x[1]]
            seen == x[2]
<1>1. x[1] \in Nodes /\ seen \in SUBSET Nodes /\ x = <<x[1], seen>>
    OBVIOUS
<1>2. CASE d.ref \in seen
    BY <1>2 DEF AcceptsStep
<1>3. CASE d.ref \notin seen /\ d.ref # NoNode
    <2>. SUFFICES ASSUME NEW y, y = <<d.ref, seen \cup {d.ref}>> PROVE f[y] = g[y]
        BY <1>3 DEF AcceptsStep
    <2>1. y \in Nodes \X SUBSET Nodes /\ Ahead(y) < Ahead(x)
        BY <1>1, <1>3, AcceptsAhead
    <2>. QED BY <2>1
<1>4. CASE d.ref \notin seen /\ d.ref = NoNode
    <2>1. \A o \in d.anyOf : f[<<o, seen>>] = g[<<o, seen>>]
        <3>. SUFFICES ASSUME NEW o \in d.anyOf, NEW y, y = <<o, seen>> PROVE f[y] = g[y]
            OBVIOUS
        <3>1. y \in Nodes \X SUBSET Nodes /\ Ahead(y) < Ahead(x)
            BY <1>1, AcceptsAhead
        <3>. QED BY <3>1
    <2>2. UNION {f[<<o, seen>>] : o \in d.anyOf} = UNION {g[<<o, seen>>] : o \in d.anyOf}
        BY <2>1
    <2>. QED BY <1>4, <2>2 DEF AcceptsStep
<1>. QED BY <1>2, <1>3, <1>4

LEMMA AcceptedTypesIs ==
    ASSUME NEW x \in Nodes \X SUBSET Nodes
    PROVE  AcceptedTypes[x] = AcceptsStep(AcceptedTypes, x)
<1>. DEFINE D == Nodes \X SUBSET Nodes
            V == SUBSET UNION {JsonTypes(Spec[n].type) : n \in Nodes}
            After(f) == [y \in D |-> AcceptsStep(f, y)]
            F == [f \in [D -> V] |-> After(f)]
            rank == [y \in D |-> Ahead(y)]
            b == [y \in D |-> {}]
            M == 2 * Cardinality(Nodes) + 1
<1>1. ASSUME NEW f \in [D -> V], NEW y \in D PROVE AcceptsStep(f, y) \in V
    <2>. DEFINE d == Spec[y[1]]
    <2>1. y[1] \in Nodes /\ y[2] \in SUBSET Nodes
        OBVIOUS
    <2>2. d.ref \in Nodes \cup {NoNode} /\ d.anyOf \subseteq Nodes
        BY <2>1, SpecAssumption
    <2>3. CASE d.ref \in y[2]
        BY <2>3 DEF AcceptsStep
    <2>4. CASE d.ref \notin y[2] /\ d.ref # NoNode
        <3>1. <<d.ref, y[2] \cup {d.ref}>> \in D
            BY <2>1, <2>2, <2>4
        <3>2. f[<<d.ref, y[2] \cup {d.ref}>>] \in V
            <4>. HIDE DEF V, D
            <4>. QED BY <3>1
        <3>. HIDE DEF V
        <3>. QED BY <2>4, <3>2 DEF AcceptsStep
    <2>5. CASE d.ref \notin y[2] /\ d.ref = NoNode /\ d.type # ""
        <3>1. JsonTypes(d.type) \in V
            BY <2>1
        <3>. HIDE DEF V
        <3>. QED BY <2>5, <3>1 DEF AcceptsStep
    <2>6. CASE d.ref \notin y[2] /\ d.ref = NoNode /\ d.type = ""
        <3>1. \A o \in d.anyOf : <<o, y[2]>> \in D
            BY <2>1, <2>2
        <3>2. \A o \in d.anyOf : f[<<o, y[2]>>] \in V
            <4>. HIDE DEF V, D
            <4>. QED BY <3>1
        <3>3. UNION {f[<<o, y[2]>>] : o \in d.anyOf} \in V
            <4>1. \A o \in d.anyOf : f[<<o, y[2]>>] \subseteq UNION {JsonTypes(Spec[n].type) : n \in Nodes}
                BY <3>2
            <4>. QED BY <4>1
        <3>. HIDE DEF V
        <3>. QED BY <2>6, <3>3 DEF AcceptsStep
    <2>. QED BY <2>3, <2>4, <2>5, <2>6
<1>2. ASSUME NEW f \in [D -> V] PROVE After(f) \in [D -> V] /\ F[f] = After(f)
    <2>. HIDE DEF V, D
    <2>. QED BY <1>1
<1>3. F \in [[D -> V] -> [D -> V]] /\ b \in [D -> V]
    <2>1. b \in [D -> V]
        <3>1. {} \in V
            OBVIOUS
        <3>. HIDE DEF V, D
        <3>. QED BY <3>1
    <2>. HIDE DEF V, D, After
    <2>. QED BY <1>2, <2>1
<1>4. M \in Nat /\ rank \in [D -> 0..M]
    <2>1. Cardinality(Nodes) \in Nat
        BY BundledAssumption, FS_CardinalityType
    <2>2. ASSUME NEW y \in D PROVE Ahead(y) \in 0..M
        <3>1. y[2] \in SUBSET Nodes
            OBVIOUS
        <3>2. Cardinality(Nodes \ y[2]) \in Nat /\ Cardinality(Nodes \ y[2]) <= Cardinality(Nodes)
            BY <3>1, WalkBounded
        <3>. QED BY <2>1, <3>2 DEF Ahead
    <2>. HIDE DEF D, M
    <2>. QED BY <2>1, <2>2 DEF M
<1>5. ASSUME NEW f \in [D -> V], NEW g \in [D -> V], NEW y \in D,
             \A z \in D : rank[z] < rank[y] => f[z] = g[z]
      PROVE  F[f][y] = F[g][y]
    <2>1. \A z \in Nodes \X SUBSET Nodes : Ahead(z) < Ahead(y) => f[z] = g[z]
        BY <1>5
    <2>2. AcceptsStep(f, y) = AcceptsStep(g, y)
        BY <2>1, StepLooksAhead
    <2>3. F[f][y] = AcceptsStep(f, y) /\ F[g][y] = AcceptsStep(g, y)
        <3>1. F[f] = After(f) /\ F[g] = After(g)
            <4>. HIDE DEF V, D, F, After
            <4>. QED BY <1>2
        <3>. HIDE DEF V, D, F
        <3>. QED BY <3>1
    <2>. QED BY <2>2, <2>3
<1>6. PICK f \in [D -> V] : F[f] = f
    <2>. HIDE DEF V, D, F, b, rank, M
    <2>1. StepOfRecursion(F, [D -> V], D, rank, M)
        <3>1. \A f \in [D -> V] : f = [y \in D |-> f[y]]
            OBVIOUS
        <3>. QED BY <1>3, <1>4, <1>5, <3>1 DEF StepOfRecursion
    <2>. QED BY <1>3, <2>1, Recursion
<1>. DEFINE Eq(g) == g = [y \in D |-> AcceptsStep(g, y)]
<1>7. Eq(f)
    BY <1>2, <1>6
<1>8. AcceptedTypes = CHOOSE g : Eq(g)
    BY DEF AcceptedTypes, AcceptsStep, D
<1>9. Eq(AcceptedTypes)
    <2>. HIDE DEF Eq
    <2>. QED BY <1>7, <1>8
<1>. QED BY <1>9

(* A name a member's type is given by is a type it accepts, but for the    *)
(* "object" that stands for a $ref.                                        *)
LEMMA NamedIsAccepted ==
    ASSUME NEW n \in Nodes, NEW t \in TypeNames[n], t # "object"
    PROVE  JsonTypes(t) \subseteq Accepted[n]
<1>1. ASSUME NEW k \in Nodes, Spec[k].ref = NoNode
      PROVE  AcceptedTypes[<<k, {}>>] = IF Spec[k].type # "" THEN JsonTypes(Spec[k].type)
                                        ELSE UNION {AcceptedTypes[<<o, {}>>] : o \in Spec[k].anyOf}
    <2>. DEFINE x == <<k, {}>>
    <2>1. x \in Nodes \X SUBSET Nodes /\ x[1] = k /\ x[2] = {}
        OBVIOUS
    <2>2. AcceptedTypes[x] = AcceptsStep(AcceptedTypes, x)
        BY <2>1, AcceptedTypesIs
    <2>3. AcceptsStep(AcceptedTypes, x) =
              IF Spec[k].type # "" THEN JsonTypes(Spec[k].type)
              ELSE UNION {AcceptedTypes[<<o, {}>>] : o \in Spec[k].anyOf}
        BY <1>1 DEF AcceptsStep
    <2>. QED BY <2>2, <2>3
<1>2. ASSUME NEW k \in Nodes, Spec[k].type = t
      PROVE  t # "" => JsonTypes(t) \subseteq AcceptedTypes[<<k, {}>>]
    <2>1. t # "" => Spec[k].ref = NoNode
        BY <1>2, BundledAssumption
    <2>. QED BY <1>1, <1>2, <2>1
<1>3. Spec[n].ref = NoNode
    BY TypeNamesIs, BundledAssumption
<1>4. CASE Spec[n].type # ""
    BY <1>2, <1>4, TypeNamesIs DEF Accepted
<1>5. CASE Spec[n].type = ""
    <2>0. TypeNames[n] = UNION {TypeNames[o] : o \in Spec[n].anyOf}
        BY <1>3, <1>5, TypeNamesIs
    <2>1. PICK o \in Spec[n].anyOf : t \in TypeNames[o]
        BY <2>0
    <2>2. o \in Nodes /\ Spec[o].anyOf = {}
        BY SpecAssumption, BundledAssumption
    <2>3. Spec[o].type = t /\ t # ""
        BY <2>1, <2>2, TypeNamesIs
    <2>4. JsonTypes(t) \subseteq AcceptedTypes[<<o, {}>>]
        BY <1>2, <2>2, <2>3
    <2>5. AcceptedTypes[<<n, {}>>] = UNION {AcceptedTypes[<<k, {}>>] : k \in Spec[n].anyOf}
        BY <1>1, <1>3, <1>5
    <2>. QED BY <2>1, <2>4, <2>5 DEF Accepted
<1>. QED BY <1>4, <1>5

(* An enum accepts text.                                                   *)
LEMMA EnumAcceptsText ==
    ASSUME NEW n \in Nodes, Spec[n].enum # {}
    PROVE  Accepted[n] = {} \/ "string" \in Accepted[n]
<1>1. Spec[n].ref = NoNode /\ Spec[n].type \in {"", "string"} /\ Spec[n].anyOf = {}
    BY BundledAssumption
<1>2. CASE Spec[n].type = "string"
    <2>1. "string" \in TypeNames[n]
        BY <1>2, TypeNamesIs
    <2>2. JsonTypes("string") = {"string"}
        BY DEF JsonTypes
    <2>. QED BY <2>1, <2>2, NamedIsAccepted
<1>3. CASE Spec[n].type = ""
    <2>. DEFINE x == <<n, {}>>
    <2>1. x \in Nodes \X SUBSET Nodes /\ x[1] = n /\ x[2] = {}
        OBVIOUS
    <2>2. AcceptedTypes[x] = AcceptsStep(AcceptedTypes, x)
        BY <2>1, AcceptedTypesIs
    <2>3. UNION {AcceptedTypes[<<o, {}>>] : o \in Spec[n].anyOf} = {}
        BY <1>1
    <2>4. AcceptsStep(AcceptedTypes, x) = {}
        BY <1>1, <1>3, <2>3 DEF AcceptsStep
    <2>. QED BY <2>2, <2>4 DEF Accepted
<1>. QED BY <1>1, <1>2, <1>3

-----------------------------------------------------------------------------
(* What _resolve gives.                                                    *)

(* A set of numbers up to N has a largest.                                 *)
LEMMA Largest ==
    ASSUME NEW N \in Nat, NEW T \in SUBSET (0..N), T # {}
    PROVE  \E i \in T : \A j \in T : j <= i
<1>. SUFFICES ASSUME \A i \in T : \E j \in T : ~ (j <= i) PROVE FALSE
    OBVIOUS
<1>. DEFINE S == {k \in 0..N : \E j \in T : k <= j}
<1>1. 0 \in S
    <2>1. PICK j \in T : TRUE
        OBVIOUS
    <2>2. 0 <= j /\ 0 \in 0..N
        BY <2>1
    <2>. QED BY <2>2
<1>2. ASSUME NEW k \in 0..N, k \in S, k < N PROVE k + 1 \in S
    <2>1. PICK i \in T : k <= i
        BY <1>2
    <2>2. PICK j \in T : ~ (j <= i)
        OBVIOUS
    <2>3. k + 1 <= j /\ k + 1 \in 0..N
        BY <1>2, <2>1, <2>2
    <2>. QED BY <2>3
<1>3. 0..N \subseteq S
    <2>. HIDE DEF S
    <2>. QED BY <1>1, <1>2, UpTo
<1>4. PICK i \in T : N <= i
    BY <1>3
<1>. QED BY <1>4

(* What the parts of an allOf amount to.                                   *)
LEMMA FlattenMeans ==
    ASSUME NEW N \in Nat, NEW parts, DOMAIN parts = 0..N
    PROVE  LET whole == Flatten(parts) IN
           /\ whole = [props |-> whole.props, required |-> whole.required, text |-> whole.text]
           /\ whole.props = [m \in DOMAIN whole.props |-> whole.props[m]]
           /\ \A m \in DOMAIN whole.props :
                  \E i \in 0..N : m \in DOMAIN parts[i].props /\ whole.props[m] = parts[i].props[m]
           /\ \A m \in whole.required : \E i \in 0..N : m \in parts[i].required
           /\ whole.text \in BOOLEAN
<1>. DEFINE having(m) == {i \in DOMAIN parts : m \in DOMAIN parts[i].props}
            last(m) == CHOOSE i \in having(m) : \A j \in having(m) : j <= i
            names == UNION {DOMAIN parts[i].props : i \in DOMAIN parts}
            props == [m \in names |-> parts[last(m)].props[m]]
            required == UNION {parts[i].required : i \in DOMAIN parts}
            text == \E i \in DOMAIN parts : parts[i].text
            whole == Flatten(parts)
<1>1. whole = [props |-> props, required |-> required, text |-> text]
    BY DEF Flatten
<1>2. ASSUME NEW m \in names PROVE last(m) \in 0..N /\ m \in DOMAIN parts[last(m)].props
    <2>1. PICK i \in DOMAIN parts : m \in DOMAIN parts[i].props
        BY <1>2
    <2>2. having(m) \in SUBSET (0..N) /\ having(m) # {}
        BY <2>1
    <2>3. \E k \in having(m) : \A j \in having(m) : j <= k
        <3>. HIDE DEF having
        <3>. QED BY <2>2, Largest
    <2>4. last(m) \in having(m)
        <3>. HIDE DEF having
        <3>. QED BY <2>3
    <2>. HIDE DEF last
    <2>. QED BY <2>4
<1>3. ASSUME NEW m \in required PROVE \E i \in 0..N : m \in parts[i].required
    BY <1>3
<1>. HIDE DEF last, names, required, text, whole
<1>4. /\ whole.props = props /\ whole.required = required /\ whole.text = text
      /\ DOMAIN whole.props = names /\ whole.props = [m \in DOMAIN whole.props |-> whole.props[m]]
      /\ \A m \in names : whole.props[m] = parts[last(m)].props[m]
    BY <1>1
<1>5. text \in BOOLEAN
    BY DEF text
<1>6. whole = [props |-> whole.props, required |-> whole.required, text |-> whole.text]
    <2>. HIDE DEF props
    <2>. QED BY <1>1, <1>4
<1>. HIDE DEF props
<1>7. \A m \in DOMAIN whole.props :
          \E i \in 0..N : m \in DOMAIN parts[i].props /\ whole.props[m] = parts[i].props[m]
    BY <1>2, <1>4
<1>8. \A m \in whole.required : \E i \in 0..N : m \in parts[i].required
    BY <1>3, <1>4
<1>. QED BY <1>4, <1>5, <1>6, <1>7, <1>8 DEF whole

(* What _resolve gives of a node met after the names seen.  It is defined  *)
(* since a name is followed once and allOf nests once.                     *)
ResolveStep(f, x) ==
    LET d == Spec[x[1]]  seen == x[2]
        own == [props |-> d.props, required |-> d.required, text |-> d.text]
    IN  IF d.ref \in seen THEN Nothing
        ELSE IF d.ref # NoNode THEN f[<<d.ref, seen \cup {d.ref}>>]
        ELSE Flatten([i \in 0..Len(d.allOf) |-> IF i = 0 THEN own ELSE f[<<d.allOf[i], seen>>]])

(* How far it can still go.                                                *)
Farther(x) == 2 * Cardinality(Nodes \ x[2]) + (IF Spec[x[1]].allOf = << >> THEN 0 ELSE 1)

(* Where a step of _resolve goes is less far from the end.                 *)
LEMMA ResolveAhead ==
    ASSUME NEW k \in Nodes, NEW seen \in SUBSET Nodes
    PROVE  LET d == Spec[k]  x == <<k, seen>> IN
           /\ Farther(x) \in 0..(2 * Cardinality(Nodes) + 1)
           /\ d.ref \notin seen /\ d.ref # NoNode =>
                  LET y == <<d.ref, seen \cup {d.ref}>> IN y \in Nodes \X SUBSET Nodes /\ Farther(y) < Farther(x)
           /\ Len(d.allOf) \in Nat
           /\ \A i \in 1..Len(d.allOf) :
                  LET y == <<d.allOf[i], seen>> IN y \in Nodes \X SUBSET Nodes /\ Farther(y) < Farther(x)
<1>. DEFINE d == Spec[k]
            x == <<k, seen>>
<1>1. /\ Cardinality(Nodes \ seen) \in Nat /\ Cardinality(Nodes) \in Nat
      /\ Cardinality(Nodes \ seen) <= Cardinality(Nodes)
    BY WalkBounded
<1>2. x[1] = k /\ x[2] = seen
    OBVIOUS
<1>3. Farther(x) \in 0..(2 * Cardinality(Nodes) + 1)
    BY <1>1, <1>2 DEF Farther
<1>4. d.allOf \in Seq(Nodes) /\ d.ref \in Nodes \cup {NoNode}
    BY SpecAssumption
<1>5. ASSUME d.ref \notin seen, d.ref # NoNode, NEW y, y = <<d.ref, seen \cup {d.ref}>>
      PROVE  y \in Nodes \X SUBSET Nodes /\ Farther(y) < Farther(x)
    <2>1. d.ref \in Nodes \ seen
        BY <1>4, <1>5
    <2>2. Cardinality(Nodes \ (seen \cup {d.ref})) = Cardinality(Nodes \ seen) - 1
        BY <2>1, OneFewer
    <2>3. y \in Nodes \X SUBSET Nodes /\ y[2] = seen \cup {d.ref}
        BY <1>5, <2>1
    <2>4. Cardinality(Nodes \ y[2]) = Cardinality(Nodes \ seen) - 1
        BY <2>2, <2>3
    <2>. QED BY <1>1, <1>2, <2>3, <2>4 DEF Farther
<1>6. ASSUME NEW i \in 1..Len(d.allOf), NEW y, y = <<d.allOf[i], seen>>
      PROVE  y \in Nodes \X SUBSET Nodes /\ Farther(y) < Farther(x)
    <2>1. i \in DOMAIN d.allOf /\ d.allOf[i] \in Nodes /\ d.allOf # << >>
        BY <1>4
    <2>2. Spec[d.allOf[i]].allOf = << >>
        BY <2>1, BundledAssumption
    <2>3. y \in Nodes \X SUBSET Nodes /\ y[1] = d.allOf[i] /\ y[2] = seen
        BY <1>6, <2>1
    <2>. QED BY <1>1, <1>2, <2>1, <2>2, <2>3 DEF Farther
<1>7. Len(d.allOf) \in Nat
    BY <1>4
<1>. QED BY <1>3, <1>5, <1>6, <1>7

(* What can be known of a node.                                            *)
Known ==
    LET names == UNION {DOMAIN Spec[n].props : n \in Nodes} IN
    [props    : UNION {[S -> Nodes] : S \in SUBSET names},
     required : SUBSET UNION {Spec[n].required : n \in Nodes},
     text     : BOOLEAN]

LEMMA KnownMeans ==
    ASSUME NEW r
    PROVE  r \in Known <=>
               /\ r = [props |-> r.props, required |-> r.required, text |-> r.text]
               /\ r.props \in [DOMAIN r.props -> Nodes]
               /\ \A m \in DOMAIN r.props : \E n \in Nodes : m \in DOMAIN Spec[n].props
               /\ \A m \in r.required : \E n \in Nodes : m \in Spec[n].required
               /\ r.text \in BOOLEAN
<1>. DEFINE names == UNION {DOMAIN Spec[n].props : n \in Nodes}
            U == UNION {[S -> Nodes] : S \in SUBSET names}
            W == SUBSET UNION {Spec[n].required : n \in Nodes}
<1>1. r \in Known <=>
          /\ r = [props |-> r.props, required |-> r.required, text |-> r.text]
          /\ r.props \in U /\ r.required \in W /\ r.text \in BOOLEAN
    <2>1. Known = [props : U, required : W, text : BOOLEAN]
        BY DEF Known
    <2>. HIDE DEF U, W
    <2>. QED BY <2>1
<1>2. r.required \in W <=> \A m \in r.required : \E n \in Nodes : m \in Spec[n].required
    <2>1. r.required \in W <=> r.required \subseteq UNION {Spec[n].required : n \in Nodes}
        OBVIOUS
    <2>. QED BY <2>1
<1>3. r.props \in U <=> r.props \in [DOMAIN r.props -> Nodes] /\ DOMAIN r.props \subseteq names
    <2>1. ASSUME r.props \in U PROVE r.props \in [DOMAIN r.props -> Nodes] /\ DOMAIN r.props \subseteq names
        <3>1. PICK S \in SUBSET names : r.props \in [S -> Nodes]
            BY <2>1
        <3>. HIDE DEF names
        <3>. QED BY <3>1
    <2>2. ASSUME r.props \in [DOMAIN r.props -> Nodes], DOMAIN r.props \subseteq names PROVE r.props \in U
        <3>. HIDE DEF names
        <3>. QED BY <2>2
    <2>. QED BY <2>1, <2>2
<1>4. DOMAIN r.props \subseteq names <=> \A m \in DOMAIN r.props : \E n \in Nodes : m \in DOMAIN Spec[n].props
    OBVIOUS
<1>. QED BY <1>1, <1>2, <1>3, <1>4

(* Of a node met again nothing is known.                                   *)
LEMMA NothingKnown == Nothing \in Known
<1>1. << >> \in Seq(Nodes) /\ DOMAIN << >> = {}
    OBVIOUS
<1>2. << >> \in [{} -> Nodes]
    BY <1>1
<1>3. /\ Nothing.props = << >> /\ Nothing.required = {} /\ Nothing.text = FALSE
      /\ Nothing = [props |-> Nothing.props, required |-> Nothing.required, text |-> Nothing.text]
    BY DEF Nothing
<1>. QED BY <1>1, <1>2, <1>3, KnownMeans

(* A step of _resolve makes what can be known out of what can be known,    *)
(* and looks ahead only.                                                   *)
LEMMA ResolveStepKnown ==
    ASSUME NEW f \in [Nodes \X SUBSET Nodes -> Known], NEW x \in Nodes \X SUBSET Nodes
    PROVE  ResolveStep(f, x) \in Known
<1>. DEFINE D == Nodes \X SUBSET Nodes
            d == Spec[x[1]]
            seen == x[2]
            own == [props |-> d.props, required |-> d.required, text |-> d.text]
            parts == [i \in 0..Len(d.allOf) |-> IF i = 0 THEN own ELSE f[<<d.allOf[i], seen>>]]
<1>1. x[1] \in Nodes /\ seen \in SUBSET Nodes
    OBVIOUS
<1>2. CASE d.ref \in seen
    <2>1. ResolveStep(f, x) = Nothing
        BY <1>2 DEF ResolveStep
    <2>2. Nothing \in Known
        BY NothingKnown
    <2>. QED BY <2>1, <2>2
<1>3. CASE d.ref \notin seen /\ d.ref # NoNode
    <2>1. <<d.ref, seen \cup {d.ref}>> \in D
        BY <1>1, <1>3, ResolveAhead
    <2>2. f[<<d.ref, seen \cup {d.ref}>>] \in Known
        <3>. HIDE DEF D
        <3>. QED BY <2>1 DEF D
    <2>. QED BY <1>3, <2>2 DEF ResolveStep
<1>4. CASE d.ref \notin seen /\ d.ref = NoNode
    <2>1. Len(d.allOf) \in Nat /\ \A i \in 1..Len(d.allOf) : <<d.allOf[i], seen>> \in D
        BY <1>1, ResolveAhead
    <2>2. own \in Known
        <3>1. d.props \in [DOMAIN d.props -> Nodes] /\ d.text \in BOOLEAN
            BY <1>1, SpecAssumption
        <3>. QED BY <1>1, <3>1, KnownMeans
    <2>3. DOMAIN parts = 0..Len(d.allOf) /\ \A i \in 0..Len(d.allOf) : parts[i] \in Known
        <3>. HIDE DEF own
        <3>. QED BY <2>1, <2>2
    <2>. HIDE DEF parts
    <2>4. Flatten(parts) \in Known
        <3>. DEFINE whole == Flatten(parts)
        <3>. HIDE DEF whole
        <3>1. /\ whole = [props |-> whole.props, required |-> whole.required, text |-> whole.text]
              /\ whole.props = [m \in DOMAIN whole.props |-> whole.props[m]]
              /\ \A m \in DOMAIN whole.props :
                     \E i \in 0..Len(d.allOf) :
                         m \in DOMAIN parts[i].props /\ whole.props[m] = parts[i].props[m]
              /\ \A m \in whole.required : \E i \in 0..Len(d.allOf) : m \in parts[i].required
              /\ whole.text \in BOOLEAN
            BY <2>1, <2>3, FlattenMeans DEF whole
        <3>2. \A i \in 0..Len(d.allOf) :
                  /\ parts[i].props \in [DOMAIN parts[i].props -> Nodes]
                  /\ \A m \in DOMAIN parts[i].props : \E n \in Nodes : m \in DOMAIN Spec[n].props
                  /\ \A m \in parts[i].required : \E n \in Nodes : m \in Spec[n].required
            BY <2>3, KnownMeans
        <3>3. \A m \in DOMAIN whole.props :
                  whole.props[m] \in Nodes /\ \E n \in Nodes : m \in DOMAIN Spec[n].props
            BY <3>1, <3>2
        <3>4. \A m \in whole.required : \E n \in Nodes : m \in Spec[n].required
            BY <3>1, <3>2
        <3>5. whole.props \in [DOMAIN whole.props -> Nodes]
            BY <3>1, <3>3
        <3>. QED BY <3>1, <3>3, <3>4, <3>5, KnownMeans DEF whole
    <2>. QED BY <1>4, <2>4 DEF ResolveStep, parts
<1>. QED BY <1>2, <1>3, <1>4

LEMMA ResolveLooksAhead ==
    ASSUME NEW x \in Nodes \X SUBSET Nodes, NEW f, NEW g,
           \A y \in Nodes \X SUBSET Nodes : Farther(y) < Farther(x) => f[y] = g[y]
    PROVE  ResolveStep(f, x) = ResolveStep(g, x)
<1>. DEFINE d == Spec[x[1]]
            seen == x[2]
            own == [props |-> d.props, required |-> d.required, text |-> d.text]
            parts(h) == [i \in 0..Len(d.allOf) |-> IF i = 0 THEN own ELSE h[<<d.allOf[i], seen>>]]
<1>1. x[1] \in Nodes /\ seen \in SUBSET Nodes /\ x = <<x[1], seen>>
    OBVIOUS
<1>2. CASE d.ref \in seen
    BY <1>2 DEF ResolveStep
<1>3. CASE d.ref \notin seen /\ d.ref # NoNode
    <2>. SUFFICES ASSUME NEW y, y = <<d.ref, seen \cup {d.ref}>> PROVE f[y] = g[y]
        BY <1>3 DEF ResolveStep
    <2>1. y \in Nodes \X SUBSET Nodes /\ Farther(y) < Farther(x)
        BY <1>1, <1>3, ResolveAhead
    <2>. QED BY <2>1
<1>4. CASE d.ref \notin seen /\ d.ref = NoNode
    <2>1. \A i \in 1..Len(d.allOf) : f[<<d.allOf[i], seen>>] = g[<<d.allOf[i], seen>>]
        <3>. SUFFICES ASSUME NEW i \in 1..Len(d.allOf), NEW y, y = <<d.allOf[i], seen>> PROVE f[y] = g[y]
            OBVIOUS
        <3>1. y \in Nodes \X SUBSET Nodes /\ Farther(y) < Farther(x)
            BY <1>1, ResolveAhead
        <3>. QED BY <3>1
    <2>2. Len(d.allOf) \in Nat
        BY <1>1, ResolveAhead
    <2>3. parts(f) = parts(g)
        <3>. HIDE DEF own
        <3>1. \A i \in 0..Len(d.allOf) : i # 0 => i \in 1..Len(d.allOf)
            BY <2>2
        <3>. QED BY <2>1, <3>1
    <2>4. Flatten(parts(f)) = Flatten(parts(g))
        <3>. HIDE DEF parts
        <3>. QED BY <2>3
    <2>5. ResolveStep(f, x) = Flatten(parts(f)) /\ ResolveStep(g, x) = Flatten(parts(g))
        BY <1>4 DEF ResolveStep
    <2>. QED BY <2>4, <2>5
<1>. QED BY <1>2, <1>3, <1>4

LEMMA ResolveIs ==
    ASSUME NEW x \in Nodes \X SUBSET Nodes PROVE Resolve[x] = ResolveStep(Resolve, x)
<1>. DEFINE D == Nodes \X SUBSET Nodes
            After(f) == [y \in D |-> ResolveStep(f, y)]
            F == [f \in [D -> Known] |-> After(f)]
            rank == [y \in D |-> Farther(y)]
            b == [y \in D |-> Nothing]
            M == 2 * Cardinality(Nodes) + 1
<1>1. ASSUME NEW f \in [D -> Known] PROVE After(f) \in [D -> Known] /\ F[f] = After(f)
    <2>1. \A y \in D : ResolveStep(f, y) \in Known
        BY ResolveStepKnown
    <2>. HIDE DEF D
    <2>. QED BY <2>1
<1>2. F \in [[D -> Known] -> [D -> Known]] /\ b \in [D -> Known]
    <2>1. Nothing \in Known
        BY NothingKnown
    <2>2. b \in [D -> Known]
        <3>. HIDE DEF D
        <3>. QED BY <2>1
    <2>. HIDE DEF D, After
    <2>. QED BY <1>1, <2>2
<1>3. M \in Nat /\ rank \in [D -> 0..M]
    <2>1. ASSUME NEW y \in D PROVE Farther(y) \in 0..M
        <3>1. y[1] \in Nodes /\ y[2] \in SUBSET Nodes /\ y = <<y[1], y[2]>>
            OBVIOUS
        <3>2. Farther(<<y[1], y[2]>>) \in 0..M
            BY <3>1, ResolveAhead
        <3>. QED BY <3>1, <3>2
    <2>2. M \in Nat
        <3>1. Cardinality(Nodes) \in Nat
            BY BundledAssumption, FS_CardinalityType
        <3>. QED BY <3>1
    <2>. HIDE DEF D, M
    <2>. QED BY <2>1, <2>2
<1>4. ASSUME NEW f \in [D -> Known], NEW g \in [D -> Known], NEW y \in D,
             \A z \in D : rank[z] < rank[y] => f[z] = g[z]
      PROVE  F[f][y] = F[g][y]
    <2>1. \A z \in Nodes \X SUBSET Nodes : Farther(z) < Farther(y) => f[z] = g[z]
        BY <1>4
    <2>2. ResolveStep(f, y) = ResolveStep(g, y)
        BY <2>1, ResolveLooksAhead
    <2>3. F[f] = After(f) /\ F[g] = After(g)
        <3>. HIDE DEF D, F, After
        <3>. QED BY <1>1
    <2>4. F[f][y] = ResolveStep(f, y) /\ F[g][y] = ResolveStep(g, y)
        <3>. HIDE DEF D, F
        <3>. QED BY <2>3
    <2>. QED BY <2>2, <2>4
<1>5. PICK f \in [D -> Known] : F[f] = f
    <2>. HIDE DEF D, F, b, rank, M
    <2>1. StepOfRecursion(F, [D -> Known], D, rank, M)
        <3>1. \A f \in [D -> Known] : f = [y \in D |-> f[y]]
            OBVIOUS
        <3>. QED BY <1>2, <1>3, <1>4, <3>1 DEF StepOfRecursion
    <2>. QED BY <1>2, <2>1, Recursion
<1>. DEFINE Eq(g) == g = [y \in D |-> ResolveStep(g, y)]
<1>6. Eq(f)
    BY <1>1, <1>5
<1>7. Resolve = CHOOSE g : Eq(g)
    BY DEF Resolve, ResolveStep, D
<1>8. Eq(Resolve)
    <2>. HIDE DEF Eq
    <2>. QED BY <1>6, <1>7
<1>. QED BY <1>8

-----------------------------------------------------------------------------
(* What the lookups find for a document that is valid: R has judgements    *)
(* that hold together.                                                     *)

LEMMA AllowsEach ==
    ASSUME NEW v, NEW R, Consistent(R, v), NEW k, NEW p, <<k, p>> \in R
    PROVE  Allows(k, p, At(v, p), R)
<1>. SUFFICES ASSUME NEW x \in R, x = <<k, p>> PROVE Allows(k, p, At(v, p), R)
    OBVIOUS
<1>1. Allows(x[1], x[2], At(v, x[2]), R) /\ x[1] = k /\ x[2] = p
    BY DEF Consistent
<1>. QED BY <1>1

(* What is valid for a $ref is valid for what it refers to.                *)
LEMMA AllowsReferred ==
    ASSUME NEW v, NEW R, Consistent(R, v), NEW k, NEW p, <<k, p>> \in R, Spec[k].ref # NoNode
    PROVE  <<Spec[k].ref, p>> \in R
BY AllowsEach DEF Allows

(* What is valid for another node agrees with each of its keywords.        *)
LEMMA AllowsOwn ==
    ASSUME NEW v, NEW R, Consistent(R, v), NEW k, NEW p, <<k, p>> \in R, Spec[k].ref = NoNode
    PROVE  LET d == Spec[k]  w == At(v, p) IN
           /\ OfType(w, d.type)
           /\ d.enum # {} => TypeOf(w) = "string" /\ FirstWord(w[2]) \in d.enum
           /\ \A i \in DOMAIN d.allOf : <<d.allOf[i], p>> \in R
           /\ d.anyOf # {} => \E o \in d.anyOf :
                  <<o, p>> \in R /\ (Discriminated(k) => Names(w, Spec[o].ref))
           /\ d.required \subseteq Members(w) \/ ~ IsObject(w)
           /\ \A m \in Members(w) \cap DOMAIN d.props : <<d.props[m], Append(p, m)>> \in R
           /\ \A m \in Members(w) \ DOMAIN d.props :
                  d.additional # NoNode => <<d.additional, Append(p, m)>> \in R
<1>1. Allows(k, p, At(v, p), R)
    BY AllowsEach
<1>. QED BY <1>1 DEF Allows

(* What _resolve gives of a node an object is valid for: required members  *)
(* that are there, and members whose nodes they are valid for.             *)
Fulfilled(d, p, w, R) ==
    /\ IsObject(w) => d.required \subseteq Members(w)
    /\ \A m \in Members(w) \cap DOMAIN d.props : <<d.props[m], Append(p, m)>> \in R

LEMMA ResolveFulfilled ==
    ASSUME NEW v, NEW R, Consistent(R, v), NEW p, NEW k \in Nodes, NEW seen \in SUBSET Nodes, <<k, p>> \in R
    PROVE  Fulfilled(Resolve[<<k, seen>>], p, At(v, p), R)
<1>. DEFINE w == At(v, p)
            D == Nodes \X SUBSET Nodes
            S == {n \in Nat : \A y \in D : Farther(y) < n /\ <<y[1], p>> \in R => Fulfilled(Resolve[y], p, w, R)}
<1>1. \A y \in D : Farther(y) \in Nat
    <2>. SUFFICES ASSUME NEW y \in D PROVE Farther(y) \in Nat
        OBVIOUS
    <2>1. y[1] \in Nodes /\ y[2] \in SUBSET Nodes /\ y = <<y[1], y[2]>>
        OBVIOUS
    <2>2. Farther(<<y[1], y[2]>>) \in 0..(2 * Cardinality(Nodes) + 1)
        BY <2>1, ResolveAhead
    <2>. QED BY <2>1, <2>2
<1>2. 0 \in S
    <2>1. \A y \in D : ~ (Farther(y) < 0)
        BY <1>1
    <2>. HIDE DEF D
    <2>. QED BY <2>1
<1>3. ASSUME NEW n \in Nat, n \in S PROVE n + 1 \in S
    <2>. SUFFICES ASSUME NEW y \in D, Farther(y) < n + 1, <<y[1], p>> \in R
                  PROVE  Fulfilled(Resolve[y], p, w, R)
        OBVIOUS
    <2>0. PICK j \in Nodes, met \in SUBSET Nodes : y = <<j, met>>
        OBVIOUS
    <2>. DEFINE d == Spec[j]
                own == [props |-> d.props, required |-> d.required, text |-> d.text]
                parts == [i \in 0..Len(d.allOf) |-> IF i = 0 THEN own ELSE Resolve[<<d.allOf[i], met>>]]
    <2>1. j \in Nodes /\ met \in SUBSET Nodes /\ y = <<j, met>> /\ y[1] = j /\ y[2] = met /\ <<j, p>> \in R
        BY <2>0
    <2>2. Resolve[y] = ResolveStep(Resolve, y)
        BY ResolveIs
    <2>4. \A z \in D : Farther(z) < Farther(y) /\ <<z[1], p>> \in R => Fulfilled(Resolve[z], p, w, R)
        <3>. SUFFICES ASSUME NEW z \in D, Farther(z) < Farther(y), <<z[1], p>> \in R
                      PROVE  Fulfilled(Resolve[z], p, w, R)
            OBVIOUS
        <3>1. Farther(z) < n
            BY <1>1
        <3>. QED BY <1>3, <3>1
    <2>5. CASE d.ref \in met
        <3>1. Resolve[y] = Nothing
            BY <2>1, <2>2, <2>5 DEF ResolveStep
        <3>2. Nothing.required = {} /\ Nothing.props = << >> /\ DOMAIN << >> = {}
            BY DEF Nothing
        <3>. QED BY <3>1, <3>2 DEF Fulfilled
    <2>6. CASE d.ref \notin met /\ d.ref # NoNode
        <3>. SUFFICES ASSUME NEW z, z = <<d.ref, met \cup {d.ref}>>, Resolve[y] = Resolve[z]
                      PROVE  Fulfilled(Resolve[z], p, w, R)
            BY <2>1, <2>2, <2>6 DEF ResolveStep
        <3>1. z \in D /\ Farther(z) < Farther(y) /\ z[1] = d.ref
            <4>1. z \in D /\ Farther(z) < Farther(<<j, met>>)
                BY <2>1, <2>6, ResolveAhead
            <4>2. Farther(<<j, met>>) = Farther(y)
                BY <2>1
            <4>. QED BY <4>1, <4>2
        <3>2. <<d.ref, p>> \in R
            BY <2>1, <2>6, AllowsReferred
        <3>. HIDE DEF D
        <3>. QED BY <2>4, <3>1, <3>2
    <2>7. CASE d.ref \notin met /\ d.ref = NoNode
        <3>1. /\ Len(d.allOf) \in Nat /\ DOMAIN d.allOf = 1..Len(d.allOf)
              /\ d.required \subseteq Members(w) \/ ~ IsObject(w)
              /\ \A i \in DOMAIN d.allOf : <<d.allOf[i], p>> \in R
              /\ \A m \in Members(w) \cap DOMAIN d.props : <<d.props[m], Append(p, m)>> \in R
            <4>1. d.allOf \in Seq(Nodes)
                BY <2>1, SpecAssumption
            <4>2. Len(d.allOf) \in Nat /\ DOMAIN d.allOf = 1..Len(d.allOf)
                BY <4>1
            <4>. QED BY <2>1, <2>7, <4>2, AllowsOwn
        <3>2. Fulfilled(own, p, w, R)
            BY <3>1 DEF Fulfilled
        <3>3. ASSUME NEW i \in 1..Len(d.allOf) PROVE Fulfilled(Resolve[<<d.allOf[i], met>>], p, w, R)
            <4>. SUFFICES ASSUME NEW z, z = <<d.allOf[i], met>> PROVE Fulfilled(Resolve[z], p, w, R)
                OBVIOUS
            <4>1. z \in D /\ Farther(z) < Farther(y) /\ z[1] = d.allOf[i]
                BY <2>1, ResolveAhead
            <4>2. <<d.allOf[i], p>> \in R
                BY <3>1
            <4>. HIDE DEF D
            <4>. QED BY <2>4, <4>1, <4>2
        <3>4. DOMAIN parts = 0..Len(d.allOf) /\ \A i \in 0..Len(d.allOf) : Fulfilled(parts[i], p, w, R)
            <4>. HIDE DEF own
            <4>1. \A i \in 0..Len(d.allOf) : i # 0 => i \in 1..Len(d.allOf)
                BY <3>1
            <4>. QED BY <3>2, <3>3, <4>1
        <3>. DEFINE whole == Flatten(parts)
        <3>. HIDE DEF parts, whole
        <3>5. /\ \A m \in DOMAIN whole.props :
                     \E i \in 0..Len(d.allOf) :
                         m \in DOMAIN parts[i].props /\ whole.props[m] = parts[i].props[m]
              /\ \A m \in whole.required : \E i \in 0..Len(d.allOf) : m \in parts[i].required
            BY <3>1, <3>4, FlattenMeans DEF whole
        <3>6. Fulfilled(whole, p, w, R)
            BY <3>4, <3>5 DEF Fulfilled
        <3>7. Resolve[y] = whole
            BY <2>1, <2>2, <2>7 DEF ResolveStep, parts, whole
        <3>. QED BY <3>6, <3>7
    <2>. QED BY <2>5, <2>6, <2>7
<1>4. Nat \subseteq S
    <2>. HIDE DEF S
    <2>. QED BY <1>2, <1>3, NatSet
<1>5. ASSUME NEW y, y = <<k, seen>> PROVE Fulfilled(Resolve[y], p, w, R)
    <2>1. y \in D /\ y[1] = k
        BY <1>5
    <2>2. Farther(y) + 1 \in S /\ Farther(y) < Farther(y) + 1
        BY <1>1, <1>4, <2>1
    <2>. QED BY <2>1, <2>2
<1>. QED BY <1>5

(* What accepted_types gives of a node that is no $ref, and of one that is.*)
LEMMA AcceptedOwn ==
    ASSUME NEW k \in Nodes, NEW seen \in SUBSET Nodes, Spec[k].ref = NoNode
    PROVE  AcceptedTypes[<<k, seen>>] =
               IF Spec[k].type # "" THEN JsonTypes(Spec[k].type)
               ELSE UNION {AcceptedTypes[<<o, seen>>] : o \in Spec[k].anyOf}
<1>. DEFINE x == <<k, seen>>
<1>1. x \in Nodes \X SUBSET Nodes /\ x[1] = k /\ x[2] = seen /\ NoNode \notin seen
    BY SpecAssumption
<1>2. AcceptedTypes[x] = AcceptsStep(AcceptedTypes, x)
    BY <1>1, AcceptedTypesIs
<1>3. AcceptsStep(AcceptedTypes, x) =
          IF Spec[k].type # "" THEN JsonTypes(Spec[k].type)
          ELSE UNION {AcceptedTypes[<<o, seen>>] : o \in Spec[k].anyOf}
    BY <1>1 DEF AcceptsStep
<1>. QED BY <1>2, <1>3

LEMMA AcceptedReferred ==
    ASSUME NEW k \in Nodes, NEW seen \in SUBSET Nodes, Spec[k].ref # NoNode
    PROVE  AcceptedTypes[<<k, seen>>] =
               IF Spec[k].ref \in seen THEN {} ELSE AcceptedTypes[<<Spec[k].ref, seen \cup {Spec[k].ref}>>]
<1>. DEFINE x == <<k, seen>>
<1>1. x \in Nodes \X SUBSET Nodes /\ x[1] = k /\ x[2] = seen
    OBVIOUS
<1>2. AcceptedTypes[x] = AcceptsStep(AcceptedTypes, x)
    BY <1>1, AcceptedTypesIs
<1>3. AcceptsStep(AcceptedTypes, x) =
          IF Spec[k].ref \in seen THEN {} ELSE AcceptedTypes[<<Spec[k].ref, seen \cup {Spec[k].ref}>>]
    BY <1>1 DEF AcceptsStep
<1>. QED BY <1>2, <1>3

(* When no node seen has a type, the options of a union all constrain the  *)
(* type, or none of them does.                                             *)
LEMMA OptionsAgree ==
    ASSUME NEW k \in Nodes, NEW seen \in SUBSET Nodes, \A s \in seen : Spec[s].type = ""
    PROVE  \/ \A o \in Spec[k].anyOf : AcceptedTypes[<<o, seen>>] # {}
           \/ \A o \in Spec[k].anyOf : AcceptedTypes[<<o, seen>>] = {}
<1>. DEFINE Meant(o) == IF Spec[o].ref # NoNode THEN Spec[o].ref ELSE o
            Bare(x) == Spec[x].type = "" /\ Spec[x].ref = NoNode /\ Spec[x].anyOf = {}
<1>1. /\ Spec[k].anyOf \subseteq Nodes
      /\ \/ \A o \in Spec[k].anyOf : Spec[Meant(o)].type # ""
         \/ \A o \in Spec[k].anyOf : Bare(Meant(o))
    <2>. DEFINE meant == {Meant(o) : o \in Spec[k].anyOf}
    <2>1. Spec[k].anyOf \subseteq Nodes
        BY SpecAssumption
    <2>2. (\A x \in meant : Spec[x].type # "") \/ (\A x \in meant : Bare(x))
        BY BundledAssumption
    <2>. HIDE DEF Meant, Bare
    <2>. QED BY <2>1, <2>2
<1>2. ASSUME NEW x \in Nodes, NEW met \in SUBSET Nodes, Spec[x].type # ""
      PROVE  AcceptedTypes[<<x, met>>] # {}
    <2>1. Spec[x].ref = NoNode
        BY <1>2, BundledAssumption
    <2>2. AcceptedTypes[<<x, met>>] = JsonTypes(Spec[x].type)
        BY <1>2, <2>1, AcceptedOwn
    <2>. QED BY <2>2 DEF JsonTypes
<1>3. ASSUME NEW x \in Nodes, NEW met \in SUBSET Nodes, Bare(x)
      PROVE  AcceptedTypes[<<x, met>>] = {}
    <2>1. AcceptedTypes[<<x, met>>] = UNION {AcceptedTypes[<<o, met>>] : o \in Spec[x].anyOf}
        BY <1>3, AcceptedOwn
    <2>. QED BY <1>3, <2>1
<1>4. ASSUME NEW o \in Spec[k].anyOf
      PROVE  /\ Spec[Meant(o)].type # "" => AcceptedTypes[<<o, seen>>] # {}
             /\ Bare(Meant(o)) => AcceptedTypes[<<o, seen>>] = {}
    <2>1. o \in Nodes /\ (Spec[o].ref # NoNode => Spec[o].ref \in Nodes)
        BY <1>1, SpecAssumption
    <2>2. CASE Spec[o].ref = NoNode
        <3>. HIDE DEF Bare
        <3>. QED BY <1>2, <1>3, <2>1, <2>2
    <2>3. CASE Spec[o].ref # NoNode /\ Spec[o].ref \in seen
        BY <2>1, <2>3, AcceptedReferred
    <2>4. CASE Spec[o].ref # NoNode /\ Spec[o].ref \notin seen
        <3>. SUFFICES ASSUME NEW r \in Nodes, r = Spec[o].ref, NEW met \in SUBSET Nodes, met = seen \cup {r}
                      PROVE  /\ Spec[r].type # "" => AcceptedTypes[<<o, seen>>] # {}
                             /\ Bare(r) => AcceptedTypes[<<o, seen>>] = {}
            BY <2>1, <2>4
        <3>1. AcceptedTypes[<<o, seen>>] = AcceptedTypes[<<r, met>>]
            BY <2>1, <2>4, AcceptedReferred
        <3>. HIDE DEF Bare
        <3>. QED BY <1>2, <1>3, <3>1
    <2>. QED BY <2>2, <2>3, <2>4
<1>. HIDE DEF Meant, Bare
<1>. QED BY <1>1, <1>4

(* What is valid for a node has a type accepted_types gives of it, if no   *)
(* node seen before it has a type: what refers to another has none.        *)
Fresh(y) == \A s \in y[2] : Spec[s].type # "" => s = y[1]

LEMMA ValidAccepted ==
    ASSUME NEW v, NEW R, Consistent(R, v), NEW p, NEW x \in Nodes \X SUBSET Nodes, <<x[1], p>> \in R, Fresh(x)
    PROVE  Matches(At(v, p), AcceptedTypes[x])
<1>. DEFINE w == At(v, p)
            D == Nodes \X SUBSET Nodes
            S == {n \in Nat : \A y \in D :
                     Ahead(y) < n /\ <<y[1], p>> \in R /\ Fresh(y) => Matches(w, AcceptedTypes[y])}
<1>1. \A y \in D : Ahead(y) \in Nat
    <2>. SUFFICES ASSUME NEW y \in D PROVE Ahead(y) \in Nat
        OBVIOUS
    <2>1. y[1] \in Nodes /\ y[2] \in SUBSET Nodes /\ y = <<y[1], y[2]>>
        OBVIOUS
    <2>2. Ahead(<<y[1], y[2]>>) \in 0..(2 * Cardinality(Nodes) + 1)
        BY <2>1, AcceptsAhead
    <2>. QED BY <2>1, <2>2
<1>2. 0 \in S
    <2>1. \A y \in D : ~ (Ahead(y) < 0)
        BY <1>1
    <2>. HIDE DEF D
    <2>. QED BY <2>1
<1>3. ASSUME NEW n \in Nat, n \in S PROVE n + 1 \in S
    <2>. SUFFICES ASSUME NEW y \in D, Ahead(y) < n + 1, <<y[1], p>> \in R, Fresh(y)
                  PROVE  Matches(w, AcceptedTypes[y])
        OBVIOUS
    <2>0. PICK j \in Nodes, seen \in SUBSET Nodes : y = <<j, seen>>
        OBVIOUS
    <2>. DEFINE d == Spec[j]
    <2>1. j \in Nodes /\ seen \in SUBSET Nodes /\ y = <<j, seen>> /\ y[1] = j /\ y[2] = seen /\ <<j, p>> \in R
        BY <2>0
    <2>2. \A z \in D : Ahead(z) < Ahead(y) /\ <<z[1], p>> \in R /\ Fresh(z) => Matches(w, AcceptedTypes[z])
        <3>. SUFFICES ASSUME NEW z \in D, Ahead(z) < Ahead(y), <<z[1], p>> \in R, Fresh(z)
                      PROVE  Matches(w, AcceptedTypes[z])
            OBVIOUS
        <3>1. Ahead(z) < n
            BY <1>1
        <3>. QED BY <1>3, <3>1
    <2>3. CASE d.ref # NoNode /\ d.ref \in seen
        <3>1. AcceptedTypes[y] = {}
            BY <2>1, <2>3, AcceptedReferred
        <3>. QED BY <3>1 DEF Matches
    <2>4. CASE d.ref # NoNode /\ d.ref \notin seen
        <3>0. AcceptedTypes[y] = AcceptedTypes[<<d.ref, seen \cup {d.ref}>>]
            BY <2>1, <2>4, AcceptedReferred
        <3>. SUFFICES ASSUME NEW z, z = <<d.ref, seen \cup {d.ref}>> PROVE Matches(w, AcceptedTypes[z])
            BY <3>0
        <3>1. z \in D /\ Ahead(z) < Ahead(y)
            <4>1. z \in D /\ Ahead(z) < Ahead(<<j, seen>>)
                BY <2>1, <2>4, AcceptsAhead
            <4>. QED BY <2>1, <4>1
        <3>2. z[1] = d.ref /\ z[2] = seen \cup {d.ref}
            OBVIOUS
        <3>3. <<d.ref, p>> \in R
            BY <2>1, <2>4, AllowsReferred
        <3>4. Fresh(z)
            <4>1. d.type = ""
                BY <2>1, <2>4, BundledAssumption
            <4>. QED BY <2>1, <3>2, <4>1 DEF Fresh
        <3>. HIDE DEF D
        <3>. QED BY <2>2, <3>1, <3>2, <3>3, <3>4
    <2>5. CASE d.ref = NoNode /\ d.type # ""
        <3>1. OfType(w, d.type)
            BY <2>1, <2>5, AllowsOwn
        <3>2. AcceptedTypes[y] = JsonTypes(d.type)
            BY <2>1, <2>5, AcceptedOwn
        <3>. QED BY <2>5, <3>1, <3>2 DEF OfType, JsonTypes, Matches
    <2>6. CASE d.ref = NoNode /\ d.type = ""
        <3>. DEFINE Of(o) == AcceptedTypes[<<o, seen>>]
        <3>1. AcceptedTypes[y] = UNION {Of(o) : o \in d.anyOf}
            BY <2>1, <2>6, AcceptedOwn
        <3>2. \A s \in seen : Spec[s].type = ""
            BY <2>1, <2>6 DEF Fresh
        <3>3. (\A o \in d.anyOf : Of(o) # {}) \/ (\A o \in d.anyOf : Of(o) = {})
            BY <2>1, <3>2, OptionsAgree
        <3>4. d.anyOf # {} => \E o \in d.anyOf : Matches(w, Of(o))
            <4>. SUFFICES ASSUME d.anyOf # {} PROVE \E o \in d.anyOf : Matches(w, Of(o))
                OBVIOUS
            <4>1. PICK o \in d.anyOf : <<o, p>> \in R
                BY <2>1, <2>6, AllowsOwn
            <4>. SUFFICES ASSUME NEW z, z = <<o, seen>> PROVE Matches(w, AcceptedTypes[z])
                OBVIOUS
            <4>2. z \in D /\ z[1] = o /\ z[2] = seen /\ Ahead(z) < Ahead(y)
                <5>1. z \in D /\ Ahead(z) < Ahead(<<j, seen>>)
                    BY <2>1, AcceptsAhead
                <5>. QED BY <2>1, <5>1
            <4>3. Fresh(z)
                BY <3>2, <4>2 DEF Fresh
            <4>. HIDE DEF D
            <4>. QED BY <2>2, <4>1, <4>2, <4>3
        <3>5. Matches(w, UNION {Of(o) : o \in d.anyOf})
            <4>. HIDE DEF Of, w
            <4>1. CASE d.anyOf = {}
                BY <4>1 DEF Matches
            <4>2. CASE \E o \in d.anyOf : TypeOf(w) \in Of(o)
                BY <4>2 DEF Matches
            <4>3. CASE \A o \in d.anyOf : Of(o) = {}
                BY <4>3 DEF Matches
            <4>. QED BY <3>3, <3>4, <4>1, <4>2, <4>3 DEF Matches
        <3>. QED BY <3>1, <3>5
    <2>. QED BY <2>3, <2>4, <2>5, <2>6
<1>4. Nat \subseteq S
    <2>. HIDE DEF S
    <2>. QED BY <1>2, <1>3, NatSet
<1>5. Ahead(x) + 1 \in S /\ Ahead(x) < Ahead(x) + 1
    <2>1. Ahead(x) \in Nat
        BY <1>1
    <2>. HIDE DEF S
    <2>. QED BY <1>4, <2>1
<1>. QED BY <1>5

LEMMA ValidMatches ==
    ASSUME NEW v, NEW R, Consistent(R, v), NEW p, NEW k \in Nodes, <<k, p>> \in R
    PROVE  Matches(At(v, p), Accepted[k])
<1>. SUFFICES ASSUME NEW x, x = <<k, {}>> PROVE Matches(At(v, p), AcceptedTypes[x])
    BY DEF Accepted
<1>1. x \in Nodes \X SUBSET Nodes /\ x[1] = k /\ x[2] = {}
    OBVIOUS
<1>2. Fresh(x)
    BY <1>1 DEF Fresh
<1>. QED BY <1>1, <1>2, ValidAccepted

-----------------------------------------------------------------------------
(* The nodes of the positions of a document.                               *)

(* The nodes met on the way along a path.                                  *)
NextNode(n, m) == IF n = NoNode THEN NoNode ELSE Descend(n, m)
Walk(g, p) == g = [k \in 0..Len(p) |-> IF k = 0 THEN Root ELSE NextNode(g[k-1], p[k])]

LEMMA WalkExists ==
    ASSUME NEW p, IsSeq(p) PROVE \E g : Walk(g, p)
<1>. DEFINE N == Len(p)
            Eq(n, g) == g = [k \in 0..n |-> IF k = 0 THEN Root ELSE NextNode(g[k-1], p[k])]
            S == {n \in 0..N : \E g : Eq(n, g)}
<1>1. N \in Nat
    BY AppendIsSeq
<1>2. 0 \in S
    <2>1. Eq(0, [k \in 0..0 |-> Root])
        OBVIOUS
    <2>. HIDE DEF Eq
    <2>. QED BY <1>1, <2>1
<1>3. ASSUME NEW n \in 0..N, n \in S, n < N PROVE n + 1 \in S
    <2>1. PICK g : Eq(n, g)
        BY <1>3
    <2>. DEFINE h == [k \in 0..(n+1) |-> IF k <= n THEN g[k] ELSE NextNode(g[n], p[n+1])]
    <2>2. \A k \in 0..n : g[k] = IF k = 0 THEN Root ELSE NextNode(g[k-1], p[k])
        BY <2>1
    <2>3. \A k \in 0..(n+1) : h[k] = IF k = 0 THEN Root ELSE NextNode(h[k-1], p[k])
        BY <2>2
    <2>4. Eq(n + 1, h)
        <3>1. h = [k \in 0..(n+1) |-> h[k]]
            OBVIOUS
        <3>. HIDE DEF h
        <3>. QED BY <2>3, <3>1
    <2>. HIDE DEF Eq
    <2>. QED BY <1>1, <1>3, <2>4
<1>4. 0..N \subseteq S
    <2>. HIDE DEF S, N
    <2>. QED BY <1>1, <1>2, <1>3, UpTo
<1>. QED BY <1>1, <1>4 DEF Walk

(* The node of a path is the last one met on the way along it.             *)
LEMMA WalkIsNodeAt ==
    ASSUME NEW p, IsSeq(p), NEW g, Walk(g, p) PROVE NodeAt(p) = g[Len(p)]
<1>. DEFINE along == CHOOSE f : Walk(f, p)
<1>1. NodeAt(p) = along[Len(p)]
    BY DEF NodeAt, Walk, NextNode
<1>2. Walk(along, p)
    BY WalkExists
<1>. DEFINE S == {n \in 0..Len(p) : along[n] = g[n]}
<1>. HIDE DEF along
<1>3. 0 \in S
    BY <1>2 DEF Walk
<1>4. ASSUME NEW n \in 0..Len(p), n \in S, n < Len(p) PROVE n + 1 \in S
    BY <1>2, <1>4 DEF Walk
<1>5. Len(p) \in Nat
    BY AppendIsSeq
<1>6. 0..Len(p) \subseteq S
    <2>. HIDE DEF S
    <2>. QED BY <1>3, <1>4, <1>5, UpTo
<1>. QED BY <1>1, <1>5, <1>6

(* One member further.                                                     *)
LEMMA NodeAtAppend ==
    ASSUME NEW p, NEW m, IsSeq(p) PROVE NodeAt(Append(p, m)) = NextNode(NodeAt(p), m)
<1>. DEFINE r == Append(p, m)
<1>1. IsSeq(r) /\ Len(p) \in Nat /\ Len(r) = Len(p) + 1
      /\ r[Len(p) + 1] = m /\ \A i \in 1..Len(p) : r[i] = p[i]
    BY AppendIsSeq
<1>. HIDE DEF r
<1>2. PICK g : Walk(g, r)
    BY <1>1, WalkExists
<1>3. \A k \in 0..Len(r) : g[k] = IF k = 0 THEN Root ELSE NextNode(g[k-1], r[k])
    BY <1>2 DEF Walk
<1>. DEFINE f == [k \in 0..Len(p) |-> g[k]]
<1>4. Walk(f, p)
    <2>1. ASSUME NEW k \in 0..Len(p) PROVE f[k] = IF k = 0 THEN Root ELSE NextNode(f[k-1], p[k])
        <3>1. k \in 0..Len(r) /\ (k # 0 => k - 1 \in 0..Len(p) /\ r[k] = p[k])
            BY <1>1
        <3>. QED BY <1>3, <3>1
    <2>2. f = [k \in 0..Len(p) |-> f[k]]
        OBVIOUS
    <2>. HIDE DEF f
    <2>. QED BY <2>1, <2>2 DEF Walk
<1>5. NodeAt(p) = g[Len(p)]
    <2>1. f[Len(p)] = g[Len(p)]
        BY <1>1
    <2>. HIDE DEF f
    <2>. QED BY <1>4, <2>1, WalkIsNodeAt
<1>6. NodeAt(r) = g[Len(p) + 1]
    BY <1>1, <1>2, WalkIsNodeAt
<1>7. g[Len(p) + 1] = NextNode(g[Len(p)], m)
    <2>1. Len(p) + 1 \in 0..Len(r) /\ Len(p) + 1 # 0 /\ Len(p) + 1 - 1 = Len(p)
        BY <1>1
    <2>. QED BY <1>1, <1>3, <2>1
<1>8. NodeAt(r) = NextNode(NodeAt(p), m)
    BY <1>5, <1>6, <1>7
<1>. QED BY <1>8 DEF r

(* Wherever a path leads, what is there is judged: below a position that   *)
(* is, a member has no node, or one that it is valid for.                  *)
LEMMA DescendJudged ==
    ASSUME NEW v, NEW R, Consistent(R, v), NEW p, NEW n \in Nodes, <<n, p>> \in R, NEW m \in Members(At(v, p))
    PROVE  Descend(n, m) = NoNode \/ (Descend(n, m) \in Nodes /\ <<Descend(n, m), Append(p, m)>> \in R)
<1>. DEFINE t == Target[n]
            d == Spec[t]
<1>1. t \in Nodes /\ <<t, p>> \in R
    BY SpecAssumption, AllowsReferred DEF Target
<1>2. /\ d.props \in [DOMAIN d.props -> Nodes] /\ d.additional \in Nodes \cup {NoNode}
    BY <1>1, SpecAssumption
<1>3. CASE d.ref # NoNode
    <2>1. d.props = << >> /\ d.additional = NoNode
        BY <1>1, <1>3, BundledAssumption
    <2>2. DOMAIN << >> = {}
        OBVIOUS
    <2>3. m \notin DOMAIN d.props
        BY <2>1, <2>2
    <2>. QED BY <2>1, <2>3 DEF Descend
<1>4. CASE d.ref = NoNode
    <2>1. /\ \A k \in Members(At(v, p)) \cap DOMAIN d.props : <<d.props[k], Append(p, k)>> \in R
          /\ \A k \in Members(At(v, p)) \ DOMAIN d.props :
                 d.additional # NoNode => <<d.additional, Append(p, k)>> \in R
        BY <1>1, <1>4, AllowsOwn
    <2>. QED BY <1>2, <2>1 DEF Descend
<1>. QED BY <1>3, <1>4

(* The branch of a union that is chosen for an object is one the object is *)
(* valid for, unless it has the type of an application it is not.          *)
LEMMA BranchJudged ==
    ASSUME NEW v, NEW R, Consistent(R, v), NEW p, NEW n \in Nodes, <<n, p>> \in R,
           n \in Unions \ ApplicationUnions => KindOf(At(v, p)) \notin DOMAIN AppSchemas
    PROVE  SelectBranch(n, At(v, p)) \in Nodes /\ <<SelectBranch(n, At(v, p)), p>> \in R
<1>. DEFINE w == At(v, p)
            t == Target[n]
<1>1. CASE n \notin Unions
    BY <1>1 DEF SelectBranch
<1>2. CASE n \in Unions \ ApplicationUnions
    BY <1>2 DEF SelectBranch
<1>3. CASE n \in ApplicationUnions
    <2>1. t \in Nodes /\ <<t, p>> \in R
        BY SpecAssumption, AllowsReferred DEF Target
    <2>2. Spec[t].anyOf # {} /\ Spec[t].anyOf \subseteq Nodes
        BY <1>3, <2>1, SpecAssumption DEF ApplicationUnions, Unions
    <2>3. Spec[t].ref = NoNode
        BY <2>1, <2>2, BundledAssumption
    <2>4. \A o \in Spec[t].anyOf : Spec[o].ref \in Range(AppSchemas)
        BY <1>3 DEF ApplicationUnions
    <2>5. Discriminated(t)
        BY <2>2, <2>4 DEF Discriminated
    <2>6. PICK o \in Spec[t].anyOf : <<o, p>> \in R /\ Names(w, Spec[o].ref)
        BY <2>1, <2>2, <2>3, <2>5, AllowsOwn
    <2>7. KindOf(w) \in DOMAIN AppSchemas /\ AppSchemas[KindOf(w)] = Spec[o].ref
        BY <2>6 DEF Names, KindOf, Get
    <2>8. Spec[o].ref \in Nodes /\ Spec[o].ref # NoNode
        BY <2>4, <2>6, SpecAssumption
    <2>9. <<Spec[o].ref, p>> \in R
        BY <2>6, <2>8, AllowsReferred
    <2>10. SelectBranch(n, w) = Spec[o].ref
        BY <1>3, <2>7 DEF SelectBranch, ApplicationUnions
    <2>. QED BY <2>8, <2>9, <2>10
<1>4. n \in ApplicationUnions => n \in Unions
    BY DEF ApplicationUnions
<1>. QED BY <1>1, <1>2, <1>3, <1>4

-----------------------------------------------------------------------------
(* The check.                                                              *)

(* The positions the check visits: below each, objects only.               *)
LEMMA CheckedFacts ==
    ASSUME NEW at, NEW v
    PROVE  \A p \in Checked(at, v) :
               /\ IsSeq(p)
               /\ p # << >> => \E q \in Checked(at, v) : \E m \in Members(At(v, q)) :
                                   p = Append(q, m) /\ IsObject(At(v, q)[2][m])
<1>. DEFINE Kids(q) == LET w == At(v, q)  objects == {m \in Members(w) : IsObject(w[2][m])} IN
                       IF objects = {} THEN {} ELSE objects \cap Fitting(Describe(at \o q, w).props, w)
            More(A) == A \cup UNION {{Append(q, m) : m \in Kids(q)} : q \in A}
            Eq(n, g) == g = [k \in 0..n |-> IF k = 0 THEN {<< >>} ELSE More(g[k-1])]
            reached == CHOOSE g : Eq(CheckDepth, g)
            S == {n \in 0..CheckDepth : \E g : Eq(n, g)}
            U == UNION {reached[k] : k \in 0..CheckDepth}
            K == [q \in U |-> Kids(q)]
<1>1. Checked(at, v) = reached[CheckDepth] /\ CheckDepth \in Nat
    BY CheckAssumption DEF Checked, Below
<1>2. \A q : \A m \in Kids(q) : m \in Members(At(v, q)) /\ IsObject(At(v, q)[2][m])
    OBVIOUS
<1>. HIDE DEF Kids
<1>3. 0 \in S
    <2>1. Eq(0, [k \in 0..0 |-> {<< >>}])
        OBVIOUS
    <2>. HIDE DEF Eq
    <2>. QED BY <1>1, <2>1
<1>4. ASSUME NEW n \in 0..CheckDepth, n \in S, n < CheckDepth PROVE n + 1 \in S
    <2>1. PICK g : Eq(n, g)
        BY <1>4
    <2>. DEFINE h == [k \in 0..(n+1) |-> IF k <= n THEN g[k] ELSE More(g[n])]
    <2>. HIDE DEF More
    <2>2. \A k \in 0..n : g[k] = IF k = 0 THEN {<< >>} ELSE More(g[k-1])
        BY <2>1
    <2>3. \A k \in 0..(n+1) : h[k] = IF k = 0 THEN {<< >>} ELSE More(h[k-1])
        BY <2>2
    <2>4. Eq(n + 1, h)
        <3>1. h = [k \in 0..(n+1) |-> h[k]]
            OBVIOUS
        <3>. HIDE DEF h
        <3>. QED BY <2>3, <3>1
    <2>. HIDE DEF Eq
    <2>. QED BY <1>1, <1>4, <2>4
<1>5. Eq(CheckDepth, reached)
    <2>1. 0..CheckDepth \subseteq S
        <3>. HIDE DEF S
        <3>. QED BY <1>3, <1>4, CheckAssumption, UpTo
    <2>2. CheckDepth \in S
        <3>. HIDE DEF S
        <3>. QED BY <2>1, CheckAssumption
    <2>. HIDE DEF Eq
    <2>. QED BY <2>2
<1>. HIDE DEF reached
<1>6. Reaches(reached, CheckDepth, K)
    <2>1. reached[0] = {<< >>}
        BY <1>1, <1>5
    <2>2. ASSUME NEW k \in 1..CheckDepth
          PROVE  reached[k] = reached[k-1] \cup UNION {{Append(p, m) : m \in K[p]} : p \in reached[k-1]}
        <3>1. k \in 0..CheckDepth /\ k # 0 /\ k - 1 \in 0..CheckDepth
            BY <1>1
        <3>2. reached[k] = More(reached[k-1])
            <4>. HIDE DEF More
            <4>. QED BY <1>5, <3>1
        <3>3. \A p \in reached[k-1] : K[p] = Kids(p)
            BY <3>1
        <3>. HIDE DEF K
        <3>. QED BY <3>2, <3>3
    <2>. HIDE DEF K
    <2>. QED BY <1>1, <2>1, <2>2 DEF Reaches
<1>7. \A p \in reached[CheckDepth] : K[p] = Kids(p)
    <2>1. \A p \in reached[CheckDepth] : p \in U
        BY <1>1
    <2>. QED BY <2>1
<1>. HIDE DEF K
<1>8. \A p \in reached[CheckDepth] :
          IsSeq(p) /\ (p # << >> => \E q \in reached[CheckDepth] : \E m \in K[q] : p = Append(q, m))
    BY <1>6, Reached
<1>9. ASSUME NEW p \in reached[CheckDepth], p # << >>
      PROVE  \E q \in reached[CheckDepth] : \E m \in Members(At(v, q)) :
                 p = Append(q, m) /\ IsObject(At(v, q)[2][m])
    <2>1. PICK q \in reached[CheckDepth] : \E m \in Kids(q) : p = Append(q, m)
        BY <1>7, <1>8, <1>9
    <2>2. PICK m \in Kids(q) : p = Append(q, m)
        BY <2>1
    <2>. QED BY <1>2, <2>2
<1>. QED BY <1>1, <1>8, <1>9

(* The check looks at objects, and below a document that is valid at what  *)
(* is valid for its node.                                                  *)
Sound(n, p, R) == n = NoNode \/ (n \in Nodes /\ <<n, p>> \in R)

LEMMA CheckedJudged ==
    ASSUME NEW at, IsSeq(at), NEW v, IsObject(v), NEW R, Consistent(R, v), Sound(NodeAt(at), << >>, R),
           NEW p \in Checked(at, v)
    PROVE  IsObject(At(v, p)) /\ Sound(NodeAt(at \o p), p, R)
<1>. DEFINE T == {q \in Checked(at, v) : IsObject(At(v, q)) /\ Sound(NodeAt(at \o q), q, R)}
            P == Checked(at, v) \cup {<< >>}
            T0 == T \cup {<< >>}
<1>1. at \o << >> = at
    BY EmptyIsSeq, ConcatIsSeq
<1>2. IsObject(At(v, << >>)) /\ Sound(NodeAt(at \o << >>), << >>, R)
    BY <1>1, AtRoot
<1>3. ASSUME NEW q \in Checked(at, v), q # << >>
      PROVE  \E h \in P : \E m : q = Append(h, m) /\ (h \in T0 => q \in T0)
    <2>1. PICK h \in Checked(at, v) : \E m \in Members(At(v, h)) :
              q = Append(h, m) /\ IsObject(At(v, h)[2][m])
        BY <1>3, CheckedFacts
    <2>2. PICK m \in Members(At(v, h)) : q = Append(h, m) /\ IsObject(At(v, h)[2][m])
        BY <2>1
    <2>3. IsSeq(h) /\ IsSeq(at \o h) /\ at \o q = Append(at \o h, m)
        BY <2>2, CheckedFacts, ConcatIsSeq
    <2>4. IsObject(At(v, q))
        BY <2>2, <2>3, AtAppend
    <2>5. NodeAt(at \o q) = NextNode(NodeAt(at \o h), m)
        BY <2>3, NodeAtAppend
    <2>6. ASSUME Sound(NodeAt(at \o h), h, R) PROVE Sound(NodeAt(at \o q), q, R)
        <3>1. CASE NodeAt(at \o h) = NoNode
            BY <2>5, <3>1 DEF NextNode, Sound
        <3>2. CASE NodeAt(at \o h) # NoNode
            <4>. SUFFICES ASSUME NEW n \in Nodes, n = NodeAt(at \o h), <<n, h>> \in R, n # NoNode
                          PROVE  Sound(NodeAt(at \o q), q, R)
                BY <2>6, <3>2 DEF Sound
            <4>1. Descend(n, m) = NoNode \/ (Descend(n, m) \in Nodes /\ <<Descend(n, m), Append(h, m)>> \in R)
                BY DescendJudged
            <4>. QED BY <2>2, <2>5, <4>1 DEF NextNode, Sound
        <3>. QED BY <3>1, <3>2
    <2>7. h \in T0 => Sound(NodeAt(at \o h), h, R)
        BY <1>2
    <2>. QED BY <1>3, <2>1, <2>2, <2>4, <2>6, <2>7
<1>4. P \subseteq T0
    <2>1. \A q \in P : /\ IsSeq(q)
                       /\ q # << >> => \E h \in P : \E m : q = Append(h, m) /\ (h \in T0 => q \in T0)
        BY <1>3, CheckedFacts, EmptyIsSeq
    <2>2. << >> \in T0
        OBVIOUS
    <2>. HIDE DEF P, T0
    <2>. QED BY <2>1, <2>2, Downward
<1>5. p \in T0
    <2>1. p \in P
        OBVIOUS
    <2>. HIDE DEF P, T0
    <2>. QED BY <1>4, <2>1
<1>. QED BY <1>2, <1>5

(* Of a member that is valid for its node no type and no value is reported.*)
LEMMA ValidInEnum ==
    ASSUME NEW v, NEW R, Consistent(R, v), NEW p, NEW k \in Nodes, <<k, p>> \in R
    PROVE  InEnum(At(v, p), Spec[k].enum)
<1>1. CASE Spec[k].ref = NoNode
    <2>1. Spec[k].enum # {} => FirstWord(At(v, p)[2]) \in Spec[k].enum
        BY <1>1, AllowsOwn
    <2>. QED BY <2>1 DEF InEnum
<1>2. CASE Spec[k].ref # NoNode
    <2>1. Spec[k].enum = {}
        BY <1>2, BundledAssumption
    <2>. QED BY <2>1 DEF InEnum
<1>. QED BY <1>1, <1>2

(* Nothing is reported as a likely mistake of an object that is valid for  *)
(* the node it is checked against, itself.                                 *)
LEMMA NothingCertainAt ==
    ASSUME NEW at, NEW v, NEW p, IsSeq(p), IsObject(At(v, p)),
           NEW R, Consistent(R, v), Sound(NodeAt(at), p, R),
           NodeAt(at) \in Unions \ ApplicationUnions => KindOf(At(v, p)) \notin DOMAIN AppSchemas,
           NEW f \in FindingsAt(at, At(v, p), p)
    PROVE  ~ Certain(f)
<1>. DEFINE w == At(v, p)
            d == Describe(at, w)
<1>1. Fulfilled(d, p, w, R)
    <2>1. CASE NodeAt(at) = NoNode
        <3>1. d = Nothing
            BY <2>1 DEF Describe
        <3>2. Nothing.required = {} /\ Nothing.props = << >>
            BY DEF Nothing
        <3>3. DOMAIN << >> = {}
            OBVIOUS
        <3>. QED BY <3>1, <3>2, <3>3 DEF Fulfilled
    <2>2. CASE NodeAt(at) # NoNode
        <3>. SUFFICES ASSUME NEW n \in Nodes, n = NodeAt(at), <<n, p>> \in R, NEW k, k = SelectBranch(n, w)
                      PROVE  Fulfilled(d, p, w, R)
            BY <2>2 DEF Sound
        <3>1. k \in Nodes /\ <<k, p>> \in R
            BY BranchJudged
        <3>2. Fulfilled(Resolve[<<k, {}>>], p, w, R)
            BY <3>1, ResolveFulfilled
        <3>3. d = Resolved[k]
            BY <2>2 DEF Describe
        <3>4. Resolved[k] = Resolve[<<k, {}>>]
            BY <3>1 DEF Resolved
        <3>. QED BY <3>2, <3>3, <3>4
    <2>. QED BY <2>1, <2>2
<1>2. ASSUME NEW m \in Members(w) \cap DOMAIN d.props
      PROVE  Matches(w[2][m], Accepted[d.props[m]]) /\ InEnum(w[2][m], Spec[d.props[m]].enum)
    <2>. SUFFICES ASSUME NEW k, k = d.props[m], NEW q, q = Append(p, m), NEW x, x = w[2][m]
                  PROVE  Matches(x, Accepted[k]) /\ InEnum(x, Spec[k].enum)
        OBVIOUS
    <2>1. <<k, q>> \in R
        BY <1>1, <1>2 DEF Fulfilled
    <2>2. k \in Nodes
        BY <2>1 DEF Consistent
    <2>3. At(v, q) = x
        BY AtAppend
    <2>. QED BY <2>1, <2>2, <2>3, ValidMatches, ValidInEnum
<1>3. d.required \subseteq Members(w)
    BY <1>1 DEF Fulfilled
<1>. HIDE DEF d
<1>4. Fitting(d.props, w) = Members(w) \cap DOMAIN d.props
    BY <1>2 DEF Fitting
<1>5. FindingsAt(at, w, p) \subseteq {Finding(Append(p, m), "unknown_member", m) : m \in Members(w) \ DOMAIN d.props}
    <2>1. {Finding(p, "missing_required", m) : m \in (DOMAIN d.props \cap d.required) \ Members(w)} = {}
        BY <1>3
    <2>2. {Finding(Append(p, m), "wrong_type", m) :
              m \in (Members(w) \cap DOMAIN d.props) \ Fitting(d.props, w)} = {}
        BY <1>4
    <2>3. {m \in Fitting(d.props, w) : ~ InEnum(w[2][m], Spec[d.props[m]].enum)} = {}
        BY <1>2, <1>4
    <2>4. {Finding(Append(p, m), "not_in_enum", m) :
              m \in {n \in Fitting(d.props, w) : ~ InEnum(w[2][n], Spec[d.props[n]].enum)}} = {}
        BY <2>3
    <2>. QED BY <2>1, <2>2, <2>4 DEF FindingsAt, d
<1>6. PICK m : f = Finding(Append(p, m), "unknown_member", m)
    BY <1>5
<1>. QED BY <1>6 DEF Certain, Finding

(* The advisory check calls nothing a likely mistake in a document for     *)
(* which some judgements that hold together say it is valid: at any path,  *)
(* to any depth, for any specification of the bundled form (check and      *)
(* _check of validation.py).                                               *)
THEOREM CheckSound ==
    ASSUME NEW at, IsSeq(at), NEW v, NEW R, Consistent(R, v),
           NodeAt(at) = NoNode \/ <<NodeAt(at), << >>>> \in R, ~ StrayType(at, v)
    PROVE  \A f \in Findings(at, v) : ~ Certain(f)
<1>. SUFFICES ASSUME NEW f \in Findings(at, v) PROVE ~ Certain(f)
    OBVIOUS
<1>1. IsObject(v)
    BY DEF Findings
<1>2. PICK p \in Checked(at, v) : f \in FindingsAt(at \o p, At(v, p), p)
    <2>. DEFINE Of(q) == FindingsAt(at \o q, At(v, q), q)
    <2>1. f \in UNION {Of(q) : q \in Checked(at, v)}
        BY <1>1 DEF Findings
    <2>. HIDE DEF Of
    <2>2. PICK q \in Checked(at, v) : f \in Of(q)
        BY <2>1
    <2>. QED BY <2>2 DEF Of
<1>3. Sound(NodeAt(at), << >>, R)
    <2>. SUFFICES ASSUME NEW n, n = NodeAt(at), NEW r, r = << >>, <<n, r>> \in R PROVE n \in Nodes
        BY DEF Sound
    <2>. QED BY DEF Consistent
<1>4. IsSeq(p) /\ IsObject(At(v, p)) /\ Sound(NodeAt(at \o p), p, R)
    BY <1>1, <1>3, CheckedFacts, CheckedJudged
<1>5. NodeAt(at \o p) \in Unions \ ApplicationUnions => KindOf(At(v, p)) \notin DOMAIN AppSchemas
    <2>. SUFFICES ASSUME NodeAt(at \o p) \in Unions \ ApplicationUnions
                  PROVE  KindOf(At(v, p)) \notin DOMAIN AppSchemas
        OBVIOUS
    <2>1. NodeAt(at \o p) # NoNode
        BY SpecAssumption DEF Unions
    <2>2. p \in Positions(v)
        <3>. SUFFICES ASSUME NEW n, <<n, p>> \in R PROVE p \in Positions(v)
            BY <1>4, <2>1 DEF Sound
        <3>. QED BY DEF Consistent
    <2>. QED BY <2>2 DEF StrayType
<1>. QED BY <1>2, <1>4, <1>5, NothingCertainAt

-----------------------------------------------------------------------------
(* The judgements Validity computes.                                       *)

(* More judgements elsewhere refute no judgement.                          *)
LEMMA AllowsMore ==
    ASSUME NEW n, NEW p, NEW w, NEW Q, NEW R, Q \subseteq R, Allows(n, p, w, Q)
    PROVE  Allows(n, p, w, R)
<1>. DEFINE d == Spec[n]
<1>1. CASE d.ref # NoNode
    BY <1>1 DEF Allows
<1>2. CASE d.ref = NoNode
    <2>1. /\ OfType(w, d.type)
          /\ d.enum # {} => TypeOf(w) = "string" /\ FirstWord(w[2]) \in d.enum
          /\ \A i \in DOMAIN d.allOf : <<d.allOf[i], p>> \in Q
          /\ d.anyOf # {} => \E o \in d.anyOf : <<o, p>> \in Q /\ (Discriminated(n) => Names(w, Spec[o].ref))
          /\ d.required \subseteq Members(w) \/ ~ IsObject(w)
          /\ \A m \in Members(w) :
                 IF m \in DOMAIN d.props THEN <<d.props[m], Append(p, m)>> \in Q
                 ELSE d.additional # NoNode => <<d.additional, Append(p, m)>> \in Q
        BY <1>2 DEF Allows
    <2>2. /\ \A i \in DOMAIN d.allOf : <<d.allOf[i], p>> \in R
          /\ d.anyOf # {} => \E o \in d.anyOf : <<o, p>> \in R /\ (Discriminated(n) => Names(w, Spec[o].ref))
          /\ \A m \in Members(w) :
                 IF m \in DOMAIN d.props THEN <<d.props[m], Append(p, m)>> \in R
                 ELSE d.additional # NoNode => <<d.additional, Append(p, m)>> \in R
        BY <2>1
    <2>. QED BY <1>2, <2>1, <2>2 DEF Allows
<1>. QED BY <1>1, <1>2

(* What is left of R when what is refuted goes.                            *)
Left(v, R) == {x \in R : Allows(x[1], x[2], At(v, x[2]), R)}
SettleStep(v, f, R) == IF Left(v, R) = R THEN R ELSE f[Left(v, R)]

(* Fewer are left, unless none is refuted.                                 *)
LEMMA FewerLeft ==
    ASSUME NEW v, NEW R, IsFiniteSet(R)
    PROVE  /\ Left(v, R) \subseteq R /\ IsFiniteSet(Left(v, R)) /\ Cardinality(R) \in Nat
           /\ Left(v, R) # R => Cardinality(Left(v, R)) < Cardinality(R)
<1>1. Left(v, R) \subseteq R
    BY DEF Left
<1>. QED BY <1>1, FS_Subset, FS_CardinalityType

(* For a document that is finite, the judgements computed hold together,   *)
(* and they are all that do: a document is valid by them if it is valid by *)
(* any.                                                                    *)
THEOREM JudgedAll ==
    ASSUME NEW v, IsFiniteSet(Positions(v))
    PROVE  Consistent(Judged(v), v) /\ \A R : Consistent(R, v) => R \subseteq Judged(v)
<1>. DEFINE All == Nodes \X Positions(v)
            D == SUBSET All
            After(f) == [R \in D |-> SettleStep(v, f, R)]
            F == [f \in [D -> D] |-> After(f)]
            rank == [R \in D |-> Cardinality(R)]
            b == [R \in D |-> R]
            M == Cardinality(All)
            Eq(g) == g = [R \in D |-> SettleStep(v, g, R)]
            settled == CHOOSE g : Eq(g)
<1>1. IsFiniteSet(All)
    BY BundledAssumption, FS_Product
<1>2. ASSUME NEW R \in D PROVE IsFiniteSet(R) /\ Cardinality(R) \in 0..M /\ M \in Nat /\ Left(v, R) \in D
    <2>. HIDE DEF All
    <2>1. R \subseteq All /\ IsFiniteSet(R)
        BY <1>1, FS_Subset
    <2>. QED BY <1>1, <2>1, FS_Subset, FS_CardinalityType DEF Left
<1>. HIDE DEF All, M
<1>3. ASSUME NEW f \in [D -> D] PROVE After(f) \in [D -> D] /\ F[f] = After(f)
    <2>1. \A R \in D : SettleStep(v, f, R) \in D
        BY <1>2 DEF SettleStep
    <2>. HIDE DEF D
    <2>. QED BY <2>1
<1>4. StepOfRecursion(F, [D -> D], D, rank, M)
    <2>1. M \in Nat
        BY <1>2
    <2>2. rank \in [D -> 0..M]
        BY <1>2
    <2>. HIDE DEF D
    <2>3. F \in [[D -> D] -> [D -> D]]
        <3>. HIDE DEF After
        <3>. QED BY <1>3
    <2>4. \A f \in [D -> D] : f = [R \in D |-> f[R]]
        OBVIOUS
    <2>5. ASSUME NEW f \in [D -> D], NEW g \in [D -> D], NEW R \in D,
                 \A Q \in D : rank[Q] < rank[R] => f[Q] = g[Q]
          PROVE  F[f][R] = F[g][R]
        <3>1. SettleStep(v, f, R) = SettleStep(v, g, R)
            <4>1. Left(v, R) \in D /\ (Left(v, R) # R => Cardinality(Left(v, R)) < Cardinality(R))
                BY <1>2, FewerLeft
            <4>. QED BY <2>5, <4>1 DEF SettleStep
        <3>2. F[f] = After(f) /\ F[g] = After(g)
            <4>. HIDE DEF F, After
            <4>. QED BY <1>3
        <3>3. F[f][R] = SettleStep(v, f, R) /\ F[g][R] = SettleStep(v, g, R)
            <4>. HIDE DEF F
            <4>. QED BY <3>2
        <3>. QED BY <3>1, <3>3
    <2>. HIDE DEF F, rank
    <2>. QED BY <2>1, <2>2, <2>3, <2>4, <2>5 DEF StepOfRecursion
<1>5. PICK f \in [D -> D] : F[f] = f
    <2>1. b \in [D -> D]
        <3>. HIDE DEF D
        <3>. QED OBVIOUS
    <2>. HIDE DEF D, F, rank, b
    <2>. QED BY <1>4, <2>1, Recursion
<1>6. Eq(settled)
    <2>1. Eq(f)
        BY <1>3, <1>5
    <2>. HIDE DEF Eq
    <2>. QED BY <2>1
<1>. HIDE DEF settled
<1>7. \A R \in D : settled[R] = SettleStep(v, settled, R)
    <2>. HIDE DEF D
    <2>. QED BY <1>6
<1>8. Judged(v) = settled[All]
    BY DEF Judged, settled, SettleStep, Left, All
<1>. HIDE DEF Eq, F, After
<1>. DEFINE Good(R) ==
                /\ Consistent(settled[R], v)
                /\ \A Q \in SUBSET R : Consistent(Q, v) => Q \subseteq settled[R]
            S == {n \in Nat : \A R \in D : Cardinality(R) < n => Good(R)}
<1>9. 0 \in S
    <2>1. \A R \in D : ~ (Cardinality(R) < 0)
        BY <1>2
    <2>. HIDE DEF Good, D
    <2>. QED BY <2>1
<1>10. ASSUME NEW n \in Nat, n \in S PROVE n + 1 \in S
    <2>. SUFFICES ASSUME NEW R \in D, Cardinality(R) < n + 1 PROVE Good(R)
        <3>. HIDE DEF Good, D
        <3>. QED OBVIOUS
    <2>1. CASE Left(v, R) = R
        <3>1. settled[R] = R
            BY <1>7, <2>1 DEF SettleStep
        <3>2. Consistent(R, v)
            BY <2>1 DEF Consistent, Left, All
        <3>. QED BY <3>1, <3>2
    <2>2. CASE Left(v, R) # R
        <3>1. Left(v, R) \in D /\ Cardinality(Left(v, R)) < n
            <4>1. Cardinality(Left(v, R)) < Cardinality(R) /\ Left(v, R) \in D
                BY <1>2, <2>2, FewerLeft
            <4>2. Cardinality(Left(v, R)) \in 0..M /\ Cardinality(R) \in 0..M /\ M \in Nat
                BY <1>2, <4>1
            <4>. QED BY <4>1, <4>2
        <3>2. Good(Left(v, R))
            <4>. HIDE DEF Good, D
            <4>. QED BY <1>10, <3>1
        <3>3. settled[R] = settled[Left(v, R)]
            BY <1>7, <2>2 DEF SettleStep
        <3>4. ASSUME NEW Q \in SUBSET R, Consistent(Q, v) PROVE Q \in SUBSET Left(v, R)
            <4>. SUFFICES ASSUME NEW x \in Q PROVE Allows(x[1], x[2], At(v, x[2]), R)
                BY DEF Left
            <4>1. Allows(x[1], x[2], At(v, x[2]), Q)
                BY <3>4 DEF Consistent
            <4>. QED BY <4>1, AllowsMore
        <3>. QED BY <3>2, <3>3, <3>4
    <2>. QED BY <2>1, <2>2
<1>11. Nat \subseteq S
    <2>. HIDE DEF S
    <2>. QED BY <1>9, <1>10, NatSet
<1>12. Good(All)
    <2>1. All \in D
        OBVIOUS
    <2>2. Cardinality(All) \in Nat
        BY <1>2, <2>1
    <2>3. Cardinality(All) + 1 \in S /\ Cardinality(All) < Cardinality(All) + 1
        <3>. HIDE DEF S
        <3>. QED BY <1>11, <2>2
    <2>. HIDE DEF Good, D
    <2>. QED BY <2>1, <2>3
<1>13. \A R : Consistent(R, v) => R \in SUBSET All
    BY DEF Consistent, All
<1>. QED BY <1>8, <1>12, <1>13
=============================================================================
