-------------------------------- MODULE Diff --------------------------------
(***************************************************************************)
(* The comparison of two documents (diff.py) that the snapshots page shows *)
(* for a change.  A change is reported at a position, with its kind.       *)
(***************************************************************************)
EXTENDS Documents

CONSTANT DiffDepth      \* _MAX_DEPTH of diff.py

ASSUME DepthAssumption == DiffDepth \in Nat

(* The positions at which two documents differ, as the digest of _commit   *)
(* and any reader of JSON tell them apart: one of them has the position    *)
(* and the other does not, or they hold values there that are not the same *)
(* (two objects differ at their members only).                             *)
Different(b, a) ==
    {p \in Positions(b) \cup Positions(a) :
        p \in Positions(b) \cap Positions(a) =>
            At(b, p) # At(a, p) /\ ~ (IsObject(At(b, p)) /\ IsObject(At(a, p)))}

(* Those at which they hold the same number, to Python, in another type.   *)
SameNumber(v, w) == v # w /\ IsNumeric(v) /\ IsNumeric(w) /\ Halves(v) = Halves(w)
Blurred(b, a) == {p \in Positions(b) \cap Positions(a) : SameNumber(At(b, p), At(a, p))}

Descends(b, a, p) ==
    /\ Len(p) < DiffDepth
    /\ IsObject(At(b, p)) /\ IsObject(At(a, p))
    /\ ~ PyEqual(At(b, p), At(a, p))

(* The positions _walk is called for: the root, and each member both sides *)
(* have of a pair of objects it descends into.                             *)
Walked(b, a) ==
    Below(DiffDepth, LAMBDA p :
        IF Descends(b, a, p) THEN Members(At(b, p)) \cap Members(At(a, p)) ELSE {})

CompareShared(b, a) ==    \* (mutant) members only the later document has are not listed
    LET walked == Walked(b, a)
        deep == {p \in walked : Descends(b, a, p)}
    IN  {<<p, "changed">> : p \in {q \in walked \ deep : ~ PyEqual(At(b, q), At(a, q))}}
        \cup UNION {{<<Append(p, m), "removed">> : m \in Members(At(b, p)) \ Members(At(a, p))}
                    : p \in deep}

Compare(b, a) ==
    LET walked == Walked(b, a)
        deep == {p \in walked : Descends(b, a, p)}
    IN  {<<p, "changed">> : p \in {q \in walked \ deep : ~ PyEqual(At(b, q), At(a, q))}}
        \cup UNION {{<<Append(p, m), "removed">> : m \in Members(At(b, p)) \ Members(At(a, p))}
                    \cup {<<Append(p, m), "added">> : m \in Members(At(a, p)) \ Members(At(b, p))}
                    : p \in deep}
=============================================================================
