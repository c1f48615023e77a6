--------------------------- MODULE SnapshotArchive ---------------------------
(***************************************************************************)
(* What the snapshot store promises to the requests that read from it,     *)
(* with no file, clock, lock or pruning loop in it.                        *)
(*                                                                         *)
(*   - A name stands for one configuration for ever, and later names are   *)
(*     greater: undo and restore may refer to a snapshot by its name.      *)
(*   - The configuration is there whole, or not at all, and it comes once. *)
(*   - Of the Keep latest names none is dropped.                           *)
(***************************************************************************)
EXTENDS Naturals, FiniteSets

CONSTANTS Readers, Documents, Missing, Keep, MaxTime

Names == 1..MaxTime

VARIABLES
    stands,    \* the configuration each name stands for, Missing if not given out
    whole,     \* the names whose configuration is there
    reader     \* where each reader is, the name it found and what it loaded

vars == <<stands, whole, reader>>

Given == {n \in Names : stands[n] # Missing}
Later(n) == {m \in Given : m > n}
Idle == [at |-> "idle", name |-> 0, got |-> Missing]

Init ==
    /\ stands = [n \in Names |-> Missing] /\ whole = {}
    /\ reader = [r \in Readers |-> Idle]

(* A save takes a name later than all others.                              *)
Name(n, d) ==
    /\ \A m \in Given : m < n
    /\ stands' = [stands EXCEPT ![n] = d]
    /\ UNCHANGED <<whole, reader>>

(* Its configuration is written, unless a later name has been taken.       *)
Complete(n) ==
    /\ n \in Given \ whole /\ Later(n) = {}
    /\ whole' = whole \cup {n}
    /\ UNCHANGED <<stands, reader>>

Drop(n) ==
    /\ n \in whole /\ Cardinality(Later(n)) >= Keep
    /\ whole' = whole \ {n}
    /\ UNCHANGED <<stands, reader>>

Find(r, n) ==
    /\ reader[r].at = "idle" /\ n \in Given
    /\ reader' = [reader EXCEPT ![r] = [at |-> "found", name |-> n, got |-> Missing]]
    /\ UNCHANGED <<stands, whole>>

Load(r) ==
    LET n == reader[r].name IN
    /\ reader[r].at = "found"
    /\ reader' = [reader EXCEPT ![r] =
                    IF n \in whole THEN [at |-> "loaded", name |-> n, got |-> stands[n]]
                    ELSE [at |-> "failed", name |-> n, got |-> Missing]]
    /\ UNCHANGED <<stands, whole>>

Done(r) ==
    /\ reader[r].at \in {"loaded", "failed"}
    /\ reader' = [reader EXCEPT ![r] = Idle]
    /\ UNCHANGED <<stands, whole>>

Next ==
    \/ \E n \in Names : (\E d \in Documents : Name(n, d)) \/ Complete(n) \/ Drop(n)
    \/ \E r \in Readers : (\E n \in Names : Find(r, n)) \/ Load(r) \/ Done(r)

Spec == Init /\ [][Next]_vars
=============================================================================
