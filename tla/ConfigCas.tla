------------------------------ MODULE ConfigCas ------------------------------
(***************************************************************************)
(* What the write path promises to its operators, with no lock, request or *)
(* snapshot file in it.  unitd's control API has no compare-and-swap       *)
(* (SnapshotStore.lock's docstring); the interface gives its operators one: *)
(*                                                                         *)
(*   - an operator looks at a subtree, and one replacement of it takes     *)
(*     effect only while the subtree still is what they saw;               *)
(*   - an operator picks an archived configuration and brings it back      *)
(*     whole, whatever the configuration is by then;                       *)
(*   - neither takes effect unless the archive holds the configuration     *)
(*     that is about to go, and the archive holds only configurations that *)
(*     were in force.                                                      *)
(***************************************************************************)
CONSTANTS Operators, Leaves, Values, Absent, None, Targets, Start

VARIABLES
    config,    \* the configuration in force
    archive,   \* the configurations that can be brought back
    seen,      \* the subtree each operator has looked at, or None
    picked     \* the configuration each operator is bringing back, or None

vars == <<config, archive, seen, picked>>

Docs(t) == [t -> Values \cup {Absent}]
View(t) == [l \in t |-> config[l]]

Init ==
    /\ config \in Start
    /\ archive = {}
    /\ seen = [o \in Operators |-> None]
    /\ picked = [o \in Operators |-> None]

Look(o) ==
    /\ seen[o] = None
    /\ \E t \in Targets : seen' = [seen EXCEPT ![o] = View(t)]
    /\ UNCHANGED <<config, archive, picked>>

Pick(o) ==
    /\ picked[o] = None
    /\ \E d \in archive : picked' = [picked EXCEPT ![o] = d]
    /\ UNCHANGED <<config, archive, seen>>

Forget(o) ==
    /\ \/ seen' = [seen EXCEPT ![o] = None] /\ UNCHANGED picked
       \/ picked' = [picked EXCEPT ![o] = None] /\ UNCHANGED seen
    /\ UNCHANGED <<config, archive>>

(* The configuration in force is archived, and older ones may be dropped.  *)
Archive ==
    /\ archive' \in SUBSET (archive \cup {config})
    /\ UNCHANGED <<config, seen, picked>>

Swap(o) ==
    /\ seen[o] # None /\ View(DOMAIN seen[o]) = seen[o]
    /\ config \in archive
    /\ \E d \in Docs(DOMAIN seen[o]) :
        config' = [l \in Leaves |-> IF l \in DOMAIN d THEN d[l] ELSE config[l]]
    /\ seen' = [seen EXCEPT ![o] = None]
    /\ UNCHANGED <<archive, picked>>

Revert(o) ==
    /\ picked[o] # None
    /\ config \in archive
    /\ config' = picked[o]
    /\ picked' = [picked EXCEPT ![o] = None]
    /\ UNCHANGED <<archive, seen>>

Next ==
    \/ Archive
    \/ \E o \in Operators : Look(o) \/ Pick(o) \/ Forget(o) \/ Swap(o) \/ Revert(o)

Spec == Init /\ [][Next]_vars

=============================================================================
