------------------------- MODULE ConfigWritesRefines -------------------------
(***************************************************************************)
(* Where nothing writes past the lock, the write path implements the       *)
(* compare-and-swap store of ConfigCas, for any operators, leaves, values, *)
(* paths, retention and number of posts.                                   *)
(***************************************************************************)
EXTENDS ConfigWritesProofs

NothingPastTheLock == MaxForeign = 0 /\ MaxLate = 0

(* No other client has written and no PUT has been given up.               *)
Calm == late = {} /\ lost = 0 /\ foreign = 0 /\ disturbed = FALSE

(* The mapping, as state functions.                                        *)
Archived == {snaps[n] : n \in DOMAIN snaps}
Seen == [o \in Operators |-> IF page[o] # None /\ ~wrote[o] THEN page[o].baseline ELSE None]
Picked == [o \in Operators |->
              IF req[o] # None /\ ~wrote[o] /\ req[o].kind = "restore"
              THEN req[o].doc ELSE None]

LEMMA CalmStep ==
    ASSUME NothingPastTheLock, IInv, Calm, [Next]_vars
    PROVE  Calm'
<1>. USE DEF NothingPastTheLock, Calm
<1>1. ASSUME NEW o \in Operators, Window(o) \/ LockFails(o) \/ Crash(o) PROVE Calm'
    BY <1>1 DEF Window, Open, Cancel, Reject, Unparsable, Review, Apply, Restore, RestoreMissing,
       Dismiss, LockFails, Crash, Release, world
<1>2. ASSUME NEW o \in Operators, Thread(o) PROVE Calm'
    <2>1. ~PutAbandoned(o)
        BY DEF PutAbandoned
    <2>2. UNCHANGED world /\ (disturbed' = disturbed \/ disturbed' = FALSE)
        BY <1>2, <2>1 DEF Thread, Acquire, BaselineHolds, Conflict, Backup, Save, SaveFails,
           PutApplied, ApiError, Acked, Verify, Unreachable, Release
    <2>. QED BY <2>2 DEF world
<1>3. CASE ForeignWrite \/ LatePut \/ UNCHANGED vars
    BY <1>3 DEF ForeignWrite, LatePut, vars
<1>. QED BY <1>1, <1>2, <1>3 DEF Next

(* A step that changes neither the configuration, the store, a page's      *)
(* baseline, a restore's document nor what was executed is a stutter.      *)
LEMMA Stutter ==
    ASSUME cfg' = cfg, snaps' = snaps, page' = page, req' = req, wrote' = wrote
    PROVE  UNCHANGED <<cfg, Archived, Seen, Picked>>
BY DEF Archived, Seen, Picked

(* A save, whether it returns or is cut short, leaves what was archived    *)
(* and what the request copied, or less.                                   *)
LEMMA SavedStore ==
    ASSUME NEW o \in Operators,
           HalfSaved(o) \/ snaps' = Prune(Add(saved + 1, copy[o]))
    PROVE  Archived' \subseteq Archived \cup {copy[o]}
<1>. DEFINE all == Add(saved + 1, copy[o])
<1>1. \A n \in DOMAIN all : all[n] \in Archived \cup {copy[o]}
    BY DEF Add, Archived
<1>2. CASE snaps' = snaps
    BY <1>2 DEF Archived
<1>3. CASE \E names : snaps' = [n \in DOMAIN all \cap names |-> all[n]]
    <2>. HIDE DEF all
    <2>. QED BY <1>1, <1>3 DEF Archived
<1>4. CASE snaps' = Prune(all)
    <2>1. Kept(all) \subseteq DOMAIN all
        BY DEF Kept
    <2>. HIDE DEF all
    <2>. QED BY <1>1, <1>4, <2>1 DEF Prune, Archived
<1>5. ASSUME NEW gone, snaps' = [n \in DOMAIN all \ gone |-> all[n]]
      PROVE  \E names : snaps' = [n \in DOMAIN all \cap names |-> all[n]]
    <2>. HIDE DEF all
    <2>1. DOMAIN all \ gone = DOMAIN all \cap (DOMAIN all \ gone)
        OBVIOUS
    <2>. QED BY <1>5, <2>1
<1>. QED BY <1>2, <1>3, <1>4, <1>5 DEF HalfSaved, store

LEMMA InitMaps == Init => Cas!Init
<1>. SUFFICES ASSUME Init PROVE Cas!Init
    OBVIOUS
<1>. QED BY DEF Init, Cas!Init

LEMMA StepMaps ==
    ASSUME NothingPastTheLock, IInv, Calm, [Next]_vars
    PROVE  [Cas!Next]_(Cas!vars)
<1>. USE DEF IInv
<1>. DEFINE mapped == <<cfg, Archived, Seen, Picked>>
<1>0. ASSUME UNCHANGED mapped PROVE UNCHANGED Cas!vars
    BY <1>0 DEF Cas!vars, Archived, Seen, Picked
<1>1. ASSUME NEW o \in Operators, Reject(o) \/ RestoreMissing(o) \/ LockFails(o)
      PROVE  UNCHANGED mapped
    BY <1>1, Stutter DEF Reject, RestoreMissing, LockFails, store
<1>2. ASSUME NEW o \in Operators,
             \/ Acquire(o) \/ BaselineHolds(o) \/ Conflict(o) \/ Backup(o) \/ ApiError(o)
             \/ PutAbandoned(o) \/ Acked(o) \/ Verify(o) \/ Unreachable(o)
      PROVE  UNCHANGED mapped
    BY <1>2, Stutter DEF Acquire, BaselineHolds, Conflict, Backup, ApiError, PutAbandoned,
       Acked, Verify, Unreachable, store
<1>3. ASSUME NEW o \in Operators, Open(o) PROVE Cas!Look(o)
    <2>1. PICK t \in Targets, m \in {"json", "guided"} :
            page' = [page EXCEPT ![o] = [mode |-> m, baseline |-> Read(t), findings |-> {}]]
        BY <1>3 DEF Open
    <2>2. page[o] = None /\ ~wrote[o] /\ Read(t) \in AnyDoc
        BY <1>3, ReadType DEF Open, Goto, RequestsOK, RequestOK, TypeOK
    <2>3. page'[o] # None /\ page'[o].baseline = Read(t)
        BY <2>1, <2>2, NoneAssumption DEF TypeOK, Pages, AnyDoc
    <2>4. Seen[o] = None /\ Seen' = [Seen EXCEPT ![o] = Read(t)]
        BY <1>3, <2>1, <2>2, <2>3 DEF Open, Seen, TypeOK
    <2>5. UNCHANGED <<cfg, Archived, Picked>>
        BY <1>3 DEF Open, Archived, Picked, store
    <2>. QED BY <2>4, <2>5 DEF Cas!Look, Cas!View, Read, Seen, Archived, Picked
<1>4. ASSUME NEW o \in Operators, Cancel(o) PROVE Cas!Forget(o)
    <2>1. Seen' = [Seen EXCEPT ![o] = None]
        BY <1>4 DEF Cancel, Seen, TypeOK
    <2>2. UNCHANGED <<cfg, Archived, Picked>>
        BY <1>4 DEF Cancel, Archived, Picked, store
    <2>. QED BY <2>1, <2>2 DEF Cas!Forget, Seen, Archived, Picked
<1>5. ASSUME NEW o \in Operators, Unparsable(o) \/ Review(o) PROVE UNCHANGED mapped
    <2>1. page[o] \in Pages /\ page'[o] # None /\ page'[o].baseline = page[o].baseline
        <3>1. page[o] \in Pages
            BY <1>5 DEF Unparsable, Review, RequestsOK, RequestOK, TypeOK
        <3>2. page'[o] # None
            BY <1>5, RequestStep, TypeStep DEF Unparsable, Review, RequestsOK, RequestOK, Next,
               Window
        <3>. QED BY <1>5, <3>1, <3>2 DEF Unparsable, Review, Pages, TypeOK
    <2>2. Seen' = Seen
        BY <1>5, <2>1, NoneAssumption DEF Unparsable, Review, Seen, TypeOK
    <2>. QED BY <1>5, <2>2 DEF Unparsable, Review, Archived, Picked, store
<1>6. ASSUME NEW o \in Operators, Apply(o) PROVE UNCHANGED mapped
    <2>1. req[o] = None /\ (req'[o] # None => req'[o].kind = "edit")
        BY <1>6 DEF Apply, Goto, RequestsOK, RequestOK, TypeOK
    <2>2. \A p \in Operators : p # o => req'[p] = req[p]
        BY <1>6 DEF Apply, TypeOK
    <2>3. Picked' = Picked
        BY <1>6, <2>1, <2>2 DEF Apply, Picked
    <2>. QED BY <1>6, <2>3 DEF Apply, Archived, Seen, store
<1>7. ASSUME NEW o \in Operators, Restore(o) PROVE Cas!Pick(o)
    <2>1. PICK n \in DOMAIN snaps :
            req' = [req EXCEPT ![o] = [kind |-> "restore", doc |-> snaps[n]]]
        BY <1>7 DEF Restore
    <2>2. req[o] = None /\ ~wrote[o] /\ snaps[n] \in AnyDoc
        BY <1>7, ConfigIsDoc DEF Restore, Goto, RequestsOK, RequestOK, TypeOK
    <2>3. req'[o] # None /\ req'[o].kind = "restore" /\ req'[o].doc = snaps[n]
        BY <2>1, <2>2, NoneAssumption DEF TypeOK, Requests, AnyDoc
    <2>4. Picked[o] = None /\ Picked' = [Picked EXCEPT ![o] = snaps[n]]
        BY <1>7, <2>1, <2>2, <2>3 DEF Restore, Picked, TypeOK
    <2>5. UNCHANGED <<cfg, Archived, Seen>> /\ snaps[n] \in Archived
        BY <1>7 DEF Restore, Archived, Seen, store
    <2>. QED BY <2>4, <2>5 DEF Cas!Pick, Seen, Archived, Picked
<1>8. ASSUME NEW o \in Operators, Dismiss(o) PROVE Cas!Forget(o)
    <2>1. page'[o] = None /\ req'[o] = None
        BY <1>8 DEF Dismiss, TypeOK
    <2>2. Seen' = [Seen EXCEPT ![o] = None] /\ Picked' = [Picked EXCEPT ![o] = None]
        BY <1>8, <2>1 DEF Dismiss, Seen, Picked, TypeOK
    <2>3. Seen[o] = None \/ Picked[o] = None
        BY DEF Seen, Picked, RequestsOK, RequestOK
    <2>4. Seen' = Seen \/ Picked' = Picked
        BY <2>2, <2>3 DEF Seen, Picked
    <2>5. UNCHANGED <<cfg, Archived>>
        BY <1>8 DEF Dismiss, Archived, store
    <2>. QED BY <2>2, <2>4, <2>5 DEF Cas!Forget, Seen, Archived, Picked
<1>9. ASSUME NEW o \in Operators, Save(o) \/ SaveFails(o) \/ (Crash(o) /\ pc[o] = "saving")
      PROVE  Cas!Archive
    <2>1. copy[o] = cfg
        BY <1>9 DEF Save, SaveFails, Goto, RequestsOK, RequestOK, Calm
    <2>2. Archived' \subseteq Archived \cup {cfg}
        BY <1>9, <2>1, SavedStore DEF Save, SaveFails, Crash
    <2>3. UNCHANGED <<cfg, Seen, Picked>>
        BY <1>9 DEF Save, SaveFails, Crash, Seen, Picked
    <2>. QED BY <2>2, <2>3 DEF Cas!Archive, Seen, Archived, Picked
<1>10. ASSUME NEW o \in Operators, PutApplied(o) PROVE Cas!Swap(o) \/ Cas!Revert(o)
    <2>1. /\ req[o] \in Requests /\ req[o] # None /\ pc[o] = "putting" /\ ~wrote[o]
          /\ cfg \in Configs /\ req[o].doc \in AnyDoc
        BY <1>10 DEF PutApplied, Goto, RequestsOK, RequestOK, TypeOK, Working, Holding, Requests,
           AnyDoc
    <2>2. cfg \in Archived
        BY <2>1 DEF RequestsOK, RequestOK, Calm, Archived
    <2>3. UNCHANGED Archived
        BY <1>10 DEF PutApplied, Archived, store
    <2>4. Seen' = [Seen EXCEPT ![o] = None] /\ Picked' = [Picked EXCEPT ![o] = None]
        BY <1>10 DEF PutApplied, Seen, Picked, TypeOK
    <2>5. CASE req[o].kind = "edit"
        <3>1. /\ page[o] # None /\ DOMAIN req[o].doc = DOMAIN page[o].baseline
              /\ Read(DOMAIN req[o].doc) = page[o].baseline
            BY <2>1, <2>5 DEF RequestsOK, RequestOK, Working, Holding, Calm
        <3>2. page[o].baseline \in AnyDoc
            BY <3>1 DEF TypeOK, Pages, AnyDoc
        <3>3. Seen[o] = page[o].baseline /\ Seen[o] # None /\ Picked[o] = None
            BY <2>1, <2>5, <3>1, <3>2, SortsAssumption DEF Seen, Picked, AnyDoc
        <3>4. req[o].doc \in Cas!Docs(DOMAIN Seen[o])
            BY <2>1, <3>1, <3>3, DocDomain DEF Cas!Docs, Docs, Held
        <3>5. cfg' = [l \in Leaves |-> IF l \in DOMAIN req[o].doc THEN req[o].doc[l] ELSE cfg[l]]
            BY <1>10 DEF PutApplied, Put
        <3>6. Cas!View(DOMAIN Seen[o]) = Seen[o]
            BY <3>1, <3>3 DEF Cas!View, Read
        <3>7. UNCHANGED Picked
            BY <2>4, <3>3 DEF Picked
        <3>8. Cas!Swap(o)
            BY <2>2, <2>3, <2>4, <3>3, <3>4, <3>5, <3>6, <3>7 DEF Cas!Swap, Seen, Archived, Picked
        <3>. QED BY <3>8
    <2>6. CASE req[o].kind = "restore"
        <3>1. page[o] = None /\ DOMAIN req[o].doc = Leaves
            BY <2>1, <2>6 DEF RequestsOK, RequestOK, Working, Holding
        <3>2. Picked[o] = req[o].doc /\ Picked[o] # None /\ Seen[o] = None
            BY <2>1, <2>6, <3>1, SortsAssumption DEF Seen, Picked, AnyDoc
        <3>3. cfg' = req[o].doc
            BY <1>10, <2>1, <3>1, DocDomain DEF PutApplied, Put, Docs
        <3>4. UNCHANGED Seen
            BY <2>4, <3>2 DEF Seen
        <3>5. Cas!Revert(o)
            BY <2>2, <2>3, <2>4, <3>2, <3>3, <3>4 DEF Cas!Revert, Seen, Archived, Picked
        <3>. QED BY <3>5
    <2>. QED BY <2>1, <2>5, <2>6 DEF Requests
<1>11. CASE ForeignWrite \/ LatePut
    BY <1>11 DEF ForeignWrite, LatePut, Calm, NothingPastTheLock
<1>12. CASE UNCHANGED vars
    BY <1>0, <1>12, Stutter DEF vars
<1>13. ASSUME NEW o \in Operators, Crash(o), pc[o] # "saving" PROVE UNCHANGED mapped
    BY <1>13, Stutter DEF Crash, store
<1>14. ASSUME NEW o \in Operators, Window(o) \/ LockFails(o) \/ Thread(o) \/ Crash(o)
       PROVE  Cas!Next \/ UNCHANGED Cas!vars
    BY <1>0, <1>1, <1>2, <1>3, <1>4, <1>5, <1>6, <1>7, <1>8, <1>9, <1>10, <1>13, <1>14
    DEF Window, Thread, Cas!Next
<1>. QED BY <1>11, <1>12, <1>14 DEF Next

(* Every behaviour of the write path, with no writer past the lock, is a   *)
(* behaviour of the compare-and-swap store: a change takes effect at most  *)
(* once, only over what its operator looked at, and only with what it      *)
(* replaces archived.                                                      *)
THEOREM WritesImplementCas ==
    ASSUME NothingPastTheLock
    PROVE  Spec => ImplementsCas
<1>1. Init => Calm
    BY DEF Init, Calm
<1>2. IInv /\ Calm /\ [Next]_vars => Calm'
    BY CalmStep
<1>3. IInv /\ Calm /\ [Next]_vars => [Cas!Next]_(Cas!vars)
    BY StepMaps
<1>. QED BY Invariance, InitMaps, <1>1, <1>2, <1>3, PTL DEF Spec, ImplementsCas, Cas!Spec

=============================================================================
