------------------------- MODULE ConfigWritesProofs -------------------------
(***************************************************************************)
(* Theorems about ConfigWrites, for any set of operators, any leaves and   *)
(* values, any retention and any bounds.  IInv is the inductive invariant: *)
(* the types, who holds the lock, and what each step of a request may rely *)
(* on (RequestOK), which is what the action properties follow from.        *)
(***************************************************************************)
EXTENDS ConfigWrites, FiniteSetTheorems, TLAPS

AnyDoc == UNION {Docs(t) : t \in Targets}

IInv == TypeOK /\ LockHeld /\ RequestsOK /\ TruthfulAnswer

-----------------------------------------------------------------------------
(* What reading, replacing, merging and retention return.                  *)

(* A read at a path returns a document of that path.                       *)
LEMMA ReadType ==
    ASSUME cfg \in Configs, NEW t \in Targets
    PROVE  Read(t) \in Docs(t) /\ Read(t) \in AnyDoc
BY SortsAssumption DEF Read, Configs, Docs, AnyDoc

(* Replacing any path leaves a configuration, and replacing the whole of   *)
(* it leaves the document.                                                 *)
LEMMA PutType ==
    ASSUME cfg \in Configs, NEW d \in AnyDoc
    PROVE  Put(d) \in Configs
<1>1. PICK t \in Targets : d \in Docs(t)
    BY DEF AnyDoc
<1>2. \A l \in Leaves : (IF l \in DOMAIN d THEN d[l] ELSE cfg[l]) \in Held
    BY <1>1 DEF Docs, Configs
<1>. QED BY <1>2 DEF Put, Configs, Docs

(* A document below a path has that path as its domain.                    *)
LEMMA DocDomain ==
    ASSUME NEW d \in AnyDoc
    PROVE  DOMAIN d \in Targets /\ d \in Docs(DOMAIN d)
<1>1. PICK t \in Targets : d \in Docs(t)
    BY DEF AnyDoc
<1>. QED BY <1>1 DEF Docs

(* A configuration is a document: the one at the root.                     *)
LEMMA ConfigIsDoc == Configs \subseteq AnyDoc /\ None \notin Configs
BY SortsAssumption DEF Configs, AnyDoc

(* Either editor submits documents of the path its page was opened at.     *)
LEMMA SubmissionType ==
    ASSUME TypeOK, NEW o \in Operators, page[o] # None, NEW d \in Submissions(o)
    PROVE  d \in Docs(DOMAIN page[o].baseline) /\ d \in AnyDoc
<1>. DEFINE t == DOMAIN page[o].baseline
<1>1. page[o].baseline \in AnyDoc
    BY DEF TypeOK, Pages, AnyDoc
<1>2. t \in Targets
    BY <1>1, DocDomain
<1>3. d \in Docs(t)
    <2>1. CASE page[o].mode = "json"
        BY <2>1 DEF Submissions
    <2>2. CASE page[o].mode # "json"
        <3>1. PICK s \in Docs(t \cap Fields) : d = Merge(Read(t), s)
            BY <2>2 DEF Submissions
        <3>2. Read(t) \in Docs(t)
            BY <1>2, ReadType DEF TypeOK
        <3>. QED BY <3>1, <3>2 DEF Merge, Docs
    <2>. QED BY <2>1, <2>2
<1>. QED BY <1>2, <1>3 DEF AnyDoc

(* Retention keeps configurations only, under names already given.         *)
LEMMA StoreType ==
    ASSUME TypeOK, NEW d \in Configs
    PROVE  LET a == Add(saved + 1, d) IN
           /\ DOMAIN a = DOMAIN snaps \cup {saved + 1}
           /\ DOMAIN a \subseteq 1..(saved + 1)
           /\ \A n \in DOMAIN a : a[n] \in Configs
           /\ DOMAIN Prune(a) \subseteq DOMAIN a
           /\ \A n \in DOMAIN Prune(a) : Prune(a)[n] = a[n]
BY DEF TypeOK, Add, Prune, Kept

(* So does a save that was cut short.                                      *)
LEMMA HalfSavedType ==
    ASSUME TypeOK, NEW o \in Operators, copy[o] \in Configs, HalfSaved(o)
    PROVE  /\ DOMAIN snaps' \subseteq 1..saved' /\ saved' \in Nat
           /\ \A n \in DOMAIN snaps' : snaps'[n] \in Configs
<1>. DEFINE all == Add(saved + 1, copy[o])
<1>1. CASE UNCHANGED store
    BY <1>1 DEF store, TypeOK
<1>2. CASE saved' = saved + 1 /\ \E gone : snaps' = [n \in DOMAIN all \ gone |-> all[n]]
    <2>1. PICK gone : snaps' = [n \in DOMAIN all \ gone |-> all[n]]
        BY <1>2
    <2>2. DOMAIN all \subseteq 1..(saved + 1) /\ \A n \in DOMAIN all : all[n] \in Configs
        BY StoreType
    <2>. HIDE DEF all
    <2>3. DOMAIN snaps' \subseteq DOMAIN all /\ \A n \in DOMAIN snaps' : snaps'[n] = all[n]
        BY <2>1
    <2>. QED BY <1>2, <2>2, <2>3 DEF TypeOK
<1>. QED BY <1>1, <1>2 DEF HalfSaved

(* The snapshot just saved is never the one pruned: no name is newer, and  *)
(* at least one is kept.                                                   *)
LEMMA NewestKept ==
    ASSUME TypeOK, NEW d \in Configs
    PROVE  LET s == Prune(Add(saved + 1, d)) IN
           saved + 1 \in DOMAIN s /\ s[saved + 1] = d
<1>. DEFINE a == Add(saved + 1, d)
<1>1. saved + 1 \in DOMAIN a /\ DOMAIN a \subseteq 1..(saved + 1) /\ a[saved + 1] = d
    BY StoreType DEF Add
<1>2. saved \in Nat
    BY DEF TypeOK
<1>3. {m \in DOMAIN a : m > saved + 1} = {}
    BY <1>1, <1>2
<1>4. Cardinality({m \in DOMAIN a : m > saved + 1}) < Keep
    BY <1>3, FS_EmptySet, BoundsAssumption
<1>5. saved + 1 \in Kept(a)
    BY <1>1, <1>4 DEF Kept
<1>. QED BY <1>1, <1>5 DEF Prune

-----------------------------------------------------------------------------
(* The inductive invariant: the types.                                     *)

LEMMA TypeStep ==
    ASSUME IInv, [Next]_vars
    PROVE  TypeOK'
<1>. USE DEF IInv
<1>1. ASSUME NEW o \in Operators, Open(o) PROVE TypeOK'
    <2>1. PICK t \in Targets, m \in {"json", "guided"} :
            page' = [page EXCEPT ![o] = [mode |-> m, baseline |-> Read(t), findings |-> {}]]
        BY <1>1 DEF Open
    <2>2. Read(t) \in AnyDoc
        BY ReadType DEF TypeOK
    <2>3. [mode |-> m, baseline |-> Read(t), findings |-> {}] \in Pages
        BY <2>2 DEF Pages, AnyDoc
    <2>4. page' \in [Operators -> Pages \cup {None}]
        BY <2>1, <2>3 DEF TypeOK
    <2>. QED BY <1>1, <2>4 DEF Open, TypeOK, Goto, Steps, store, world
<1>2. ASSUME NEW o \in Operators, Cancel(o) PROVE TypeOK'
    BY <1>2 DEF Cancel, TypeOK, Goto, Answer, Release, store, world, Steps, Verdicts,
       Refusals, Successes, Working, Holding
<1>3. ASSUME NEW o \in Operators, Reject(o) PROVE TypeOK'
    BY <1>3 DEF Reject, TypeOK, Goto, Answer, Release, store, world, Steps, Verdicts,
       Refusals, Successes, Working, Holding
<1>4. ASSUME NEW o \in Operators, Unparsable(o) PROVE TypeOK'
    <2>1. page[o] \in Pages
        BY <1>4 DEF Unparsable, TypeOK, RequestsOK, RequestOK, Goto
    <2>2. [page[o] EXCEPT !.findings = {}] \in Pages
        BY <2>1 DEF Pages
    <2>3. page' \in [Operators -> Pages \cup {None}]
        BY <1>4, <2>2 DEF Unparsable, TypeOK
    <2>. QED BY <1>4, <2>3 DEF Unparsable, TypeOK, store, world
<1>5. ASSUME NEW o \in Operators, Review(o) PROVE TypeOK'
    <2>1. page[o] \in Pages
        BY <1>5 DEF Review, TypeOK, RequestsOK, RequestOK, Goto
    <2>2. PICK d \in Submissions(o) :
            page' = [page EXCEPT ![o] = [@ EXCEPT !.findings = Flags(d)]]
        BY <1>5 DEF Review
    <2>3. d \in AnyDoc
        BY <1>5, SubmissionType DEF Review, RequestsOK, RequestOK
    <2>4. Flags(d) \in SUBSET Leaves
        BY <2>3, DocDomain, SortsAssumption DEF Flags
    <2>5. [page[o] EXCEPT !.findings = Flags(d)] \in Pages
        BY <2>1, <2>4 DEF Pages
    <2>6. page' \in [Operators -> Pages \cup {None}]
        BY <2>2, <2>5 DEF TypeOK
    <2>. QED BY <1>5, <2>6 DEF Review, TypeOK, store, world
<1>6. ASSUME NEW o \in Operators, Apply(o) PROVE TypeOK'
    <2>1. PICK d \in Submissions(o) : req' = [req EXCEPT ![o] = [kind |-> "edit", doc |-> d]]
        BY <1>6 DEF Apply
    <2>2. d \in AnyDoc
        BY <1>6, SubmissionType DEF Apply, Goto, RequestsOK, RequestOK
    <2>3. [kind |-> "edit", doc |-> d] \in Requests
        BY <2>2 DEF Requests, AnyDoc
    <2>4. req' \in [Operators -> Requests \cup {None}]
        BY <2>1, <2>3 DEF TypeOK
    <2>5. posts' \in 0..MaxPosts
        BY <1>6, BoundsAssumption DEF Apply, TypeOK
    <2>. QED BY <1>6, <2>4, <2>5 DEF Apply, TypeOK, Goto, Steps, Working, Holding, store, world
<1>7. ASSUME NEW o \in Operators, Restore(o) PROVE TypeOK'
    <2>1. PICK n \in DOMAIN snaps :
            req' = [req EXCEPT ![o] = [kind |-> "restore", doc |-> snaps[n]]]
        BY <1>7 DEF Restore
    <2>2. snaps[n] \in AnyDoc
        BY ConfigIsDoc DEF TypeOK
    <2>3. [kind |-> "restore", doc |-> snaps[n]] \in Requests
        BY <2>2 DEF Requests, AnyDoc
    <2>4. req' \in [Operators -> Requests \cup {None}]
        BY <2>1, <2>3 DEF TypeOK
    <2>5. posts' \in 0..MaxPosts
        BY <1>7, BoundsAssumption DEF Restore, TypeOK
    <2>. QED BY <1>7, <2>4, <2>5 DEF Restore, TypeOK, Goto, Steps, Working, Holding, store, world
<1>8. ASSUME NEW o \in Operators, RestoreMissing(o) PROVE TypeOK'
    BY <1>8 DEF RestoreMissing, TypeOK, Goto, Answer, Release, store, world, Steps, Verdicts,
       Refusals, Successes, Working, Holding
<1>9. ASSUME NEW o \in Operators, Dismiss(o) PROVE TypeOK'
    BY <1>9 DEF Dismiss, TypeOK, Goto, Answer, Release, store, world, Steps, Verdicts,
       Refusals, Successes, Working, Holding
<1>10. ASSUME NEW o \in Operators, LockFails(o) PROVE TypeOK'
    BY <1>10 DEF LockFails, TypeOK, Goto, Answer, Release, store, world, Steps, Verdicts,
       Refusals, Successes, Working, Holding
<1>11. ASSUME NEW o \in Operators, Acquire(o) PROVE TypeOK'
    BY <1>11 DEF Acquire, TypeOK, Goto, Answer, Release, store, world, Steps, Verdicts,
       Refusals, Successes, Working, Holding
<1>12. ASSUME NEW o \in Operators, BaselineHolds(o) PROVE TypeOK'
    BY <1>12 DEF BaselineHolds, TypeOK, Goto, Answer, Release, store, world, Steps, Verdicts,
       Refusals, Successes, Working, Holding
<1>13. ASSUME NEW o \in Operators, Conflict(o) PROVE TypeOK'
    BY <1>13 DEF Conflict, TypeOK, Goto, Answer, Release, store, world, Steps, Verdicts,
       Refusals, Successes, Working, Holding
<1>14. ASSUME NEW o \in Operators, Backup(o) PROVE TypeOK'
    BY <1>14 DEF Backup, TypeOK, Goto, Answer, Release, store, world, Steps, Verdicts,
       Refusals, Successes, Working, Holding
<1>15. ASSUME NEW o \in Operators, Save(o) PROVE TypeOK'
    <2>1. copy[o] \in Configs /\ saved \in Nat
        BY <1>15 DEF Save, Goto, TypeOK, RequestsOK, RequestOK
    <2>2. /\ DOMAIN snaps' \subseteq 1..saved'
          /\ \A n \in DOMAIN snaps' : snaps'[n] \in Configs
        BY <1>15, <2>1, StoreType DEF Save
    <2>3. saved' \in Nat /\ own' \in [Operators -> Nat]
        BY <1>15, <2>1 DEF Save, TypeOK
    <2>4. pc' \in [Operators -> Steps] /\ copy' \in [Operators -> Configs \cup {None}]
        BY <1>15 DEF Save, TypeOK, Goto, Steps, Working, Holding
    <2>. QED BY <1>15, <2>2, <2>3, <2>4 DEF Save, TypeOK, world
<1>16. ASSUME NEW o \in Operators, SaveFails(o) PROVE TypeOK'
    <2>1. copy[o] \in Configs /\ saved \in Nat
        BY <1>16 DEF SaveFails, TypeOK, RequestsOK, RequestOK
    <2>2. /\ DOMAIN snaps' \subseteq 1..saved' /\ saved' \in Nat
          /\ \A n \in DOMAIN snaps' : snaps'[n] \in Configs
        BY <1>16, <2>1, HalfSavedType DEF SaveFails
    <2>. QED BY <1>16, <2>2 DEF SaveFails, TypeOK, Answer, Release, Steps, Verdicts, Refusals, world
<1>17. ASSUME NEW o \in Operators, PutApplied(o) PROVE TypeOK'
    <2>1. req[o] \in Requests
        BY <1>17 DEF PutApplied, Goto, TypeOK, RequestsOK, RequestOK, Working, Holding
    <2>2. cfg' \in Configs
        BY <1>17, <2>1, PutType DEF PutApplied, TypeOK, Requests, AnyDoc
    <2>. QED BY <1>17, <2>2 DEF PutApplied, TypeOK, Goto, Steps, Working, Holding, store, world
<1>18. ASSUME NEW o \in Operators, ApiError(o) PROVE TypeOK'
    BY <1>18 DEF ApiError, TypeOK, Goto, Answer, Release, store, world, Steps, Verdicts,
       Refusals, Successes, Working, Holding
<1>19. ASSUME NEW o \in Operators, PutAbandoned(o) PROVE TypeOK'
    <2>1. req[o] \in Requests
        BY <1>19 DEF PutAbandoned, TypeOK, RequestsOK, RequestOK, Working, Holding
    <2>2. late' \subseteq AnyDoc
        BY <1>19, <2>1 DEF PutAbandoned, TypeOK, Requests, AnyDoc
    <2>3. lost' \in 0..MaxLate
        BY <1>19, BoundsAssumption DEF PutAbandoned, TypeOK
    <2>. QED BY <1>19, <2>2, <2>3 DEF PutAbandoned, TypeOK, AnyDoc, Answer, Release, Steps, Verdicts, store
<1>20. ASSUME NEW o \in Operators, Acked(o) PROVE TypeOK'
    BY <1>20 DEF Acked, TypeOK, Goto, Answer, Release, store, world, Steps, Verdicts,
       Refusals, Successes, Working, Holding
<1>21. ASSUME NEW o \in Operators, Verify(o) PROVE TypeOK'
    BY <1>21 DEF Verify, TypeOK, Goto, Answer, Release, store, world, Steps, Verdicts,
       Refusals, Successes, Working, Holding
<1>22. ASSUME NEW o \in Operators, Unreachable(o) PROVE TypeOK'
    BY <1>22 DEF Unreachable, TypeOK, Goto, Answer, Release, store, world, Steps, Verdicts,
       Refusals, Successes, Working, Holding
<1>23. ASSUME NEW o \in Operators, Crash(o) PROVE TypeOK'
    <2>1. /\ DOMAIN snaps' \subseteq 1..saved' /\ saved' \in Nat
          /\ \A n \in DOMAIN snaps' : snaps'[n] \in Configs
        <3>1. CASE pc[o] = "saving"
            <4>1. copy[o] \in Configs
                BY <3>1 DEF TypeOK, RequestsOK, RequestOK
            <4>. QED BY <1>23, <3>1, <4>1, HalfSavedType DEF Crash
        <3>2. CASE pc[o] # "saving"
            BY <1>23, <3>2 DEF Crash, store, TypeOK
        <3>. QED BY <3>1, <3>2
    <2>. QED BY <1>23, <2>1 DEF Crash, TypeOK, Answer, Release, Steps, Verdicts, world
<1>24. CASE ForeignWrite
    <2>1. foreign' \in 0..MaxForeign
        BY <1>24, BoundsAssumption DEF ForeignWrite, TypeOK
    <2>. QED BY <1>24, <2>1 DEF ForeignWrite, TypeOK, store
<1>25. CASE LatePut
    <2>1. PICK d \in late : cfg' = Put(d) /\ late' = late \ {d}
        BY <1>25 DEF LatePut
    <2>2. cfg' \in Configs
        BY <2>1, PutType DEF TypeOK, AnyDoc
    <2>. QED BY <1>25, <2>1, <2>2 DEF LatePut, TypeOK, store
<1>26. CASE UNCHANGED vars
    BY <1>26 DEF vars, TypeOK
<1>. QED
    BY <1>1, <1>2, <1>3, <1>4, <1>5, <1>6, <1>7, <1>8, <1>9, <1>10, <1>11, <1>12, <1>13, <1>14, <1>15, <1>16, <1>17, <1>18, <1>19, <1>20, <1>21, <1>22, <1>23, <1>24, <1>25, <1>26 DEF Next, Window, Thread

-----------------------------------------------------------------------------
(* The inductive invariant: the lock.                                      *)

LEMMA LockStep ==
    ASSUME IInv, [Next]_vars
    PROVE  LockHeld'
<1>. USE SortsAssumption DEF IInv
<1>1. ASSUME NEW o \in Operators, Open(o) PROVE LockHeld'
    BY <1>1 DEF Open, LockHeld, TypeOK, Goto, Answer, Release, Holding, Working
<1>2. ASSUME NEW o \in Operators, Cancel(o) PROVE LockHeld'
    BY <1>2 DEF Cancel, LockHeld, TypeOK, Goto, Answer, Release, Holding, Working
<1>3. ASSUME NEW o \in Operators, Reject(o) PROVE LockHeld'
    BY <1>3 DEF Reject, LockHeld, TypeOK, Goto, Answer, Release, Holding, Working
<1>4. ASSUME NEW o \in Operators, Unparsable(o) PROVE LockHeld'
    BY <1>4 DEF Unparsable, LockHeld, TypeOK, Goto, Answer, Release, Holding, Working
<1>5. ASSUME NEW o \in Operators, Review(o) PROVE LockHeld'
    BY <1>5 DEF Review, LockHeld, TypeOK, Goto, Answer, Release, Holding, Working
<1>6. ASSUME NEW o \in Operators, Apply(o) PROVE LockHeld'
    BY <1>6 DEF Apply, LockHeld, TypeOK, Goto, Answer, Release, Holding, Working
<1>7. ASSUME NEW o \in Operators, Restore(o) PROVE LockHeld'
    BY <1>7 DEF Restore, LockHeld, TypeOK, Goto, Answer, Release, Holding, Working
<1>8. ASSUME NEW o \in Operators, RestoreMissing(o) PROVE LockHeld'
    BY <1>8 DEF RestoreMissing, LockHeld, TypeOK, Goto, Answer, Release, Holding, Working
<1>9. ASSUME NEW o \in Operators, Dismiss(o) PROVE LockHeld'
    BY <1>9 DEF Dismiss, LockHeld, TypeOK, Goto, Answer, Release, Holding, Working
<1>10. ASSUME NEW o \in Operators, LockFails(o) PROVE LockHeld'
    BY <1>10 DEF LockFails, LockHeld, TypeOK, Goto, Answer, Release, Holding, Working
<1>11. ASSUME NEW o \in Operators, Acquire(o) PROVE LockHeld'
    BY <1>11 DEF Acquire, LockHeld, TypeOK, Goto, Answer, Release, Holding, Working
<1>12. ASSUME NEW o \in Operators, BaselineHolds(o) PROVE LockHeld'
    BY <1>12 DEF BaselineHolds, LockHeld, TypeOK, Goto, Answer, Release, Holding, Working
<1>13. ASSUME NEW o \in Operators, Conflict(o) PROVE LockHeld'
    BY <1>13 DEF Conflict, LockHeld, TypeOK, Goto, Answer, Release, Holding, Working
<1>14. ASSUME NEW o \in Operators, Backup(o) PROVE LockHeld'
    BY <1>14 DEF Backup, LockHeld, TypeOK, Goto, Answer, Release, Holding, Working
<1>15. ASSUME NEW o \in Operators, Save(o) PROVE LockHeld'
    BY <1>15 DEF Save, LockHeld, TypeOK, Goto, Answer, Release, Holding, Working
<1>16. ASSUME NEW o \in Operators, SaveFails(o) PROVE LockHeld'
    BY <1>16 DEF SaveFails, LockHeld, TypeOK, Goto, Answer, Release, Holding, Working
<1>17. ASSUME NEW o \in Operators, PutApplied(o) PROVE LockHeld'
    BY <1>17 DEF PutApplied, LockHeld, TypeOK, Goto, Answer, Release, Holding, Working
<1>18. ASSUME NEW o \in Operators, ApiError(o) PROVE LockHeld'
    BY <1>18 DEF ApiError, LockHeld, TypeOK, Goto, Answer, Release, Holding, Working
<1>19. ASSUME NEW o \in Operators, PutAbandoned(o) PROVE LockHeld'
    BY <1>19 DEF PutAbandoned, LockHeld, TypeOK, Goto, Answer, Release, Holding, Working
<1>20. ASSUME NEW o \in Operators, Acked(o) PROVE LockHeld'
    BY <1>20 DEF Acked, LockHeld, TypeOK, Goto, Answer, Release, Holding, Working
<1>21. ASSUME NEW o \in Operators, Verify(o) PROVE LockHeld'
    BY <1>21 DEF Verify, LockHeld, TypeOK, Goto, Answer, Release, Holding, Working
<1>22. ASSUME NEW o \in Operators, Unreachable(o) PROVE LockHeld'
    BY <1>22 DEF Unreachable, LockHeld, TypeOK, Goto, Answer, Release, Holding, Working
<1>23. ASSUME NEW o \in Operators, Crash(o) PROVE LockHeld'
    BY <1>23 DEF Crash, LockHeld, TypeOK, Goto, Answer, Release, Holding, Working
<1>24. CASE ForeignWrite \/ LatePut \/ UNCHANGED vars
    BY <1>24 DEF ForeignWrite, LatePut, vars, LockHeld
<1>. QED
    BY <1>1, <1>2, <1>3, <1>4, <1>5, <1>6, <1>7, <1>8, <1>9, <1>10, <1>11, <1>12, <1>13, <1>14, <1>15, <1>16, <1>17, <1>18, <1>19, <1>20, <1>21, <1>22, <1>23, <1>24 DEF Next, Window, Thread

-----------------------------------------------------------------------------
(* The inductive invariant: what a request may rely on.                    *)

(* What one request relies on is not disturbed by a step that leaves its   *)
(* own state alone and, if it is the lock's holder, also the configuration *)
(* and the store.                                                          *)
LEMMA RequestFrame ==
    ASSUME NEW p \in Operators, RequestOK(p),
           pc'[p] = pc[p], page'[p] = page[p], req'[p] = req[p], copy'[p] = copy[p],
           own'[p] = own[p], outcome'[p] = outcome[p], wrote'[p] = wrote[p],
           \/ pc[p] \notin Holding
           \/ cfg' = cfg /\ snaps' = snaps /\ disturbed' = disturbed
    PROVE  RequestOK(p)'
BY DEF RequestOK, Read, Holding

(* A step of one request is such a step for every other.                   *)
LEMMA OthersFrame ==
    ASSUME IInv, NEW o \in Operators, Window(o) \/ LockFails(o) \/ Thread(o) \/ Crash(o),
           NEW p \in Operators, p # o
    PROVE  RequestOK(p)'
<1>. USE DEF IInv
<1>1. RequestOK(p)
    BY DEF RequestsOK
<1>2. pc[p] \in Holding => lock = p
    BY DEF LockHeld
<1>3. pc[o] \in Holding => pc[p] \notin Holding
    BY DEF LockHeld
<1>4. CASE Open(o)
    BY <1>1, <1>2, <1>3, <1>4, RequestFrame, SortsAssumption
    DEF Open, TypeOK, Goto, Answer, Release, Holding, Working, store
<1>5. CASE Cancel(o)
    BY <1>1, <1>2, <1>3, <1>5, RequestFrame, SortsAssumption
    DEF Cancel, TypeOK, Goto, Answer, Release, Holding, Working, store
<1>6. CASE Reject(o)
    BY <1>1, <1>2, <1>3, <1>6, RequestFrame, SortsAssumption
    DEF Reject, TypeOK, Goto, Answer, Release, Holding, Working, store
<1>7. CASE Unparsable(o)
    BY <1>1, <1>2, <1>3, <1>7, RequestFrame, SortsAssumption
    DEF Unparsable, TypeOK, Goto, Answer, Release, Holding, Working, store
<1>8. CASE Review(o)
    BY <1>1, <1>2, <1>3, <1>8, RequestFrame, SortsAssumption
    DEF Review, TypeOK, Goto, Answer, Release, Holding, Working, store
<1>9. CASE Apply(o)
    BY <1>1, <1>2, <1>3, <1>9, RequestFrame, SortsAssumption
    DEF Apply, TypeOK, Goto, Answer, Release, Holding, Working, store
<1>10. CASE Restore(o)
    BY <1>1, <1>2, <1>3, <1>10, RequestFrame, SortsAssumption
    DEF Restore, TypeOK, Goto, Answer, Release, Holding, Working, store
<1>11. CASE RestoreMissing(o)
    BY <1>1, <1>2, <1>3, <1>11, RequestFrame, SortsAssumption
    DEF RestoreMissing, TypeOK, Goto, Answer, Release, Holding, Working, store
<1>12. CASE Dismiss(o)
    BY <1>1, <1>2, <1>3, <1>12, RequestFrame, SortsAssumption
    DEF Dismiss, TypeOK, Goto, Answer, Release, Holding, Working, store
<1>13. CASE LockFails(o)
    BY <1>1, <1>2, <1>3, <1>13, RequestFrame, SortsAssumption
    DEF LockFails, TypeOK, Goto, Answer, Release, Holding, Working, store
<1>14. CASE Acquire(o)
    BY <1>1, <1>2, <1>3, <1>14, RequestFrame, SortsAssumption
    DEF Acquire, TypeOK, Goto, Answer, Release, Holding, Working, store
<1>15. CASE BaselineHolds(o)
    BY <1>1, <1>2, <1>3, <1>15, RequestFrame, SortsAssumption
    DEF BaselineHolds, TypeOK, Goto, Answer, Release, Holding, Working, store
<1>16. CASE Conflict(o)
    BY <1>1, <1>2, <1>3, <1>16, RequestFrame, SortsAssumption
    DEF Conflict, TypeOK, Goto, Answer, Release, Holding, Working, store
<1>17. CASE Backup(o)
    BY <1>1, <1>2, <1>3, <1>17, RequestFrame, SortsAssumption
    DEF Backup, TypeOK, Goto, Answer, Release, Holding, Working, store
<1>18. CASE Save(o)
    BY <1>1, <1>2, <1>3, <1>18, RequestFrame, SortsAssumption
    DEF Save, TypeOK, Goto, Answer, Release, Holding, Working, store
<1>19. CASE SaveFails(o)
    BY <1>1, <1>2, <1>3, <1>19, RequestFrame, SortsAssumption
    DEF SaveFails, TypeOK, Goto, Answer, Release, Holding, Working, store
<1>20. CASE PutApplied(o)
    BY <1>1, <1>2, <1>3, <1>20, RequestFrame, SortsAssumption
    DEF PutApplied, TypeOK, Goto, Answer, Release, Holding, Working, store
<1>21. CASE ApiError(o)
    BY <1>1, <1>2, <1>3, <1>21, RequestFrame, SortsAssumption
    DEF ApiError, TypeOK, Goto, Answer, Release, Holding, Working, store
<1>22. CASE PutAbandoned(o)
    BY <1>1, <1>2, <1>3, <1>22, RequestFrame, SortsAssumption
    DEF PutAbandoned, TypeOK, Goto, Answer, Release, Holding, Working, store
<1>23. CASE Acked(o)
    BY <1>1, <1>2, <1>3, <1>23, RequestFrame, SortsAssumption
    DEF Acked, TypeOK, Goto, Answer, Release, Holding, Working, store
<1>24. CASE Verify(o)
    BY <1>1, <1>2, <1>3, <1>24, RequestFrame, SortsAssumption
    DEF Verify, TypeOK, Goto, Answer, Release, Holding, Working, store
<1>25. CASE Unreachable(o)
    BY <1>1, <1>2, <1>3, <1>25, RequestFrame, SortsAssumption
    DEF Unreachable, TypeOK, Goto, Answer, Release, Holding, Working, store
<1>26. CASE Crash(o)
    BY <1>1, <1>2, <1>3, <1>26, RequestFrame, SortsAssumption
    DEF Crash, TypeOK, Goto, Answer, Release, Holding, Working, store
<1>. QED
    BY <1>4, <1>5, <1>6, <1>7, <1>8, <1>9, <1>10, <1>11, <1>12, <1>13, <1>14, <1>15, <1>16, <1>17, <1>18, <1>19, <1>20, <1>21, <1>22, <1>23, <1>24, <1>25, <1>26 DEF Window, Thread

(* Nor is it by a write that does not take the lock: while the lock is     *)
(* held such a write shows as disturbed, and while it is not nobody relies *)
(* on the configuration.                                                   *)
LEMMA UnlockedWriteFrame ==
    ASSUME IInv, ForeignWrite \/ LatePut, NEW p \in Operators
    PROVE  RequestOK(p)'
<1>1. RequestOK(p) /\ (pc[p] \in Holding => lock # None)
    BY SortsAssumption DEF IInv, RequestsOK, LockHeld
<1>2. pc[p] \in Holding => disturbed'
    BY <1>1 DEF ForeignWrite, LatePut
<1>3. /\ pc' = pc /\ page' = page /\ req' = req /\ copy' = copy /\ own' = own
      /\ snaps' = snaps /\ outcome' = outcome /\ wrote' = wrote
    BY DEF ForeignWrite, LatePut, store
<1>. QED BY <1>1, <1>2, <1>3 DEF RequestOK, Holding

(* A step of a request leaves it where the next one needs it.              *)
LEMMA OwnStep ==
    ASSUME IInv, NEW o \in Operators, Window(o) \/ LockFails(o) \/ Thread(o) \/ Crash(o)
    PROVE  RequestOK(o)'
<1>. USE DEF IInv
<1>1. RequestOK(o)
    BY DEF RequestsOK
<1>2. CASE Open(o)
    <2>1. PICK t \in Targets, m \in {"json", "guided"} :
            page'[o] = [mode |-> m, baseline |-> Read(t), findings |-> {}]
        BY <1>2 DEF Open, TypeOK
    <2>2. Read(t) \in AnyDoc
        BY ReadType DEF TypeOK
    <2>3. page'[o] # None
        BY <2>1, <2>2, NoneAssumption DEF Pages, AnyDoc
    <2>. QED BY <1>1, <1>2, <2>3 DEF Open, RequestOK, TypeOK, Goto, Working, Holding
<1>3. CASE Cancel(o)
    BY <1>1, <1>3 DEF Cancel, RequestOK, TypeOK, Goto, Answer, Release, Holding, Working, store, Read
<1>4. CASE Reject(o)
    BY <1>1, <1>4 DEF Reject, RequestOK, TypeOK, Goto, Answer, Release, Holding, Working, store, Read
<1>5. CASE Unparsable(o)
    <2>1. page[o] \in Pages
        BY <1>1, <1>5 DEF Unparsable, RequestOK, TypeOK
    <2>2. page'[o] # None
        BY <1>5, <2>1, NoneAssumption DEF Unparsable, TypeOK, Pages
    <2>. QED BY <1>1, <1>5, <2>2 DEF Unparsable, RequestOK, Working, Holding
<1>6. CASE Review(o)
    <2>1. page[o] \in Pages
        BY <1>1, <1>6 DEF Review, RequestOK, TypeOK
    <2>2. PICK d \in Submissions(o) : page'[o] = [page[o] EXCEPT !.findings = Flags(d)]
        BY <1>6 DEF Review, TypeOK
    <2>3. d \in AnyDoc
        BY <1>1, <1>6, SubmissionType DEF Review, RequestOK
    <2>4. Flags(d) \in SUBSET Leaves
        BY <2>3, DocDomain, SortsAssumption DEF Flags
    <2>5. page'[o] # None
        BY <2>1, <2>2, <2>4, NoneAssumption DEF Pages
    <2>. QED BY <1>1, <1>6, <2>5 DEF Review, RequestOK, Working, Holding
<1>7. CASE Apply(o)
    <2>1. PICK d \in Submissions(o) : req'[o] = [kind |-> "edit", doc |-> d]
        BY <1>7 DEF Apply, TypeOK
    <2>2. page[o] # None /\ page' = page
        BY <1>1, <1>7 DEF Apply, Goto, RequestOK
    <2>3. d \in AnyDoc /\ DOMAIN d = DOMAIN page[o].baseline
        BY <2>2, SubmissionType DEF Docs
    <2>4. req'[o] # None
        BY <2>1, <2>3, NoneAssumption DEF Requests, AnyDoc
    <2>. QED BY <1>1, <1>7, <2>1, <2>2, <2>3, <2>4 DEF Apply, RequestOK, TypeOK, Goto, Working, Holding
<1>8. CASE Restore(o)
    <2>1. PICK n \in DOMAIN snaps : req'[o] = [kind |-> "restore", doc |-> snaps[n]]
        BY <1>8 DEF Restore, TypeOK
    <2>2. snaps[n] \in Configs
        BY DEF TypeOK
    <2>3. DOMAIN snaps[n] = Leaves
        BY <2>2 DEF Configs, Docs
    <2>4. req'[o] # None
        BY <2>1, <2>2, ConfigIsDoc, NoneAssumption DEF Requests, AnyDoc
    <2>. QED BY <1>1, <1>8, <2>1, <2>3, <2>4 DEF Restore, RequestOK, TypeOK, Goto, Working, Holding
<1>9. CASE RestoreMissing(o)
    BY <1>1, <1>9 DEF RestoreMissing, RequestOK, TypeOK, Goto, Answer, Release, Holding, Working, store, Read
<1>10. CASE Dismiss(o)
    BY <1>1, <1>10 DEF Dismiss, RequestOK, TypeOK, Goto, Answer, Release, Holding, Working, store, Read
<1>11. CASE LockFails(o)
    BY <1>1, <1>11 DEF LockFails, RequestOK, TypeOK, Goto, Answer, Release, Holding, Working, store, Read
<1>12. CASE Acquire(o)
    BY <1>1, <1>12 DEF Acquire, RequestOK, TypeOK, Goto, Answer, Release, Holding, Working, store, Read
<1>13. CASE BaselineHolds(o)
    BY <1>1, <1>13 DEF BaselineHolds, RequestOK, TypeOK, Goto, Answer, Release, Holding, Working, store, Read
<1>14. CASE Conflict(o)
    BY <1>1, <1>14 DEF Conflict, RequestOK, TypeOK, Goto, Answer, Release, Holding, Working, store, Read
<1>15. CASE Backup(o)
    <2>1. copy'[o] = cfg /\ cfg' = cfg /\ cfg # None
        BY <1>15, ConfigIsDoc DEF Backup, TypeOK
    <2>. QED BY <1>1, <1>15, <2>1 DEF Backup, RequestOK, TypeOK, Goto, Holding, Working, store, Read
<1>16. CASE Save(o)
    <2>1. copy[o] \in Configs /\ (~disturbed => copy[o] = cfg)
        BY <1>1, <1>16 DEF Save, Goto, RequestOK, TypeOK
    <2>2. own'[o] = saved + 1
        BY <1>16 DEF Save, TypeOK
    <2>3. own'[o] \in DOMAIN snaps' /\ snaps'[own'[o]] = copy[o]
        BY <1>16, <2>1, <2>2, NewestKept DEF Save
    <2>. QED BY <1>1, <1>16, <2>1, <2>3 DEF Save, RequestOK, TypeOK, Goto, Holding, Working, Read
<1>17. CASE SaveFails(o)
    BY <1>1, <1>17 DEF SaveFails, RequestOK, TypeOK, Goto, Answer, Release, Holding, Working, store, Read
<1>18. CASE PutApplied(o)
    BY <1>1, <1>18 DEF PutApplied, RequestOK, TypeOK, Goto, Answer, Release, Holding, Working, store, Read
<1>19. CASE ApiError(o)
    BY <1>1, <1>19 DEF ApiError, RequestOK, TypeOK, Goto, Answer, Release, Holding, Working, store, Read
<1>20. CASE PutAbandoned(o)
    BY <1>1, <1>20 DEF PutAbandoned, RequestOK, TypeOK, Goto, Answer, Release, Holding, Working, store, Read
<1>21. CASE Acked(o)
    BY <1>1, <1>21 DEF Acked, RequestOK, TypeOK, Goto, Answer, Release, Holding, Working, store, Read
<1>22. CASE Verify(o)
    BY <1>1, <1>22 DEF Verify, RequestOK, TypeOK, Goto, Answer, Release, Holding, Working, store, Read
<1>23. CASE Unreachable(o)
    BY <1>1, <1>23 DEF Unreachable, RequestOK, TypeOK, Goto, Answer, Release, Holding, Working, store, Read
<1>24. CASE Crash(o)
    BY <1>1, <1>24 DEF Crash, RequestOK, TypeOK, Goto, Answer, Release, Holding, Working, store, Read
<1>. QED
    BY <1>2, <1>3, <1>4, <1>5, <1>6, <1>7, <1>8, <1>9, <1>10, <1>11, <1>12, <1>13, <1>14, <1>15, <1>16, <1>17, <1>18, <1>19, <1>20, <1>21, <1>22, <1>23, <1>24 DEF Window, Thread

LEMMA RequestStep ==
    ASSUME IInv, [Next]_vars
    PROVE  RequestsOK'
<1>. SUFFICES ASSUME NEW p \in Operators PROVE RequestOK(p)'
    BY DEF RequestsOK
<1>1. ASSUME NEW o \in Operators, Window(o) \/ LockFails(o) \/ Thread(o) \/ Crash(o)
      PROVE  RequestOK(p)'
    BY <1>1, OwnStep, OthersFrame
<1>2. CASE ForeignWrite \/ LatePut
    BY <1>2, UnlockedWriteFrame
<1>3. CASE UNCHANGED vars
    BY <1>3 DEF vars, IInv, RequestsOK, RequestOK, Read
<1>. QED BY <1>1, <1>2, <1>3 DEF Next

(* The inductive invariant: what one operator was told.                    *)
Truth(o) ==
    /\ outcome[o] \in Refusals => ~wrote[o]
    /\ outcome[o] = "refused" /\ req[o].kind = "restore" => ~wrote[o]
    /\ outcome[o] \in Successes => wrote[o]

LEMMA TruthStep ==
    ASSUME IInv, [Next]_vars
    PROVE  TruthfulAnswer'
<1>. SUFFICES ASSUME NEW p \in Operators
              PROVE  Truth(p)'
    BY DEF TruthfulAnswer, Truth
<1>. USE NoneAssumption DEF IInv, Refusals, Successes, Verdicts
<1>1. Truth(p) /\ RequestOK(p)
    BY DEF TruthfulAnswer, Truth, RequestsOK
<1>2. ASSUME NEW o \in Operators, Open(o) PROVE Truth(p)'
    BY <1>1, <1>2 DEF Open, Truth, RequestOK, TypeOK, Goto, Answer, Working, Holding
<1>3. ASSUME NEW o \in Operators, Cancel(o) PROVE Truth(p)'
    BY <1>1, <1>3 DEF Cancel, Truth, RequestOK, TypeOK, Goto, Answer, Working, Holding
<1>4. ASSUME NEW o \in Operators, Reject(o) PROVE Truth(p)'
    BY <1>1, <1>4 DEF Reject, Truth, RequestOK, TypeOK, Goto, Answer, Working, Holding
<1>5. ASSUME NEW o \in Operators, Unparsable(o) PROVE Truth(p)'
    BY <1>1, <1>5 DEF Unparsable, Truth, RequestOK, TypeOK, Goto, Answer, Working, Holding
<1>6. ASSUME NEW o \in Operators, Review(o) PROVE Truth(p)'
    BY <1>1, <1>6 DEF Review, Truth, RequestOK, TypeOK, Goto, Answer, Working, Holding
<1>7. ASSUME NEW o \in Operators, Apply(o) PROVE Truth(p)'
    BY <1>1, <1>7 DEF Apply, Truth, RequestOK, TypeOK, Goto, Answer, Working, Holding
<1>8. ASSUME NEW o \in Operators, Restore(o) PROVE Truth(p)'
    BY <1>1, <1>8 DEF Restore, Truth, RequestOK, TypeOK, Goto, Answer, Working, Holding
<1>9. ASSUME NEW o \in Operators, RestoreMissing(o) PROVE Truth(p)'
    BY <1>1, <1>9 DEF RestoreMissing, Truth, RequestOK, TypeOK, Goto, Answer, Working, Holding
<1>10. ASSUME NEW o \in Operators, Dismiss(o) PROVE Truth(p)'
    BY <1>1, <1>10 DEF Dismiss, Truth, RequestOK, TypeOK, Goto, Answer, Working, Holding
<1>11. ASSUME NEW o \in Operators, LockFails(o) PROVE Truth(p)'
    BY <1>1, <1>11 DEF LockFails, Truth, RequestOK, TypeOK, Goto, Answer, Working, Holding
<1>12. ASSUME NEW o \in Operators, Acquire(o) PROVE Truth(p)'
    BY <1>1, <1>12 DEF Acquire, Truth, RequestOK, TypeOK, Goto, Answer, Working, Holding
<1>13. ASSUME NEW o \in Operators, BaselineHolds(o) PROVE Truth(p)'
    BY <1>1, <1>13 DEF BaselineHolds, Truth, RequestOK, TypeOK, Goto, Answer, Working, Holding
<1>14. ASSUME NEW o \in Operators, Conflict(o) PROVE Truth(p)'
    BY <1>1, <1>14 DEF Conflict, Truth, RequestOK, TypeOK, Goto, Answer, Working, Holding
<1>15. ASSUME NEW o \in Operators, Backup(o) PROVE Truth(p)'
    BY <1>1, <1>15 DEF Backup, Truth, RequestOK, TypeOK, Goto, Answer, Working, Holding
<1>16. ASSUME NEW o \in Operators, Save(o) PROVE Truth(p)'
    BY <1>1, <1>16 DEF Save, Truth, RequestOK, TypeOK, Goto, Answer, Working, Holding
<1>17. ASSUME NEW o \in Operators, SaveFails(o) PROVE Truth(p)'
    BY <1>1, <1>17 DEF SaveFails, Truth, RequestOK, TypeOK, Goto, Answer, Working, Holding
<1>18. ASSUME NEW o \in Operators, PutApplied(o) PROVE Truth(p)'
    BY <1>1, <1>18 DEF PutApplied, Truth, RequestOK, TypeOK, Goto, Answer, Working, Holding
<1>19. ASSUME NEW o \in Operators, ApiError(o) PROVE Truth(p)'
    BY <1>1, <1>19 DEF ApiError, Truth, RequestOK, TypeOK, Goto, Answer, Working, Holding
<1>20. ASSUME NEW o \in Operators, PutAbandoned(o) PROVE Truth(p)'
    BY <1>1, <1>20 DEF PutAbandoned, Truth, RequestOK, TypeOK, Goto, Answer, Working, Holding
<1>21. ASSUME NEW o \in Operators, Acked(o) PROVE Truth(p)'
    BY <1>1, <1>21 DEF Acked, Truth, RequestOK, TypeOK, Goto, Answer, Working, Holding
<1>22. ASSUME NEW o \in Operators, Verify(o) PROVE Truth(p)'
    BY <1>1, <1>22 DEF Verify, Truth, RequestOK, TypeOK, Goto, Answer, Working, Holding
<1>23. ASSUME NEW o \in Operators, Unreachable(o) PROVE Truth(p)'
    BY <1>1, <1>23 DEF Unreachable, Truth, RequestOK, TypeOK, Goto, Answer, Working, Holding
<1>24. ASSUME NEW o \in Operators, Crash(o) PROVE Truth(p)'
    BY <1>1, <1>24 DEF Crash, Truth, RequestOK, TypeOK, Goto, Answer, Working, Holding
<1>25. CASE ForeignWrite \/ LatePut \/ UNCHANGED vars
    BY <1>1, <1>25 DEF ForeignWrite, LatePut, vars, Truth
<1>. QED
    BY <1>2, <1>3, <1>4, <1>5, <1>6, <1>7, <1>8, <1>9, <1>10, <1>11, <1>12, <1>13, <1>14, <1>15, <1>16, <1>17, <1>18, <1>19, <1>20, <1>21, <1>22, <1>23, <1>24, <1>25 DEF Next, Window, Thread

-----------------------------------------------------------------------------
(* The theorems.                                                           *)

LEMMA InitOK == Init => IInv
<1>. SUFFICES ASSUME Init PROVE IInv
    OBVIOUS
<1>. USE SortsAssumption, BoundsAssumption, NoneAssumption DEF Init
<1>1. TypeOK
    <2>1. DOMAIN snaps = {} /\ saved = 0 /\ posts = 0 /\ lost = 0 /\ foreign = 0
        BY DEF Init
    <2>2. /\ saved \in Nat /\ DOMAIN snaps \subseteq 1..saved
          /\ posts \in 0..MaxPosts /\ lost \in 0..MaxLate /\ foreign \in 0..MaxForeign
        BY <2>1
    <2>. QED BY <2>1, <2>2 DEF TypeOK, Steps
<1>2. LockHeld
    BY DEF LockHeld, Holding
<1>3. RequestsOK
    BY DEF RequestsOK, RequestOK, Working, Holding
<1>4. TruthfulAnswer
    BY DEF TruthfulAnswer, Verdicts
<1>. QED BY <1>1, <1>2, <1>3, <1>4 DEF IInv

(* The inductive invariant holds in every reachable state.                 *)
THEOREM Invariance == Spec => []IInv
<1>1. IInv /\ [Next]_vars => IInv'
    <2>. SUFFICES ASSUME IInv, [Next]_vars PROVE IInv'
        OBVIOUS
    <2>. QED BY TypeStep, LockStep, RequestStep, TruthStep DEF IInv
<1>. QED BY InitOK, <1>1, PTL DEF Spec

(* Type correctness, for every value of the constants.                     *)
THEOREM Typing == Spec => []TypeOK
<1>1. IInv => TypeOK
    BY DEF IInv
<1>. QED BY Invariance, <1>1, PTL

(* At most one request is between the conflict check and unitd's answer,   *)
(* and it is the one that holds the flock (SnapshotStore.lock).            *)
THEOREM OneHolder == Spec => []LockHeld
<1>1. IInv => LockHeld
    BY DEF IInv
<1>. QED BY Invariance, <1>1, PTL

(* What each place in the code relies on holds there: from the check to    *)
(* the PUT nothing moves under the request that holds the lock, unless     *)
(* something writes past it.                                               *)
THEOREM StepsRelyRightly == Spec => []RequestsOK
<1>1. IInv => RequestsOK
    BY DEF IInv
<1>. QED BY Invariance, <1>1, PTL

(* What the interface turned away was not executed, nor was a restore that *)
(* unitd refused, and a success was executed.  An edit answered "refused"  *)
(* is left out, as it must be: the read after its PUT can be refused too.  *)
THEOREM AnswersAreTrue == Spec => []TruthfulAnswer
<1>1. IInv => TruthfulAnswer
    BY DEF IInv
<1>. QED BY Invariance, <1>1, PTL

(* A PUT whose thread waits for it is executed from the step it waits in.  *)
LEMMA ExecutesPut ==
    ASSUME IInv, [Next]_vars, NEW o \in Operators, Executes(o)
    PROVE  pc[o] = "putting" /\ PutApplied(o)
<1>. USE DEF IInv, Executes
<1>1. ASSUME NEW p \in Operators, Window(p) PROVE FALSE
    BY <1>1 DEF Window, Open, Cancel, Reject, Unparsable, Review, Apply, Restore,
       RestoreMissing, Dismiss, TypeOK
<1>2. ASSUME NEW p \in Operators, LockFails(p) \/ Crash(p) PROVE FALSE
    BY <1>2 DEF LockFails, Crash
<1>3. CASE ForeignWrite \/ LatePut \/ UNCHANGED vars
    BY <1>3 DEF ForeignWrite, LatePut, vars
<1>4. ASSUME NEW p \in Operators, Thread(p) PROVE p = o /\ PutApplied(o)
    BY <1>4 DEF Thread, Acquire, BaselineHolds, Conflict, Backup, Save, SaveFails, PutApplied,
       ApiError, PutAbandoned, Acked, Verify, Unreachable, TypeOK
<1>5. PutApplied(o)
    BY <1>1, <1>2, <1>3, <1>4 DEF Next
<1>. QED BY <1>5 DEF PutApplied, Goto

(* No lost update among the writers that take the lock: an edit that is    *)
(* executed replaces exactly what its operator was shown.                  *)
THEOREM NothingLost == Spec => NoLostUpdate
<1>1. ASSUME IInv, [Next]_vars
      PROVE  \A o \in Operators :
                Executes(o) /\ req[o].kind = "edit" /\ ~disturbed =>
                    Read(DOMAIN req[o].doc) = page[o].baseline
    BY <1>1, ExecutesPut DEF IInv, RequestsOK, RequestOK
<1>. QED BY Invariance, <1>1, PTL DEF Spec, NoLostUpdate

(* Whatever a request replaces is in the store under the name it was given *)
(* for undoing it, for any retention limit of at least one.                *)
THEOREM AlwaysUndoable == Spec => SnapshotBeforeWrite
<1>1. ASSUME IInv, [Next]_vars
      PROVE  \A o \in Operators :
                Executes(o) /\ ~disturbed => own[o] \in DOMAIN snaps /\ snaps[own[o]] = cfg
    BY <1>1, ExecutesPut DEF IInv, RequestsOK, RequestOK
<1>. QED BY Invariance, <1>1, PTL DEF Spec, SnapshotBeforeWrite

(* A form keeps the baseline it was opened with for as long as it is open. *)
THEOREM BaselinesKept == Spec => BaselineKept
<1>1. ASSUME IInv, [Next]_vars, NEW p \in Operators, page[p] # None, page'[p] # None
      PROVE  page'[p].baseline = page[p].baseline
    <2>. USE <1>1 DEF IInv
    <2>1. CASE page'[p] = page[p]
        BY <2>1
    <2>2. ASSUME page'[p] # page[p]
          PROVE  Open(p) \/ Unparsable(p) \/ Review(p)
        BY <2>2 DEF Next, Window, Open, Cancel, Reject, Unparsable, Review, Apply, Restore,
           RestoreMissing, Dismiss, Thread, LockFails, Acquire, BaselineHolds, Conflict, Backup,
           Save, SaveFails, PutApplied, ApiError, PutAbandoned, Acked, Verify, Unreachable,
           Crash, ForeignWrite, LatePut, vars, TypeOK
    <2>3. ~Open(p)
        BY DEF Open, Goto, RequestsOK, RequestOK
    <2>4. page[p] \in Pages
        BY DEF TypeOK
    <2>5. CASE Unparsable(p)
        BY <2>4, <2>5 DEF Unparsable, Pages, TypeOK
    <2>6. CASE Review(p)
        BY <2>4, <2>6 DEF Review, Pages, TypeOK
    <2>. QED BY <2>1, <2>2, <2>3, <2>5, <2>6
<1>2. IInv /\ [Next]_vars =>
        \A o \in Operators :
            page[o] # None /\ page'[o] # None => page'[o].baseline = page[o].baseline
    BY <1>1
<1>. QED BY Invariance, <1>2, PTL DEF Spec, BaselineKept

=============================================================================
