---------------------------- MODULE ConfigWrites ----------------------------
(***************************************************************************)
(* The write path of the interface (web/writes.py): operators open a form, *)
(* post it, and a worker thread runs the request against unitd's control   *)
(* API and the snapshot store, holding the store's file lock from the      *)
(* conflict check until unitd has answered the PUT.                        *)
(*                                                                         *)
(* A configuration is a function from leaves to values; a document is such *)
(* a function on the leaves below one path, so its domain IS the path it   *)
(* is stored at.  A path that holds nothing maps its leaves to Absent.  A  *)
(* digest stands for the document it is computed from.                     *)
(***************************************************************************)
EXTENDS Naturals, FiniteSets

CONSTANTS
    Operators,   \* browser windows, each with at most one form and one request
    Leaves,      \* the addressable members of the configuration
    Values,      \* what a leaf may hold
    Absent,      \* a leaf that is not there
    None,        \* no page, no request, no copy, nobody
    Targets,     \* paths that can be edited, each the set of leaves below it
    Guided,      \* paths for which the guided form has fields (model.usable)
    Fields,      \* leaves the guided form manages; it preserves the others
    Required,    \* fields a blank submission leaves alone
    Suspect,     \* values check_document reports
    Start,       \* configurations unitd may hold at the start
    Keep,        \* snapshot_keep
    MaxPosts,    \* bound: posts that reach the lock
    MaxForeign,  \* bound: writes by other clients of the control API
    MaxLate      \* bound: PUTs given up by the client and still executed

Held    == Values \cup {Absent}
Docs(t) == [t -> Held]
Configs == Docs(Leaves)

ASSUME SortsAssumption ==
    /\ None \notin Operators /\ None \notin UNION {Docs(t) : t \in Targets}
    /\ Leaves \in Targets /\ Targets \subseteq SUBSET Leaves
    /\ Guided \subseteq Targets /\ Fields \subseteq Leaves /\ Required \subseteq Fields
    /\ Suspect \subseteq Values /\ Absent \notin Values
    /\ Start \subseteq Configs

ASSUME BoundsAssumption ==
    /\ Keep \in Nat \ {0} /\ MaxPosts \in Nat
    /\ MaxForeign \in Nat /\ MaxLate \in Nat

VARIABLES
    cfg,        \* the configuration unitd holds
    lock,       \* who holds the store's flock, or None
    pc,         \* where each operator's window or request is
    page,       \* the form each operator has open
    req,        \* the document each request is to store
    copy,       \* what get_config returned to the request, until it is saved
    own,        \* the snapshot the request took, 0 before it has one
    outcome,    \* what the operator was told
    snaps,      \* the stored snapshots, by name; names follow the order of saving
    saved,      \* the name of the last snapshot taken
    posts,      \* posts that reached the lock so far
    late,       \* documents of PUTs nobody waits for that unitd may yet execute
    lost,       \* how many PUTs were given up that way
    foreign,    \* how many writes other clients made
    wrote,      \* (history) unitd executed the request's PUT
    disturbed   \* (history) cfg was written past the lock while it was held

store  == <<snaps, saved>>
world  == <<late, lost, foreign>>
vars   == <<cfg, lock, pc, page, req, copy, own, outcome, snaps, saved, posts,
            late, lost, foreign, wrote, disturbed>>

Holding == {"checking", "backing", "saving", "putting", "acked"}
Working == Holding \cup {"waiting", "verifying"}
Steps   == Working \cup {"idle", "editing", "answered"}
Refusals == {"rejected", "missing", "conflict", "storage"}
Successes == {"applied", "differs", "restored"}
Verdicts == Refusals \cup Successes \cup {"refused", "unreachable", "died"}

Pages    == [mode : {"json", "guided"}, baseline : UNION {Docs(t) : t \in Targets},
             findings : SUBSET Leaves]
Requests == [kind : {"edit", "restore"}, doc : UNION {Docs(t) : t \in Targets}]

ASSUME NoneAssumption ==
    None \notin Verdicts /\ None \notin Pages /\ None \notin Requests

Init ==
    /\ cfg \in Start
    /\ lock = None
    /\ pc = [o \in Operators |-> "idle"]
    /\ page = [o \in Operators |-> None]
    /\ req = [o \in Operators |-> None]
    /\ copy = [o \in Operators |-> None]
    /\ own = [o \in Operators |-> 0]
    /\ outcome = [o \in Operators |-> None]
    /\ snaps = << >>
    /\ saved = 0 /\ posts = 0
    /\ late = {} /\ lost = 0 /\ foreign = 0
    /\ wrote = [o \in Operators |-> FALSE]
    /\ disturbed = FALSE

-----------------------------------------------------------------------------
(* unitd: reading the subtree at a path, and replacing it.                 *)

Read(t)  == [l \in t |-> cfg[l]]
Put(d)   == [l \in Leaves |-> IF l \in DOMAIN d THEN d[l] ELSE cfg[l]]

(* The findings of the advisory check, as the leaves they point at.        *)
Flags(d) == {l \in DOMAIN d : d[l] \in Suspect}

(* The guided form's merge of the submitted fields into a stored document. *)
Merge(payload, submitted) ==
    [l \in DOMAIN payload |->
        IF l \in Fields /\ ~(submitted[l] = Absent /\ l \in Required)
        THEN submitted[l] ELSE payload[l]]

(* The documents a post from o's page may carry.  The JSON editor posts    *)
(* any document; the guided one posts fields, which the handler merges     *)
(* into what it reads while it handles the post, before any lock is held.  *)
Submissions(o) ==
    LET t == DOMAIN page[o].baseline IN
    IF page[o].mode = "json"
    THEN Docs(t)
    ELSE {Merge(Read(t), s) : s \in Docs(t \cap Fields)}

(* The store with one more snapshot, and what retention leaves of a store: *)
(* the Keep newest names.                                                  *)
Add(n, d) == [m \in DOMAIN snaps \cup {n} |-> IF m = n THEN d ELSE snaps[m]]
KeptOldest(s) == {n \in DOMAIN s : Cardinality({m \in DOMAIN s : m < n}) < Keep}
Kept(s)   == {n \in DOMAIN s : Cardinality({m \in DOMAIN s : m > n}) < Keep}
Prune(s)  == [n \in Kept(s) |-> s[n]]

(* What a save that does not return may leave: nothing, or the document    *)
(* with retention done in part, newest first.                              *)
HalfSaved(o) ==
    \/ UNCHANGED store
    \/ /\ saved' = saved + 1
       /\ LET all   == Add(saved + 1, copy[o])
              stale == DOMAIN all \ Kept(all)
          IN \E gone \in SUBSET stale :
                /\ \A n \in gone, m \in stale \ gone : n > m
                /\ snaps' = [n \in DOMAIN all \ gone |-> all[n]]

Goto(o, from, to) ==
    /\ pc[o] = from
    /\ pc' = [pc EXCEPT ![o] = to]

ReleaseAnyones(o) ==    \* (mutant) unlocking also drops a lock somebody else holds
    /\ lock' = None /\ disturbed' = FALSE
    /\ copy' = [copy EXCEPT ![o] = None]

(* Leaving the lock's context manager, whichever way the block ends.       *)
Release(o) ==
    /\ lock' = IF lock = o THEN None ELSE lock
    /\ disturbed' = IF lock = o THEN FALSE ELSE disturbed
    /\ copy' = [copy EXCEPT ![o] = None]

Answer(o, verdict) ==
    /\ pc' = [pc EXCEPT ![o] = "answered"]
    /\ outcome' = [outcome EXCEPT ![o] = verdict]

-----------------------------------------------------------------------------
(* The operator's window.                                                  *)

(* GET /edit/<path> or /form/<path>: the digest of what is read now is the *)
(* baseline the page carries from here on.                                 *)
Open(o) ==
    /\ Goto(o, "idle", "editing")
    /\ \E t \in Targets, m \in {"json", "guided"} :
        /\ m = "guided" => t \in Guided
        /\ page' = [page EXCEPT ![o] = [mode |-> m, baseline |-> Read(t), findings |-> {}]]
    /\ UNCHANGED <<cfg, lock, req, copy, own, outcome, store, posts, world, wrote, disturbed>>

Cancel(o) ==
    /\ Goto(o, "editing", "idle")
    /\ page' = [page EXCEPT ![o] = None]
    /\ UNCHANGED <<cfg, lock, req, copy, own, outcome, store, posts, world, wrote, disturbed>>

(* A post answered with an error page before anything is looked at: a      *)
(* missing or stale CSRF token, a path the guided form cannot merge into,  *)
(* a value it cannot read.                                                 *)
Reject(o) ==
    /\ pc[o] = "editing"
    /\ Answer(o, "rejected")
    /\ UNCHANGED <<cfg, lock, page, req, copy, own, store, posts, world, wrote, disturbed>>

(* Malformed JSON or a field that does not coerce: the form again, with    *)
(* its baseline, and no findings on it.                                    *)
Unparsable(o) ==
    /\ pc[o] = "editing"
    /\ page' = [page EXCEPT ![o] = [@ EXCEPT !.findings = {}]]
    /\ UNCHANGED <<cfg, lock, pc, req, copy, own, outcome, store, posts, world, wrote, disturbed>>

(* "Check", or "Apply" of a document with findings: the form again, with   *)
(* its baseline, showing the findings.  A page that shows findings has     *)
(* only the button "Apply anyway", which posts confirm=yes.                *)
ReviewRebased(o) ==    \* (mutant) the redisplayed form takes a fresh baseline
    /\ pc[o] = "editing" /\ page[o].findings = {}
    /\ \E d \in Submissions(o) :
        page' = [page EXCEPT ![o] = [@ EXCEPT !.findings = Flags(d),
                                             !.baseline = Read(DOMAIN d)]]
    /\ UNCHANGED <<cfg, lock, pc, req, copy, own, outcome, store, posts, world, wrote, disturbed>>

Review(o) ==
    /\ pc[o] = "editing" /\ page[o].findings = {}
    /\ \E d \in Submissions(o) :
        page' = [page EXCEPT ![o] = [@ EXCEPT !.findings = Flags(d)]]
    /\ UNCHANGED <<cfg, lock, pc, req, copy, own, outcome, store, posts, world, wrote, disturbed>>

(* "Apply" or "Apply anyway" of a document that goes to _commit.           *)
Apply(o) ==
    /\ Goto(o, "editing", "waiting")
    /\ posts < MaxPosts /\ posts' = posts + 1
    /\ \E d \in Submissions(o) :
        /\ Flags(d) # {} => page[o].findings # {}
        /\ req' = [req EXCEPT ![o] = [kind |-> "edit", doc |-> d]]
    /\ UNCHANGED <<cfg, lock, page, copy, own, outcome, store, world, wrote, disturbed>>

(* POST /snapshots/<name>/restore: the snapshot is looked up and loaded    *)
(* first, and the lock asked for only then.                                *)
Restore(o) ==
    /\ Goto(o, "idle", "waiting")
    /\ posts < MaxPosts /\ posts' = posts + 1
    /\ \E n \in DOMAIN snaps :
        req' = [req EXCEPT ![o] = [kind |-> "restore", doc |-> snaps[n]]]
    /\ UNCHANGED <<cfg, lock, page, copy, own, outcome, store, world, wrote, disturbed>>

(* The same for a snapshot that was listed once and has since been pruned. *)
RestoreMissing(o) ==
    /\ pc[o] = "idle"
    /\ \E n \in 1..saved : n \notin DOMAIN snaps
    /\ Answer(o, "missing")
    /\ UNCHANGED <<cfg, lock, page, req, copy, own, store, posts, world, wrote, disturbed>>

(* The operator reads the answer and goes on.                              *)
Dismiss(o) ==
    /\ Goto(o, "answered", "idle")
    /\ page' = [page EXCEPT ![o] = None]
    /\ req' = [req EXCEPT ![o] = None]
    /\ own' = [own EXCEPT ![o] = 0]
    /\ outcome' = [outcome EXCEPT ![o] = None]
    /\ wrote' = [wrote EXCEPT ![o] = FALSE]
    /\ UNCHANGED <<cfg, lock, copy, store, posts, world, disturbed>>

-----------------------------------------------------------------------------
(* The request's worker thread.                                            *)

AcquireUnlocked(o) ==    \* (mutant) the lock is a thread's, not the machine's
    /\ Goto(o, "waiting", IF req[o].kind = "edit" THEN "checking" ELSE "backing")
    /\ lock' = o
    /\ disturbed' = FALSE
    /\ UNCHANGED <<cfg, page, req, copy, own, outcome, store, posts, world, wrote>>

Acquire(o) ==
    /\ pc[o] = "waiting" /\ lock = None
    /\ Goto(o, "waiting", IF req[o].kind = "edit" THEN "checking" ELSE "backing")
    /\ lock' = o
    /\ disturbed' = FALSE
    /\ UNCHANGED <<cfg, page, req, copy, own, outcome, store, posts, world, wrote>>

(* The lock's directory cannot be created.  That is found out before the   *)
(* thread waits, so it is no way out for one that waits forever: it is not *)
(* among the steps of Thread, to which fairness applies.                   *)
LockFails(o) ==
    /\ pc[o] = "waiting"
    /\ Answer(o, "storage")
    /\ UNCHANGED <<cfg, lock, page, req, copy, own, store, posts, world, wrote, disturbed>>

BaselineUnchecked(o) ==    \* (mutant) the digests are never compared
    /\ Goto(o, "checking", "backing")
    /\ UNCHANGED <<cfg, lock, page, req, copy, own, outcome, store, posts, world, wrote, disturbed>>

BaselineHolds(o) ==
    /\ Goto(o, "checking", "backing")
    /\ Read(DOMAIN page[o].baseline) = page[o].baseline
    /\ UNCHANGED <<cfg, lock, page, req, copy, own, outcome, store, posts, world, wrote, disturbed>>

ConflictHolding(o) ==    \* (mutant) the refusal leaves the block without unlocking
    /\ pc[o] = "checking"
    /\ Read(DOMAIN page[o].baseline) # page[o].baseline
    /\ Answer(o, "conflict") /\ UNCHANGED <<lock, disturbed, copy>>
    /\ UNCHANGED <<cfg, page, req, own, store, posts, world, wrote>>

Conflict(o) ==
    /\ pc[o] = "checking"
    /\ Read(DOMAIN page[o].baseline) # page[o].baseline
    /\ Answer(o, "conflict") /\ Release(o)
    /\ UNCHANGED <<cfg, page, req, own, store, posts, world, wrote>>

BackupSubtree(o) ==    \* (mutant) only the subtree being edited is copied
    /\ Goto(o, "backing", "saving")
    /\ copy' = [copy EXCEPT ![o] = Read(DOMAIN req[o].doc)]
    /\ UNCHANGED <<cfg, lock, page, req, own, outcome, store, posts, world, wrote, disturbed>>

(* get_config of the whole document, whatever subtree is being edited.     *)
Backup(o) ==
    /\ Goto(o, "backing", "saving")
    /\ copy' = [copy EXCEPT ![o] = cfg]
    /\ UNCHANGED <<cfg, lock, page, req, own, outcome, store, posts, world, wrote, disturbed>>

Save(o) ==
    /\ Goto(o, "saving", "putting")
    /\ saved' = saved + 1
    /\ snaps' = Prune(Add(saved + 1, copy[o]))
    /\ own' = [own EXCEPT ![o] = saved + 1]
    /\ copy' = [copy EXCEPT ![o] = None]
    /\ UNCHANGED <<cfg, lock, page, req, outcome, posts, world, wrote, disturbed>>

(* The store refuses, before or after the document is written, or while    *)
(* the old ones are removed.                                               *)
SaveFails(o) ==
    /\ pc[o] = "saving"
    /\ Answer(o, "storage") /\ Release(o) /\ HalfSaved(o)
    /\ UNCHANGED <<cfg, page, req, own, posts, world, wrote>>

PutApplied(o) ==
    /\ Goto(o, "putting", "acked")
    /\ cfg' = Put(req[o].doc)
    /\ wrote' = [wrote EXCEPT ![o] = TRUE]
    /\ UNCHANGED <<lock, page, req, copy, own, outcome, store, posts, world, disturbed>>

(* unitd answers a call with an error: the re-read, the copy, the PUT or,   *)
(* once the PUT is executed, the read that verifies an edit.  The page is  *)
(* the same for all of them: "The control API rejected the request".       *)
ApiError(o) ==
    /\ pc[o] \in {"checking", "backing", "putting", "verifying"}
    /\ Answer(o, "refused") /\ Release(o)
    /\ UNCHANGED <<cfg, page, req, own, store, posts, world, wrote>>

(* The client's timeout passes while unitd still has the request: the      *)
(* error leaves the block, the lock with it, and unitd may execute it yet. *)
PutAbandoned(o) ==
    /\ pc[o] = "putting"
    /\ lost < MaxLate /\ lost' = lost + 1
    /\ late' = late \cup {req[o].doc}
    /\ Answer(o, "unreachable") /\ Release(o)
    /\ UNCHANGED <<cfg, page, req, own, store, posts, foreign, wrote>>

(* unitd's success is received.  An edit is verified after the lock is     *)
(* released; a restore is not verified.                                    *)
Acked(o) ==
    /\ pc[o] = "acked" /\ Release(o)
    /\ \/ /\ req[o].kind = "edit"
          /\ pc' = [pc EXCEPT ![o] = "verifying"] /\ UNCHANGED outcome
       \/ /\ req[o].kind = "restore"
          /\ Answer(o, "restored")
    /\ UNCHANGED <<cfg, page, req, own, store, posts, world, wrote>>

Verify(o) ==
    /\ pc[o] = "verifying"
    /\ Answer(o, IF Read(DOMAIN req[o].doc) = req[o].doc THEN "applied" ELSE "differs")
    /\ UNCHANGED <<cfg, lock, page, req, copy, own, store, posts, world, wrote, disturbed>>

UnreachableIgnored(o) ==    \* (mutant) a failed PUT is not raised
    /\ pc[o] = "putting" /\ pc' = [pc EXCEPT ![o] = "verifying"] /\ Release(o)
    /\ UNCHANGED <<cfg, page, req, own, outcome, store, posts, world, wrote>>

(* unitd cannot be reached, or its answer does not arrive.                 *)
Unreachable(o) ==
    /\ pc[o] \in {"checking", "backing", "putting", "acked", "verifying"}
    /\ Answer(o, "unreachable") /\ Release(o)
    /\ UNCHANGED <<cfg, page, req, own, store, posts, world, wrote>>

Thread(o) ==
    \/ Acquire(o) \/ BaselineHolds(o) \/ Conflict(o) \/ Backup(o)
    \/ Save(o) \/ SaveFails(o)
    \/ PutApplied(o) \/ PutAbandoned(o) \/ Acked(o) \/ Verify(o)
    \/ ApiError(o) \/ Unreachable(o)

-----------------------------------------------------------------------------
(* What happens around the requests.                                       *)

(* The worker process is killed: no answer, the kernel drops the lock, and *)
(* a save is left where it was.                                            *)
Crash(o) ==
    /\ pc[o] \in Working
    /\ Answer(o, "died") /\ Release(o)
    /\ IF pc[o] = "saving" THEN HalfSaved(o) ELSE UNCHANGED store
    /\ UNCHANGED <<cfg, page, req, own, posts, world, wrote>>

(* Another client of the control API, which knows nothing of the lock.     *)
ForeignWrite ==
    /\ foreign < MaxForeign /\ foreign' = foreign + 1
    /\ cfg' \in Configs
    /\ disturbed' = (lock # None)
    /\ UNCHANGED <<lock, pc, page, req, copy, own, outcome, store, posts, late, lost, wrote>>

(* unitd gets to a PUT whose client has gone.                              *)
LatePut ==
    /\ \E d \in late : cfg' = Put(d) /\ late' = late \ {d}
    /\ disturbed' = (lock # None)
    /\ UNCHANGED <<lock, pc, page, req, copy, own, outcome, store, posts, lost, foreign, wrote>>

Window(o) ==
    \/ Open(o) \/ Cancel(o) \/ Reject(o) \/ Unparsable(o) \/ Review(o) \/ Apply(o)
    \/ Restore(o) \/ RestoreMissing(o) \/ Dismiss(o)

Next ==
    \/ \E o \in Operators : Window(o) \/ LockFails(o) \/ Thread(o) \/ Crash(o)
    \/ ForeignWrite
    \/ LatePut

Spec == Init /\ [][Next]_vars

(* A thread that can go on does: every call to unitd has a timeout, and a  *)
(* freed flock goes to a waiter.  Operators and the environment owe nothing. *)
FairSpec == Spec /\ \A o \in Operators : WF_vars(Thread(o))

-----------------------------------------------------------------------------
(* Properties.                                                             *)

(* Every variable has the values the code can give it.                     *)
TypeOK ==
    /\ cfg \in Configs
    /\ lock \in Operators \cup {None}
    /\ pc \in [Operators -> Steps]
    /\ page \in [Operators -> Pages \cup {None}]
    /\ req \in [Operators -> Requests \cup {None}]
    /\ copy \in [Operators -> Configs \cup {None}]
    /\ own \in [Operators -> Nat]
    /\ outcome \in [Operators -> Verdicts \cup {None}]
    /\ DOMAIN snaps \subseteq 1..saved /\ \A n \in DOMAIN snaps : snaps[n] \in Configs
    /\ saved \in Nat /\ posts \in 0..MaxPosts
    /\ late \subseteq UNION {Docs(t) : t \in Targets}
    /\ lost \in 0..MaxLate /\ foreign \in 0..MaxForeign
    /\ wrote \in [Operators -> BOOLEAN] /\ disturbed \in BOOLEAN

(* The requests that are between taking the lock and leaving its block are *)
(* the holder, so there is at most one.                                    *)
LockHeld == \A o \in Operators : pc[o] \in Holding <=> lock = o

(* What each step of a request may rely on.  Before the PUT, and as long   *)
(* as only holders of the lock write: an edit's subtree is what its page   *)
(* showed, the copy is the configuration, and so is the request's own      *)
(* snapshot, which retention has not taken.                                *)
RequestOK(o) ==
    /\ pc[o] # "answered" => outcome[o] = None
    /\ pc[o] = "idle" => page[o] = None /\ req[o] = None
    /\ pc[o] = "editing" => page[o] # None /\ req[o] = None
    /\ req[o] # None /\ req[o].kind = "restore" => page[o] = None
    /\ pc[o] \in Working => req[o] # None
    /\ pc[o] \in Working /\ req[o].kind = "edit" =>
          page[o] # None /\ DOMAIN req[o].doc = DOMAIN page[o].baseline
    /\ pc[o] \in Working /\ req[o].kind = "restore" => DOMAIN req[o].doc = Leaves
    /\ pc[o] \in {"backing", "saving", "putting"} /\ req[o].kind = "edit" /\ ~disturbed =>
          Read(DOMAIN req[o].doc) = page[o].baseline
    /\ pc[o] = "saving" => copy[o] # None /\ (~disturbed => copy[o] = cfg)
    /\ pc[o] = "putting" => own[o] \in DOMAIN snaps /\ (~disturbed => snaps[own[o]] = cfg)
    /\ pc[o] \in {"idle", "editing", "waiting", "checking", "backing", "saving", "putting"} =>
          ~wrote[o]
    /\ pc[o] \in {"acked", "verifying"} => wrote[o]
    /\ pc[o] = "verifying" => req[o].kind = "edit"

RequestsOK == \A o \in Operators : RequestOK(o)

(* A request's PUT is executed in this step, while its thread waits for it. *)
Executes(o) == ~wrote[o] /\ wrote'[o]

(* No lost update: when unitd executes an edit, what it replaces is what   *)
(* the operator was shown when the form was opened, whatever the other     *)
(* operators posted, applied and restored in between - as long as every    *)
(* writer takes the lock (writes.py, _commit and its docstring).           *)
NoLostUpdate ==
    [][\A o \in Operators :
          Executes(o) /\ req[o].kind = "edit" /\ ~disturbed =>
              Read(DOMAIN req[o].doc) = page[o].baseline]_vars

(* Every write is undoable: when unitd executes a request's PUT, edit or   *)
(* restore, the whole configuration it replaces is in the store under the  *)
(* name the operator is offered for undoing it, and is not the one         *)
(* retention pruned to make room (_commit, restore, SnapshotStore.save).   *)
SnapshotBeforeWrite ==
    [][\A o \in Operators :
          Executes(o) /\ ~disturbed =>
              own[o] \in DOMAIN snaps /\ snaps[own[o]] = cfg]_vars

(* The answer tells the truth about the write: a request turned away by    *)
(* the interface itself (the form, the conflict check, the store) was not  *)
(* executed, nor was a restore that unitd refused, and what is answered as *)
(* a success was.  Two answers leave the operator not knowing besides a    *)
(* dead worker: "unreachable", and for an edit "refused", because a read   *)
(* that fails after the PUT is answered like a refused PUT (writes.py,     *)
(* _commit's last read; views.py, _api_error).                             *)
TruthfulAnswer ==
    \A o \in Operators :
        /\ outcome[o] \in Refusals => ~wrote[o]
        /\ outcome[o] = "refused" /\ req[o].kind = "restore" => ~wrote[o]
        /\ outcome[o] \in Successes => wrote[o]

(* However often a form is checked, redisplayed with an error or asked to  *)
(* be confirmed, it keeps the baseline it was opened with: redisplaying    *)
(* never adopts the state of the moment (_render_structured's docstring).  *)
BaselineKept ==
    [][\A o \in Operators :
          page[o] # None /\ page'[o] # None => page'[o].baseline = page[o].baseline]_vars

(* Every request is answered, whoever is refused, times out or dies while  *)
(* it waits for the lock: no path out of the block keeps the lock.         *)
EveryRequestAnswered ==
    \A o \in Operators : pc[o] \in Working ~> pc[o] = "answered"

(* What the documentation promises without a condition, and the code does  *)
(* not keep.                                                               *)

(* The edit form's note: a change is refused rather than overwriting       *)
(* someone else's edit.  Not kept when that edit is a PUT of the interface *)
(* itself whose client had given up waiting.                               *)
NothingClobbered ==
    [][\A o \in Operators :
          Executes(o) /\ req[o].kind = "edit" =>
              Read(DOMAIN req[o].doc) = page[o].baseline]_vars

(* The README on the guided form: members it does not manage are carried   *)
(* across untouched.  The document carries those read while the post was   *)
(* handled, and nothing compares them with what the PUT replaces.          *)
UnmanagedUntouched ==
    [][\A o \in Operators :
          Executes(o) /\ req[o].kind = "edit" /\ page[o].mode = "guided" =>
              \A l \in DOMAIN req[o].doc \ Fields : cfg'[l] = cfg[l]]_vars

(* The README on validation: findings warn and ask.  What is applied was   *)
(* not necessarily asked about: "Apply anyway" posts whatever the editor   *)
(* holds by then, with the confirmation already in the page.               *)
FindingsShown ==
    [][\A o \in Operators :
          pc[o] = "editing" /\ pc'[o] = "waiting" =>
              Flags(req'[o].doc) \subseteq page[o].findings]_vars

(* The write path implements the compare-and-swap store: what an operator  *)
(* looked at is their page's baseline until their PUT is executed, what    *)
(* they picked is the snapshot they loaded, the archive is the store.      *)
(* It does so only where nothing writes past the lock (MaxForeign and      *)
(* MaxLate 0).                                                             *)
Cas == INSTANCE ConfigCas WITH
    config  <- cfg,
    archive <- {snaps[n] : n \in DOMAIN snaps},
    seen    <- [o \in Operators |->
                  IF page[o] # None /\ ~wrote[o] THEN page[o].baseline ELSE None],
    picked  <- [o \in Operators |->
                  IF req[o] # None /\ ~wrote[o] /\ req[o].kind = "restore"
                  THEN req[o].doc ELSE None]

(* Every behaviour of the write path is one of the compare-and-swap store. *)
ImplementsCas == Cas!Spec

=============================================================================
