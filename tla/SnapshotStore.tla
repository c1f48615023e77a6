---------------------------- MODULE SnapshotStore ----------------------------
(***************************************************************************)
(* The snapshot store on its file system (snapshots.py): save() writes a   *)
(* document and a sidecar and then prunes, one file operation at a time,   *)
(* failing or dying between any two of them; list, get and load run in     *)
(* other workers meanwhile, and take no lock.  Every caller of save holds  *)
(* the store's lock (_commit and restore in web/writes.py), so there is    *)
(* one saver at a time; ConfigWrites is where that lock is modelled.       *)
(*                                                                         *)
(* A snapshot's name is the clock's reading when it is saved.              *)
(***************************************************************************)
EXTENDS Naturals, FiniteSets

CONSTANTS
    Readers,     \* requests that look a snapshot up and load it
    Documents,   \* configurations
    Missing,     \* no file of that name
    Torn,        \* a file with part of a document, which does not parse
    Keep,        \* snapshot_keep
    MaxTime,     \* bound: readings of the clock
    ClockSteps   \* the clock may be set back

ASSUME StoreAssumption ==
    /\ Keep \in Nat \ {0} /\ MaxTime \in Nat \ {0} /\ ClockSteps \in BOOLEAN
    /\ Missing \notin Documents /\ Torn \notin Documents /\ Missing # Torn

Stamps  == 1..MaxTime
Content == Documents \cup {Missing, Torn}

VARIABLES
    now,       \* the clock
    doc,       \* <stamp>.json
    meta,      \* the stamps with a <stamp>.meta.json
    step,      \* where save() is
    stamp,     \* the name it has given, 0 outside of save
    document,  \* the document it was called with
    stale,     \* what _prune still has to delete
    reader,    \* where each reader is, the name it got and what it loaded
    given      \* (history) the document of the save that created each file

vars  == <<now, doc, meta, step, stamp, document, stale, reader, given>>
saver == <<step, stamp, document, stale>>

SaveSteps == {"idle", "creating", "writing", "annotating", "listing", "pruning", "unlinking",
              "returned"}

(* list(): every document file, readable or not, whatever its sidecar.     *)
Listed == {n \in Stamps : doc[n] # Missing}
Newer(n) == {m \in Listed : m > n}

Idle == [at |-> "idle", name |-> 0, got |-> Missing, expected |-> Missing]

Init ==
    /\ now \in Stamps
    /\ doc = [n \in Stamps |-> Missing] /\ meta = {}
    /\ step = "idle" /\ stamp = 0 /\ document = Missing /\ stale = {}
    /\ reader = [r \in Readers |-> Idle]
    /\ given = [n \in Stamps |-> Missing]

-----------------------------------------------------------------------------
(* save().                                                                 *)

Begin ==
    /\ step = "idle" /\ step' = "creating"
    /\ stamp' = now
    /\ document' \in Documents
    /\ UNCHANGED <<now, doc, meta, stale, reader, given>>

CreateTruncating ==    \* (mutant) opened with O_TRUNC, not O_EXCL
    /\ step = "creating" /\ step' = "writing"
    /\ doc' = [doc EXCEPT ![stamp] = Torn]
    /\ given' = [given EXCEPT ![stamp] = document]
    /\ UNCHANGED <<now, meta, stamp, document, stale, reader>>

(* O_EXCL: only a name nobody has taken.                                   *)
Create ==
    /\ step = "creating" /\ doc[stamp] = Missing
    /\ step' = "writing"
    /\ doc' = [doc EXCEPT ![stamp] = Torn]
    /\ given' = [given EXCEPT ![stamp] = document]
    /\ UNCHANGED <<now, meta, stamp, document, stale, reader>>

Write ==
    /\ step = "writing" /\ step' = "annotating"
    /\ doc' = [doc EXCEPT ![stamp] = document]
    /\ UNCHANGED <<now, meta, stamp, document, stale, reader, given>>

Annotate ==
    /\ step = "annotating" /\ stamp \notin meta
    /\ step' = "listing"
    /\ meta' = meta \cup {stamp}
    /\ UNCHANGED <<now, doc, stamp, document, stale, reader, given>>

ListOffByOne ==    \* (mutant) list()[keep - 1:]
    /\ step = "listing" /\ step' = "pruning"
    /\ stale' = {n \in Listed : Cardinality(Newer(n)) + 1 >= Keep}
    /\ UNCHANGED <<now, doc, meta, stamp, document, reader, given>>

ListOldest ==    \* (mutant) list() sorted oldest first
    /\ step = "listing" /\ step' = "pruning"
    /\ stale' = {n \in Listed : Cardinality({m \in Listed : m < n}) >= Keep}
    /\ UNCHANGED <<now, doc, meta, stamp, document, reader, given>>

ListTooMany ==    \* (mutant) list()[keep + 1:]
    /\ step = "listing" /\ step' = "pruning"
    /\ stale' = {n \in Listed : Cardinality(Newer(n)) > Keep}
    /\ UNCHANGED <<now, doc, meta, stamp, document, reader, given>>

(* list()[keep:], newest first.                                            *)
List ==
    /\ step = "listing" /\ step' = "pruning"
    /\ stale' = {n \in Listed : Cardinality(Newer(n)) >= Keep}
    /\ UNCHANGED <<now, doc, meta, stamp, document, reader, given>>

(* The newest of what is stale goes first, its document before its sidecar. *)
NextStale == CHOOSE n \in stale : \A m \in stale : n >= m

Unlink ==
    /\ step = "pruning" /\ stale # {}
    /\ step' = "unlinking"
    /\ doc' = [doc EXCEPT ![NextStale] = Missing]
    /\ UNCHANGED <<now, meta, stamp, document, stale, reader, given>>

UnlinkMeta ==
    /\ step = "unlinking" /\ step' = "pruning"
    /\ meta' = meta \ {NextStale}
    /\ stale' = stale \ {NextStale}
    /\ UNCHANGED <<now, doc, stamp, document, reader, given>>

Return ==
    /\ step = "pruning" /\ stale = {}
    /\ step' = "returned"
    /\ UNCHANGED <<now, doc, meta, stamp, document, stale, reader, given>>

Leave ==
    /\ step' = "idle" /\ stamp' = 0 /\ document' = Missing /\ stale' = {}
    /\ UNCHANGED <<now, doc, meta, reader, given>>

(* An OSError at any file operation - the name is taken, the disk is full, *)
(* a file cannot be removed - or the death of the worker: what is on disk  *)
(* stays as it is, and the lock is dropped.                                *)
Fail   == step \notin {"idle", "returned"} /\ Leave
Finish == step = "returned" /\ Leave

Save ==
    \/ Begin \/ Create \/ Write \/ Annotate \/ List \/ Unlink \/ UnlinkMeta \/ Return
    \/ Fail \/ Finish

-----------------------------------------------------------------------------
(* Readers: the pages that show, compare or restore a snapshot.            *)

(* get(): the name is looked for in the listing.                           *)
Get(r, n) ==
    /\ reader[r].at = "idle" /\ n \in Listed
    /\ reader' = [reader EXCEPT ![r] =
                    [at |-> "found", name |-> n, got |-> Missing, expected |-> given[n]]]
    /\ UNCHANGED <<now, doc, meta, saver, given>>

LoadUnparsed(r) ==    \* (mutant) what the file holds is taken as it is
    /\ reader[r].at = "found" /\ doc[reader[r].name] # Missing
    /\ reader' = [reader EXCEPT ![r] = [@ EXCEPT !.at = "loaded", !.got = doc[reader[r].name]]]
    /\ UNCHANGED <<now, doc, meta, saver, given>>

(* load(): the file is gone or does not parse, or its document is returned. *)
Load(r) ==
    /\ reader[r].at = "found"
    /\ LET content == doc[reader[r].name] IN
       reader' = [reader EXCEPT ![r] =
                    IF content \in Documents THEN [@ EXCEPT !.at = "loaded", !.got = content]
                                            ELSE [@ EXCEPT !.at = "failed"]]
    /\ UNCHANGED <<now, doc, meta, saver, given>>

Done(r) ==
    /\ reader[r].at \in {"loaded", "failed"}
    /\ reader' = [reader EXCEPT ![r] = Idle]
    /\ UNCHANGED <<now, doc, meta, saver, given>>

Tick ==
    /\ now' \in IF ClockSteps THEN Stamps ELSE {n \in Stamps : n = now + 1}
    /\ UNCHANGED <<doc, meta, saver, reader, given>>

Next ==
    \/ Save
    \/ \E r \in Readers : (\E n \in Stamps : Get(r, n)) \/ Load(r) \/ Done(r)
    \/ Tick

Spec == Init /\ [][Next]_vars

-----------------------------------------------------------------------------
(* Properties.                                                             *)

TypeOK ==
    /\ now \in Stamps
    /\ doc \in [Stamps -> Content] /\ meta \subseteq Stamps
    /\ step \in SaveSteps /\ stamp \in Stamps \cup {0}
    /\ document \in Documents \cup {Missing} /\ stale \subseteq Stamps
    /\ reader \in [Readers -> [at : {"idle", "found", "loaded", "failed"},
                               name : Stamps \cup {0}, got : Documents \cup {Missing},
                               expected : Documents \cup {Missing}]]
    /\ given \in [Stamps -> Documents \cup {Missing}]

(* A snapshot that loads is the whole configuration that was saved under   *)
(* the name when it was looked up: not a part of it, and not another one - *)
(* although the reader takes no lock and the writer's file is visible      *)
(* before it is complete.  This is what restore puts into unitd.           *)
LoadsWhatWasListed ==
    \A r \in Readers : reader[r].at = "loaded" => reader[r].got = reader[r].expected

(* When save() returns, the snapshot it returns is on disk and whole: the  *)
(* pruning it ends with has not taken it.  The undo link points at it.     *)
SavedIsStored == step = "returned" => doc[stamp] = document

(* When save() returns, no more than Keep snapshots are listed, whatever   *)
(* earlier saves that failed half way left behind.                         *)
Retention == step = "returned" => Cardinality(Listed) <= Keep

(* A snapshot disappears only when Keep newer ones are listed: no failing  *)
(* save, and no crash in the middle of pruning, costs one that is within   *)
(* the limit.                                                              *)
OnlyStaleDisappear ==
    [][\A n \in Stamps :
          doc[n] # Missing /\ doc'[n] = Missing => Cardinality(Newer(n)) >= Keep]_vars

(* What readers are promised (SnapshotArchive): a name stands for what it  *)
(* was given for, and its configuration is there while its file is whole.  *)
Whole == {n \in Stamps : doc[n] \in Documents}
Seen  == [r \in Readers |-> [at |-> reader[r].at, name |-> reader[r].name, got |-> reader[r].got]]

Archive == INSTANCE SnapshotArchive WITH stands <- given, whole <- Whole, reader <- Seen

(* The store implements that archive, if the clock is not set back: files  *)
(* that are created, filled and unlinked one call at a time, by saves that *)
(* fail anywhere, look to lock-free readers like named configurations that *)
(* come whole, keep their name and go when Keep later ones were named.     *)
ImplementsArchive == Archive!Spec

=============================================================================
