# freeunit-ui in TLA+

freeunit-ui is a web interface to the control API of unitd. With writes enabled it lets several
operators edit one configuration that other programs may edit too, through an API that has no
compare-and-swap, no undo and no idea who is asking. This project models how it does that and
checks what its documentation promises.

Paths below are relative to the repository; Python modules are under `src/freeunit_ui/`.

## Inventory

| Component | State it keeps | Operations | Talks to |
|---|---|---|---|
| Write views (`web/writes.py`) | none on the server: the form's hidden fields (baseline digest, confirmation) and the request being handled | `edit`, `apply`, `form`, `form_apply`, `_commit`, `restore`, `restart`, `certificate_upload`, `diff` | control API client, snapshot store, validation, forms, CSRF |
| Snapshot store (`snapshots.py`) | a directory of documents and sidecars, a lock file | `save`, `list`, `get`, `load`, `lock`, `_prune` | the file system; shared by every worker |
| Control API client (`unit/`) | a connection | `get_json`, `get_config`, `put_json`, `restart_application`, `put_certificate` | unitd, with a timeout per call |
| Guided forms (`web/forms.py`) | none | `build`, `merge`, `_coerce` | specification lookup |
| Specification (`schema/`) | the bundled document, read once | `describe`, `check`, `raw_properties`, scaffolds | - |
| CSRF (`web/csrf.py`) | a token in the session cookie | `issue_token`, `validate` | Flask's session |
| Identity (`web/auth.py`, `security.py`) | none | the gate before each request, response headers | the proxy's header |
| Read views (`web/views.py`) | none | dashboard, `config`, `references`, certificates, error answers | client, snapshot store |
| References, diff, paths (`references.py`, `diff.py`, `web/paths.py`, `pointers.py`) | none | `analyse`, `compare`, splitting and escaping | - |
| Construction (`app.py`, `settings.py`, `extensions.py`, `wsgi.py`, `__main__.py`) | settings | at start only | environment |
| Templates, models, scaffolds, tools | - | declarations, layout, development scripts | - |

Workers are processes with several threads. They share the snapshot directory and unitd, and
nothing else; the flock on the directory's `.lock` is the only synchronisation. A write request
runs: validate the token; parse or merge; check against the specification, perhaps asking for
confirmation; take the lock; re-read the subtree and compare it with the page's baseline; copy the
whole configuration; save it; PUT; release the lock; read back; answer.

What is hard, and what must hold of each part:

* **Write views.** Requests of several operators interleave at every call; forms are minutes old
  when posted; calls fail or time out without telling whether unitd acted; workers die. An executed
  edit must replace what its operator saw, be undoable, and be answered truthfully.
* **Snapshot store.** `save` is five or more file operations, any of which can fail or be the last;
  readers take no lock; names come from the wall clock. What is loaded must be what was saved, the
  snapshot just taken must survive its own pruning, the limit must hold again after failures.
* **Forms and specification.** An untouched form posted back must change nothing; what the
  specification does not know must survive; a value must come back with its type. The check warns
  and never refuses, so it must not cry wolf, and must not miss what it could see.
* **CSRF and the gate.** A token from one window must be accepted in another; none from elsewhere,
  or from before the signing key changed, may be. The key, the cookie and the page change at
  different times.
* **Unsnapshotted operations.** A restart and an upload are one call whose answer may be lost: the
  operator must not be told that what happened did not.
* **Read views.** A page made of two reads can describe a state that never existed.
* **References and diff.** What can be reached and is not there must be reported; what is in use must
not be called unused; a difference must be listed, and once, as far as Python's equality sees one.

`PROJECT.json` lists every hazard at its line with the properties that would catch it.

## Plan

In the order of importance, and all done:

1. `ConfigWrites`: the write path, with `ConfigWritesProofs`.
2. `ConfigCas`: what the write path promises, and `ConfigWritesRefines`, the proof that it is
   implemented.
3. `SnapshotStore`: the store's file operations, with `SnapshotStoreProofs`.
4. `SnapshotArchive`: what the store promises its readers, and the proof, in `SnapshotStoreProofs`.
5. `Documents`, `Specification`, `Validation`, `GuidedForm`: the guided editor over documents of
   every JSON type, with `GuidedFormProofs`.
   `Validity` is what a valid document is, and `SpecificationProofs` that the check agrees.
6. `Operations`: windows, sessions, the gate, and what needs no baseline, with `OperationsProofs`.
7. `References` and `Diff`: the pure algorithms, checked inside the two state machines whose pages
   show their results, and proved about in `DiffProofs` and `OperationsProofs`, from `Induction`.

Left for later: the comparison page of two named snapshots (two lock-free loads; `SnapshotArchive` has
one per reader), the scaffold a new document starts from, the status page's models, and the
splitting and quoting of paths; each of these is small, and none takes part in a hazard of the list.

## Modules

### `ConfigWrites` and `MCConfigWrites`

A configuration is a function from *leaves* to values or `Absent`; a document is such a function on
the leaves below one path, so the path is its domain, and overlapping paths share leaves. A digest
is the document it is computed from (sha256 of canonical JSON is taken to be injective). An absent
path and an empty object are the same document. `get_json` of a path is `Read`, a PUT is `Put`.

Each operator has at most one form and one request. `pc[o]` is the place in the code:

| `pc` | code |
|---|---|
| `idle`, `editing` | no form; a form from `edit` or `form` is open, `page[o]` its hidden fields |
| `waiting` | in `flock` (`snapshots.py:143`) |
| `checking` | holds the lock, before the re-read (`writes.py:186`) |
| `backing` | before `get_config` (`writes.py:196`, `441`) |
| `saving` | before `save` writes |
| `putting` | before unitd executes the PUT |
| `acked` | unitd has executed it, the answer is on its way; still holds the lock |
| `verifying` | lock released, before the read-back (`writes.py:202`) |
| `answered` | `outcome[o]` is what the operator was told |

`Open`, `Cancel`, `Reject`, `Unparsable`, `Review`, `Apply`, `Restore`, `RestoreMissing` and
`Dismiss` are the window; `Acquire` to `Unreachable` are the worker thread; `Crash`, `ForeignWrite`
and `LatePut` are the environment. A page that shows findings has only the button *Apply anyway*,
which posts `confirm=yes` whatever the textarea holds by then: `Apply` follows the template.
The guided form's post reads the value it merges into when it is posted (`writes.py:271`), not when
the form was opened and not under the lock: `Submissions` does too. `Release` is the lock's
`finally`. `PutAbandoned` leaves the document in `late`, where unitd may still execute it.
`ApiError` is unitd's error answer to any of the calls of a request, the read-back at
`writes.py:202` included: `_api_error` shows one page for all of them, "The control API rejected the
request", so an edit whose PUT was executed can be answered as one that was refused.

`wrote` and `disturbed` are history: the request's PUT was executed while its thread waited, and
the configuration was written past the lock while it was held. Several properties are stated for
`~disturbed`, because no program can promise more over an API without compare-and-swap; the runs
with `MaxForeign` and `MaxLate` 0 make the condition true throughout.

### `ConfigCas`

What the operators are promised, without locks, requests or files: look at a subtree, and replace
it once if it still is what you saw; pick an archived configuration and bring it back; neither
unless what is replaced is archived. `Cas` in `ConfigWrites` is the mapping: what an operator saw is
their page's baseline until their PUT is executed, the archive is the set of stored snapshots.

### `SnapshotStore`, `SnapshotArchive` and `MCSnapshotStore`

One action per file operation of `save` and `_prune`; `Fail` before any of them, for an `OSError`
and for the death of the worker alike, as both leave the files as they are. A created file is
`Torn` until it is written. `Listed` is `list()`, which takes every document file. Readers do `get`
and `load` as two steps without the lock. There is one saver because every caller of `save` holds
the lock, which is `LockHeld` in `ConfigWrites`.

`SnapshotArchive` is the store as its readers may think of it: a name stands for one configuration for
ever, that configuration comes whole and once or never, and none of the `Keep` latest is dropped. The
mapping in `SnapshotStore` takes a name as given once its file is created and its configuration as
there while the file is whole; writing the sidecar, listing and the second unlink are stutters. The
store implements it while the clock is not set back.

`ConfigWrites` has `save` as one step. A save that fails, or dies, may have written its document and
removed some of the stale ones (`HalfSaved`). What is left out is the torn file that a failed save can
leave behind and that counts towards retention; `SnapshotStore` has it, and `Retention`,
`OnlyStaleDisappear` and `SavedIsStored` hold with it.

### `Documents`, `Specification`, `Validation`, `Validity`, `Diff`

A JSON value is `<<type, content>>`, with the two number types of Python told apart and a float's
content counted in halves, so that `2`, `2.0` and `1.5` differ where the code tells them apart and agree
where Python does (`PyEqual`: `True == 1 == 1.0`). A text is tagged by how it reads: as an integer, as a
float, or as words with or without white space around them. That is what coercion, stripping and
the first-word rule look at. A position is a sequence of member names.

The specification is a graph: `Spec` gives each schema node its keywords. `Resolve` (`$ref`, `allOf`,
cycles), `Descend`, `SelectBranch`, `TypeNames` and `AcceptedTypes` are the functions of
`schema/__init__.py`; `Describe(path, v)` is what `describe` and `raw_properties` both give. `Findings`
is `check`, down to `CheckDepth`. A union's options are `anyOf`, and the flag `oneOf` says which keyword
has them: `_type_name` and `accepted_types` read either, `_select_branch` only `anyOf`. `Compare` is
`diff.compare`, down to `DiffDepth`; `Different` is where two documents differ as JSON, as the
digest of a baseline tells them apart, and `Blurred` those of these positions at which only the type
of a number differs (1, 1.0, true), which Python's equality does not see. None of these
modules uses `RECURSIVE`, so that `GuidedForm` can be proved about; recursion is a recursive function
or, for what is reached in a document, its levels (`Below`).

`BundledAssumption` is what the bundled `schema/unit-openapi.json` looks like: it is finite, a `$ref` has no
keyword beside it that could disagree with it, an `enum` is one of texts, what `allOf` combines combines nothing
further inline, an option of a union is no inline union, and either all options of a union have a type or none
has one. Where it is cited, the theorem is about specifications of this form; the code does not check
the form.

`Validity` is an account of a valid document that shares nothing with the lookup: judgements that what is at a
position is valid for a node are `Consistent` when each keyword of each node allows its own, given the
others. A document is valid when it is so by the judgements that stay when all that is refuted has gone
(`Judged`). The applications' union is discriminated by the type, as unitd does it. `StrayType` is where the lookup
leaves this reading: the branch of an application is taken in any union, as soon as an object there has a
member `type` with an application's name.

### `GuidedForm` and `MCGuidedForm`

One operator, one path, one form. `Open`, `Fill`, `Cancel` are the browser; `Refuse`, `Reject` and
`Accept` (with `Review`, `Conflict`, `Commit`) are the answers of `form_apply`; `Foreign` is every
other writer. A post is one step: its interleaving with others is the subject of `ConfigWrites`.
`Kind`, `Fields`, `AsText`, `Coerce` and `Merge` are `forms.py`. `Control` is what the page's
control posts when nobody touches it, which is `form.html` and the browser: a select posts one of its options,
a number input drops what is no number. The page's fields `touched` and `since` are history, for the
properties. `MCGuidedForm` has an excerpt of the bundled specification with its inheritance, its union of
application types, a union of scalar and container, and the access log, a text or an object. An application has the objects
`limits` and, as an option, `processes`, one of the documents with a mistake inside.

### `References`, `Operations` and `MCOperations`

Several windows of one browser, each with at most one request. A request carries the cookie of the
moment it is sent (`Request`); the cookie holds a token and is bound to the key it is signed with
(`Session`); answers bring cookies and pages when they arrive (`Receive`), in any order.
`Unauthenticated`, `NotRegistered`, `TooLarge`, `RejectToken` and `AskAgain` are the early returns in the
order of the code, and `settings` decides which exist. `Forward` sends a restart or a bundle to
unitd; `CarryRestart` and `CarryUpload` are unitd, which may act before or after the client has given
up (`Lost`, `Due`); `Relayed` is the answer. `Rekey` is a restart of the processes with another key.
The references page reads the configuration and then the certificates, with anything in
between; `seen` is what was so in the meantime, moment by moment. `raced` is history: two windows began a
session at once, or the key changed while an answer with a cookie was under way. In these cases one
cookie replaces the other and the form of the loser is refused; the code accepts that, and the
property says so.

`References` is `analyse`, with the fallbacks of actions and of routes reached through other routes, and
next to it `Served`: how Unit itself hands a request on.

## Runs

| Run | Instance | Shows |
|---|---|---|
| `commits` | 2 operators, 2 leaves (one managed by the guided form), 2 paths, 1 value or absent, `Keep` 1, 2 posts, 1 foreign write, 1 late PUT | types, the inductive invariant, no lost update, every write undoable, answers true but for those that say nothing, a redisplayed form keeps its baseline |
| `calm` | the same without foreign writes and late PUTs, 3 posts, the managed leaf required | the write path implements `ConfigCas`; every request is answered |
| `store` | 4 clock readings, 2 documents, 1 reader, `Keep` 2 | loads are whole and the right ones; the saved snapshot survives; the limit holds; only what is stale goes; `SnapshotArchive` is implemented |
| `guided` | 3 paths, 4 to 6 documents each, 2 controls changed, 2 foreign writes | a guided apply keeps what it does not manage, what is required and what was left alone; coerced values fit; `check` agrees with `Validity` on what it can see, `compare` with what differs at a position by more than a number's type |
| `operations` | 2 windows, 2 configurations, 1 certificate, 4 uploads, 3 requests, 2 sessions, 1 key change, 2 foreign changes | forms keep working, only present forms reach unitd, answers are true, the references page tells the truth |
| `late_put` | `commits` without the foreign write | a timed-out PUT is overwritten unseen: violates the edit form's note |
| `stale_merge` | `calm`, safety only | a guided commit brings back undone members: violates the README |
| `unseen_findings` | every value suspect | findings nobody saw are applied: violates the README |
| `clock_back` | as `store`, `Keep` 1, the clock may step back | `save` prunes what it just wrote: violates its docstring |
| `untouched` | `guided` with 1 foreign write | a select drops the version of `python 3` from a form nobody touched: violates `docs/architecture.md` |
| `switched_type` | `guided` with 1 foreign write | members the page lists as left untouched are removed after a change of type and a check: violates the page's own words |
| `stray_type` | the access log | an access log with a member `type` is checked as an application: violates the docstring of `is_certain` |

The last seven runs end in a violation of what a document or a page of the repository says; `PROJECT.json` quotes each under `findings`.

Three properties of passing runs state an exception that the repository's words do not make:

* `TruthfulAnswer`. "Unreachable" leaves the operator not knowing, and so does, for an edit, the page
  of a refused PUT, because a failing read-back is answered with it. What does hold: a request turned
  away by the interface itself was not executed, a restore answered as refused was not, and what is answered
  as a success was.
* `DiffExact`. A change from one of 1, 1.0 and true to another is not listed; the docstring of
  `diff.py` (lines 76 and 83) promises every difference, and that an empty list means identical.
* `NothingOverlooked`. The check does not look into the objects inside an application: `_descend`
  looks for them among the members of `configApplication` itself, an `anyOf` that has none, and
  finds nothing. `CHANGELOG.md:58` says "including inside nested objects", which is not so in an
  application. `Visible` is the document without what the lookup has no node for. Without it the run
  violates the property, by the stored application whose `limits` hold a text for a number.

Bounds. Two operators are enough for every race of the lock, since a third only waits; a value that
is there or not gives each leaf two states, which is what the conflict check, the merge and the
undo tell apart; `Keep` 1 makes every save prune. Three posts allow a change, its undo and a commit
built on what lay between. Checks, redisplays and openings are not bounded. The
findings on a page multiply the states without taking part in a race, so `commits` and `calm` have no suspect values:
a form that is confirmed is in `unseen_findings`, and the theorems about `ConfigWrites` hold for any. In `store`, four clock
readings with `Keep` 2 give two saves beyond the limit, and failed saves take part of them.
`SYMMETRY` is used in safety runs only.

In `guided` the documents under `settings` nest three members deep, so that `DiffDepth` and `CheckDepth`
2 stop walks inside a document, as 12 and 6 do in the code for deeper ones; `MaxNest` 3 reaches the
bottom of each. Two changed controls give a change of type together with a change of a member; two
foreign writes move the stored document away and back while a form is open. In `operations` three
requests make the shortest histories that matter complete: a page, its post, and something of the
other window in between or after. Two sessions are what two windows can begin, and one change of key
gives every cookie and page an old and a new one.

Deadlock is checked in every run but `operations`, where a browser that has sent `MaxRequests` stops.

Fairness. Only `ConfigWrites` has a liveness property; the other modules state safety. `FairSpec` asks
weak fairness of `Thread(o)`: a thread that can take its next step does, because every call to unitd
has a timeout and file operations end. Waiting for the lock needs no strong fairness here since posts
are bounded. Nothing is asked of operators, of `LockFails`, of crashes or of unitd: no request depends
on them to be answered.

## Proofs

For any operators, leaves, values, paths, retention limit and bounds, from `SortsAssumption`,
`NoneAssumption` (model values are distinct from data; a guided path is a path; the root can be
edited) and `BoundsAssumption` (`Keep` is at least 1, as the settings enforce).

`ConfigWritesProofs` proves `IInv == TypeOK /\ LockHeld /\ RequestsOK /\ TruthfulAnswer` inductive.
The properties are not inductive by themselves: `NoLostUpdate` needs to know, at the PUT, that
nothing has changed since the comparison, hence that nobody else is in the block (`LockHeld`) and
that between `backing` and `putting` the subtree is the baseline; `SnapshotBeforeWrite` needs the
copy to be the configuration, the snapshot to be the copy, and the newest name to survive pruning
(`NewestKept`). `RequestOK` says what each place in the code may rely on. Its step is proved in two
halves: a request's own step (`OwnStep`), and the frame (`RequestFrame`, `OthersFrame`,
`UnlockedWriteFrame`): nobody else's step disturbs what the lock's holder relies on.
From it follow `Typing`, `OneHolder`, `AnswersAreTrue`, `NothingLost`, `AlwaysUndoable` and
`BaselinesKept`. `AnswersAreTrue` is about the answers that say something: nothing is proved of an operator told
"unreachable", of one whose worker died, or of one whose edit was "refused".

`ConfigWritesRefines` proves `WritesImplementCas`: with `MaxForeign` and `MaxLate` 0 every step maps
to a step of `ConfigCas` or a stutter.

`SnapshotStoreProofs` rests on `StoreAssumption` (`Keep` at least 1, file states distinct) and has
two inductive invariants. `PruneInv`: from the listing to the last unlink, what is kept is at most
`Keep` and what is to go has `Keep` newer ones among it. That the listing makes such a choice is
`KeptAreFew` (look at the oldest kept) and `KeptAreNewer` (look at the newest of the stale that is no
older than a given one); `NewestExists` gives those from the well-foundedness of the naturals.
`WithinLimit` and `NewestSurvive` follow, for any clock. `NameInv`: a name is given to one document
only, because a name that is gone has been superseded by a later one and a save's name is no earlier
than any given. It needs a clock that is not set back (`clock_back` is the counterexample), and gives
`LoadsAreWhole` and `SavedStays`. That there is one saver is the model's assumption, which
`OneHolder` proves of the callers.

The module's last part proves `StoreImplementsArchive` from the same invariants, for a clock that is not
set back: creating a file takes a name later than all given ones (`NameInv`), an unlink takes one
with `Keep` newer (`PruneInv`), and a reader that found a name loads what it stands for or fails.

`ConfigWritesProofs.StepsRelyRightly` states the request part of the invariant by itself.

`GuidedFormProofs` holds for any specification, stored documents, inputs and bounds (`SpecAssumption`,
`FormAssumption`: the graph is closed, the documents are documents that nest no deeper than `MaxNest`,
a path is a sequence of names). `FrameHolds` and `RequiredHolds` need no invariant beyond the types: they
follow from what `Merge` keeps (`MergeMembers`). `UntouchedHolds` does: `Remembers` says that a control that
was there all along and was left alone still shows the baseline's value, through any redisplay; a commit means
that the stored document is the baseline; and a value its control shows faithfully comes back as it
was (`FaithfulReturns`, `ControlIdempotent`).

`CoercedFitsHolds` brings together the three parts of the code that each read a member's type in their own way:
the choice of a control (`_kind`, over `TypeNames`), the coercion of its text, and the types the check
accepts (`accepted_types`). `NamedIsAccepted` says that a value of a type named in `TypeNames` is accepted;
`CoercedIsAccepted` carries it to the coerced value, and `MemberFindings` says what a finding about a member
of the document itself means. The post is merged by the
stored document's branch, judged by the merged document's, and the page was drawn from a third, so two
facts are needed beyond `IInv`: `SelectInv`, that a select posts an option of its page; and
`AgreementAssumption`, that application types which have a control for a member of the same name agree on
its type and enum. The latter is a property of the bundled specification (`options` differs between `java`
and `php`, and is a control of neither), not of the code: with a specification that broke it, a
change of type could store a value the check objects to.

`SpecificationProofs` is about the lookup and the check, for any specification of the bundled form. First, what the
recursions are: `ResolveIs` and `AcceptedTypesIs` give their equations, which need an argument as the graph may
have cycles. A name is followed once, so each step looks at what has less ahead of it (`StepLooksAhead`,
`ResolveLooksAhead`), and `Recursion` does the rest. Then `CheckSound`: the check calls nothing a likely mistake in a
document that is valid, at any path and to any depth. The argument follows the check on its way: what it looks
at is judged valid for the node it looks it up by. That holds at the path (`NodeAtAppend` takes the path and the way
inside the document apart), it is handed on from a node to what `_descend` finds (`DescendJudged`) and to the
branch `_select_branch` takes (`BranchJudged`, where the document's own type must decide as the discriminator
does), and so it holds wherever `_check` is called (`CheckedJudged`). There, what a node requires and the node of each
member, through `$ref` and `allOf`, are fulfilled by a valid value (`ResolveFulfilled`), whose type is accepted
(`ValidAccepted`) and whose text is in the enum (`ValidInEnum`): nothing is left to report but unknown members
(`NothingCertainAt`). `CheckSound` asks for any consistent judgements and so does not depend on how
`Valid` finds them; `JudgedAll` shows that for finite documents it finds the largest, so that no document is
called invalid for want of a better search. `NoFalseAlarmHolds` is `CheckSound` for all that the editor meets. `StrayType` is
the exception, and `stray_type` the counterexample without it.

`DiffProofs` proves `CompareExact`: for any two documents that nest no deeper than `MaxNest`, and
any `DiffDepth`, something differs by more than a number's type at or below every reported position, which has
the right kind and is not below another, and every such difference is at or below a reported one;
nothing is reported exactly when there is none. What differs is `Different`, which does not use Python's
equality; `DifferMeans` is the bridge between the two. `NumbersBlur` proves that the exception is real: of
one number in two types nothing is reported though they differ. `DiffExactHolds` is `CompareExact` for
all the editor meets, from `IInv`: a merge nests no deeper than what it merges into (`MergeNested`). The
argument goes by positions. `PositionsFacts` and `Downward` are the induction: the root is a position and any other
is a position with one of its members appended, so that what holds of the root and is handed on to members
holds everywhere. `PositionsBelow` says what the positions of what is at a position are; with it `EqualMeans`
turns Python's equality into agreement at every position below. `WalkedFacts` and `AboveWalked` say which
positions `_walk` is called for: those it descends to all the way from the root. `NothingMissed` follows the
way to a difference: as long as nothing on it is reported the walk goes on, and it cannot reach the end.

`Induction` has induction over the naturals in terms of a set: the library states it for an operator
parameter, which the provers here cannot instantiate, and membership in `{n \in Nat : ...}` says the
same of any one property. `NatSet` follows from the well-foundedness of `<`, `UpTo` is its form on `0..N`,
`IteratesExist` gives the function that a recursion on `0..N` defines, and `Recursion` the one that a
recursion defines when each step looks only at what has a smaller measure.

`OperationsProofs` holds for any windows, configurations, uploads and bounds (`OperationsAssumption`: a
configuration has finitely many named routes). `IInv` says where tokens come from (`Known`: whatever carries
a token carries it with the key it was created under) and what a request has been through by its
step (`Progress`); `ChangesAuthorisedHolds` and `AnswersTrueHolds` follow. `PostsHonouredHolds` needs a second
invariant, `Sessions`: unless `raced`, there is at most one token of the present key, and it is in the
browser's cookie or in the one answer that brings it. `ReportTrueHolds` and `RoutingSoundHolds` are about
the references page: that it saw something before it answered is `Progress`, and `ReportSeen` takes
from it the configuration the page read and the certificates it read. `ServedIsMentioned` shows by
induction over hand-overs that whatever Unit can hand a request to is mentioned in a listener or a
step, `MentionedIsReported` that `analyse` has a reference for it, and `AbsentIsBroken` that one which is
not there is reported broken.

Only model-checked, among what the passing runs check: `EveryRequestAnswered`, since liveness under fairness
and `ENABLED` are out of the prover's reach; and `NothingOverlooked`, that the check misses no mistake, which
is true of the run's paths and documents and not of every specification: it speaks of what the lookup
reaches (`Visible`), and even there the check does not look into the
options of a union that is not of applications, nor at members only `additionalProperties`
describes, nor at a member that a later part of `allOf` overrides, nor for a required member that no part declares. The properties of the last
seven runs are refuted.

## Not modelled

See `components` in `PROJECT.json` for each part. In short:

* `paths.py` and `pointers.py` split, quote and refuse single segments; the models address documents by
  segments already, and no state depends on them.
* `unit/models.py`, `schema/scaffolds.py` and `unit/transport.py` are declarations and constants; the
  status page shows one read.
* The comparison of two named snapshots: the comparison itself is `Diff`, the loads are `SnapshotStore`.
* Response headers, permissions of the directory, the text of reasons, authors and messages, TLS
  material and the layout of pages have no state the properties speak of.
* A worker pool of fixed size: requests waiting in `flock` occupy threads, and how many there are is the
  deployment's choice.
* A pass `applications/<name>/<target>`, and the JSON document `null` as a payload, are in the list of
  hazards with a note and are outside the instances.
* `tools/` are development scripts.
