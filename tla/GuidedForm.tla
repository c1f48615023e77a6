----------------------------- MODULE GuidedForm -----------------------------
(***************************************************************************)
(* The guided editor (web/forms.py, form.html, form and form_apply of      *)
(* web/writes.py): a form is built from a stored document, shown as        *)
(* controls by a browser, changed by an operator, and merged into what is  *)
(* stored when it comes back.  A post is one step here, from the read it   *)
(* merges into to its PUT: ConfigWrites has the steps in between.          *)
(***************************************************************************)
EXTENDS Validity, Diff

CONSTANTS
    Paths,       \* paths the editor is opened at
    Stored,      \* for each path, the documents other writers store there
    Inputs,      \* for each kind of control but selects, what operators enter
    None,        \* no page, no answer
    MaxTouched,  \* bound: controls an operator changes on one page
    MaxForeign   \* bound: writes by others while a form is open

ASSUME FormAssumption ==
    /\ DOMAIN Stored = Paths /\ Paths \subseteq Seq(STRING)
    /\ \A p \in Paths : \A v \in Stored[p] : TypeOf(v) \in Types /\ Nested(v)
    /\ None \notin {"applied", "conflict", "error"}
    /\ MaxTouched \in Nat /\ MaxForeign \in Nat

VARIABLES
    path,       \* the path being edited
    doc,        \* what unitd holds there, Null when nothing
    page,       \* the form in the operator's browser
    answer,     \* the answer that ended the last form
    foreign     \* how many writes others made since the form was opened

vars == <<path, doc, page, answer, foreign>>

Init ==
    /\ path \in Paths
    /\ doc \in Stored[path]
    /\ page = None /\ answer = None /\ foreign = 0

-----------------------------------------------------------------------------
(* build: the members of v the form has a control for, and the others.     *)

Editable == {"string", "integer", "number", "boolean"}

(* _kind, of the member a schema node describes.                           *)
Kind(n) ==
    LET names == TypeNames[n] IN
    IF Spec[n].enum # {} THEN "enum"
    ELSE IF \E t \in Editable : names = {t} THEN CHOOSE t \in Editable : names = {t}
    ELSE IF "string" \in names /\ names \subseteq Editable \cup {"array", "object"} THEN "string"
    ELSE "other"

(* The application types that have a member of one name and have a control *)
(* for it agree on it: in the bundled specification they do.               *)
Branches(p) ==
    LET n == NodeAt(p) IN
    IF n = NoNode THEN {} ELSE IF n \in Unions THEN {n, Common} \cup Range(AppSchemas) ELSE {n}

ASSUME AgreementAssumption ==
    \A p \in Paths : \A b, c \in Branches(p) :
        LET had == Resolved[b].props  has == Resolved[c].props IN
        /\ Range(had) \subseteq Nodes
        /\ \A m \in DOMAIN had \cap DOMAIN has : Kind(had[m]) # "other" =>
            /\ Kind(has[m]) = Kind(had[m]) /\ Spec[has[m]].enum = Spec[had[m]].enum
            /\ Accepted[has[m]] = Accepted[had[m]]

FieldsDeclared(v) ==    \* (mutant) the declared type alone decides
    LET props == Describe(path, v).props IN
    {m \in DOMAIN props : Kind(props[m]) # "other"}

Fields(v) ==
    LET props == Describe(path, v).props IN
    {m \in DOMAIN props : Kind(props[m]) # "other" /\ TypeOf(Get(v, m)) \notin {"array", "object"}}

Field(n) == [kind |-> Kind(n), choices |-> Spec[n].enum]
FieldFor(v, m) == Field(Describe(path, v).props[m])

Required(v) == Describe(path, v).required

(* What the page says it leaves untouched.                                 *)
Preserved(v) == IF Described(path, v) THEN Members(v) \ Fields(v) ELSE {}

(* _as_text; it never sees a container.                                    *)
AsText(v) ==
    CASE TypeOf(v) = "null"    -> Blank
      [] TypeOf(v) = "boolean" -> Words(<<IF v[2] THEN "true" ELSE "false">>)
      [] TypeOf(v) = "integer" -> <<"int", v[2]>>
      [] TypeOf(v) = "float"   -> <<"float", v[2]>>
      [] TypeOf(v) = "string"  -> v[2]
      [] OTHER                 -> Words(<<TypeOf(v)>>)

-----------------------------------------------------------------------------
(* The browser: what the control of a field posts when nobody touches it.  *)
(* A select posts its selected option, an input of type number drops what  *)
(* is no number.                                                           *)

Truths == {Words(<<"true">>), Words(<<"false">>)}
Options(choices) == {Words(<<c>>) : c \in choices}

Control(field, t) ==
    CASE field.kind = "enum" ->
            IF t[1] = "words" /\ t # Blank /\ FirstWord(t) \in field.choices
            THEN Words(<<FirstWord(t)>>) ELSE Blank
      [] field.kind = "boolean" -> IF t \in Truths THEN t ELSE Blank
      [] field.kind \in {"integer", "number"} -> IF t[1] \in {"int", "float"} THEN t ELSE Blank
      [] OTHER -> t

(* What an operator can make of the control of a field.                    *)
Entries(field) ==
    CASE field.kind = "enum"    -> Options(field.choices) \cup {Blank}
      [] field.kind = "boolean" -> Truths \cup {Blank}
      [] OTHER                  -> Inputs[field.kind]

-----------------------------------------------------------------------------
(* merge: the submitted texts into the document v.                         *)

Bad == <<"error", 0>>

CoerceText(kind, raw) ==    \* (mutant) what reads as no number is stored as it is
    LET t == Strip(raw) IN
    CASE kind = "integer" ->
            IF t[1] = "int" THEN <<"integer", t[2]>>
            ELSE IF t[1] = "float" /\ t[2] % 2 = 0 THEN <<"integer", t[2] \div 2>>
            ELSE Text(t)
      [] OTHER -> Text(t)

(* _coerce and _coerce_integer.                                            *)
Coerce(kind, raw) ==
    LET t == Strip(raw) IN
    CASE kind = "integer" ->
            IF t[1] = "int" THEN <<"integer", t[2]>>
            ELSE IF t[1] = "float" /\ t[2] % 2 = 0 THEN <<"integer", t[2] \div 2>>
            ELSE Bad
      [] kind = "number" ->
            IF t[1] = "int" THEN <<"float", 2 * t[2]>>
            ELSE IF t[1] = "float" THEN t
            ELSE Bad
      [] kind = "boolean" -> IF t \in Truths THEN <<"boolean", t = Words(<<"true">>)>> ELSE Bad
      [] OTHER -> Text(t)

Submitted(post, m) == IF m \in DOMAIN post THEN post[m] ELSE Blank
Filled(v, post) == {m \in Fields(v) : ~ IsBlank(Submitted(post, m))}

Coerced(v, post) ==
    LET props == Describe(path, v).props IN
    [m \in Filled(v, post) |-> Coerce(Kind(props[m]), post[m])]

MergeClearing(v, post) ==    \* (mutant) blank removes required members too
    LET set == Coerced(v, post)  kept == Members(v) \ Fields(v) IN
    Object([m \in DOMAIN set \cup kept |-> IF m \in DOMAIN set THEN set[m] ELSE v[2][m]])

Merge(v, post) ==
    LET set  == Coerced(v, post)
        kept == (Members(v) \ Fields(v)) \cup (Members(v) \cap Required(v))
    IN  Object([m \in DOMAIN set \cup kept |-> IF m \in DOMAIN set THEN set[m] ELSE v[2][m]])

Coercible(v, post) == LET c == Coerced(v, post) IN \A m \in DOMAIN c : c[m] # Bad

-----------------------------------------------------------------------------
(* The page.  It is rendered from a document, which after a check is the   *)
(* merged one, and what was submitted shows instead of that document's.    *)
(* Two fields record the past: touched has the controls the operator       *)
(* changed, since those the form has had since it was opened.              *)

Render(v, baseline, overrides, confirm, touched, since) ==
    [shown |-> v, baseline |-> baseline, confirm |-> confirm, touched |-> touched,
     since |-> since, controls |->
        LET props == Describe(path, v).props IN
        [m \in Fields(v) |->
            Control(Field(props[m]),
                    IF m \in DOMAIN overrides THEN overrides[m] ELSE AsText(Get(v, m)))]]

(* The fields of the page that a form of v has too.                        *)
Lasting(v) ==
    {m \in Fields(v) \cap page.since : FieldFor(v, m) = FieldFor(page.shown, m)}

AgainFresh(v, confirm) ==    \* (mutant) the baseline of what is on screen
    Render(v, v, page.controls, confirm, page.touched, Lasting(v))

AgainKept(v, confirm) ==    \* (mutant) the controls of the first page
    [page EXCEPT !.shown = v, !.confirm = confirm]

Again(v, confirm) ==
    Render(v, page.baseline, page.controls, confirm, page.touched, Lasting(v))

(* GET /form/<path>.  Bound: only what others stored is opened.            *)
Open ==
    /\ page = None /\ doc \in Stored[path]
    /\ page' = Render(doc, doc, << >>, FALSE, {}, Fields(doc))
    /\ answer' = None
    /\ UNCHANGED <<path, doc, foreign>>

Cancel ==
    /\ page # None
    /\ page' = None /\ foreign' = 0
    /\ UNCHANGED <<path, doc, answer>>

(* The operator changes one control.                                       *)
Fill ==
    /\ page # None
    /\ \E m \in DOMAIN page.controls :
        /\ m \in page.touched \/ Cardinality(page.touched) < MaxTouched
        /\ \E t \in Entries(FieldFor(page.shown, m)) \ {page.controls[m]} :
            page' = [page EXCEPT !.controls = [@ EXCEPT ![m] = t], !.touched = @ \cup {m}]
    /\ UNCHANGED <<path, doc, answer, foreign>>

-----------------------------------------------------------------------------
(* POST /form/<path>.  A page whose model has no field has no form.        *)

Posted == page # None /\ DOMAIN page.controls # {}
Mergeable == (doc = Null \/ IsObject(doc)) /\ Fields(doc) # {}

(* By now the path holds something the form cannot merge into.             *)
Refuse ==
    /\ Posted /\ ~ Mergeable
    /\ page' = None /\ answer' = "error" /\ foreign' = 0
    /\ UNCHANGED <<path, doc>>

(* A CoercionError: the form again, of what is stored now.                 *)
Reject ==
    /\ Posted /\ Mergeable /\ ~ Coercible(doc, page.controls)
    /\ page' = Again(doc, FALSE)
    /\ UNCHANGED <<path, doc, answer, foreign>>

(* "Check", or findings nobody has confirmed: the form again, of what the  *)
(* merge gave.                                                             *)
Review(merged, found) ==
    /\ ~ page.confirm
    /\ page' = Again(merged, found)
    /\ UNCHANGED <<path, doc, answer, foreign>>

Conflict ==
    /\ doc # page.baseline
    /\ page' = None /\ answer' = "conflict" /\ foreign' = 0
    /\ UNCHANGED <<path, doc>>

Commit(merged) ==
    /\ doc = page.baseline
    /\ doc' = merged
    /\ page' = None /\ answer' = "applied" /\ foreign' = 0
    /\ UNCHANGED path

Accept ==
    /\ Posted /\ Mergeable /\ Coercible(doc, page.controls)
    /\ \E merged \in {Merge(doc, page.controls)} :
       \E found \in {Findings(path, merged) # {}} :
           \/ Review(merged, found)
           \/ (found => page.confirm) /\ Conflict
           \/ (found => page.confirm) /\ Commit(merged)

(* The JSON editor, a restore or another client of the control API.        *)
Foreign ==
    /\ page # None => foreign < MaxForeign
    /\ foreign' = IF page = None THEN 0 ELSE foreign + 1
    /\ doc' \in Stored[path] \ {doc}
    /\ UNCHANGED <<path, page, answer>>

Next ==
    \/ Open \/ Cancel \/ Fill
    \/ Refuse \/ Reject \/ Accept
    \/ Foreign

FormSpec == Init /\ [][Next]_vars
-----------------------------------------------------------------------------
(* Properties.                                                             *)

(* Types: the page shows controls for the fields of the document it was    *)
(* rendered from, and what is stored was stored by someone or merged.      *)
TypeOK ==
    /\ path \in Paths
    /\ TypeOf(doc) \in Types
    /\ \/ page = None
       \/ /\ DOMAIN page = {"shown", "baseline", "confirm", "touched", "since", "controls"}
          /\ page.confirm \in BOOLEAN
          /\ IsFiniteSet(page.touched) /\ Cardinality(page.touched) <= MaxTouched
          /\ DOMAIN page.controls = Fields(page.shown) /\ page.since \subseteq Fields(page.shown)
    /\ answer \in {None, "applied", "conflict", "error"}
    /\ foreign \in 0..MaxForeign

(* The form is posted and applied.                                         *)
Committing == page # None /\ answer' = "applied"

(* Objects, arrays and members the specification has never heard of are in *)
(* the document after a guided apply exactly as they were before it.       *)
FrameKept == [][Committing =>
    \A m \in Members(doc) :
        (TypeOf(doc[2][m]) \in {"object", "array"} \/ m \in UnknownMembers(path, doc))
        => m \in Members(doc') /\ doc'[2][m] = doc[2][m]]_vars

(* A guided apply never takes away a member the stored document's own      *)
(* branch of the specification requires.                                   *)
RequiredKept == [][Committing =>
    Required(doc) \cap Members(doc) \subseteq Members(doc')]_vars

(* The values a control shows in a way that gives them back: they have the *)
(* type their member declares, text is neither blank nor padded, and an    *)
(* option is the whole text.                                               *)
Faithful(field, x) ==
    CASE field.kind = "enum"    -> \E c \in field.choices : x = Text(Words(<<c>>))
      [] field.kind = "string"  -> x = Text(x[2]) /\ x[2] = Strip(x[2]) /\ x[2] # Blank
      [] field.kind = "number"  -> x = <<"float", x[2]>>
      [] field.kind = "integer" -> x = <<"integer", x[2]>>
      [] field.kind = "boolean" -> \E b \in BOOLEAN : x = <<"boolean", b>>

(* A guided apply leaves alone what the operator left alone, whatever      *)
(* checks, errors and changes by others came in between: a member whose    *)
(* control was there all along is as it was, if it was absent or its       *)
(* control can give its value back.                                        *)
UntouchedKept == [][Committing =>
    \A m \in page.since \ page.touched :
        IF m \in Members(doc)
        THEN Faithful(FieldFor(doc, m), doc[2][m]) =>
                m \in Members(doc') /\ doc'[2][m] = doc[2][m]
        ELSE m \notin Members(doc')]_vars

(* What a guided apply stores from a filled control is a value the bundled *)
(* specification has no objection to: the kind of control chosen from the  *)
(* declared type, and the coercion, agree with the types check accepts.    *)
CoercedFits == [][Committing =>
    \A f \in Findings(path, doc') :
        f.kind \in {"wrong_type", "not_in_enum"} => f.at \notin {<<m>> : m \in Filled(doc, page.controls)}]_vars

(* The advisory check calls nothing a likely mistake in a document that is *)
(* valid, at whatever path and depth: for each object it looks up a branch *)
(* of the specification that the value is valid for (validation._check,    *)
(* schema._select_branch, accepted_types).  An object elsewhere that has   *)
(* the type of an application is excepted: see CertainIsMistake.           *)
NoFalseAlarm ==
    page = None /\ ~ StrayType(path, doc) /\ (NodeAt(path) = NoNode \/ Valid(NodeAt(path), doc))
    => \A f \in Findings(path, doc) : ~ Certain(f)

(* The comparison of two documents, which the snapshots page shows for     *)
(* what others stored against what is stored now, lists every difference   *)
(* once, but those of a number's type: something differs by more than that *)
(* at or below each reported position, none is below another, each         *)
(* position that differs by more is at or below a reported one, "added"    *)
(* and "removed" say which side has it, and an empty list means that       *)
(* nothing differs by more.  The exception is one the docstrings of        *)
(* diff.py do not make (76: "every difference", 83: "an empty list means   *)
(* the two are identical"): 1, 1.0 and true are one value to Python, and a *)
(* change from one to another is not listed, though the digest of a form's *)
(* baseline tells them apart.                                              *)
DiffExact == page = None => \A before \in Stored[path] :
    LET changes == Compare(before, doc)
        had  == Positions(before)
        has  == Positions(doc)
        more == Different(before, doc) \ Blurred(before, doc)
    IN  /\ \A c \in changes :
            /\ \E p \in more : IsPrefix(c[1], p)
            /\ c[2] = (IF c[1] \in had \cap has THEN "changed"
                       ELSE IF c[1] \in had THEN "removed" ELSE "added")
            /\ \A d \in changes : IsPrefix(c[1], d[1]) => c = d
        /\ \A p \in more : \E c \in changes : IsPrefix(c[1], p)
        /\ changes = {} <=> Different(before, doc) \subseteq Blurred(before, doc)

(* The check calls nothing a likely mistake that is not one, but what the  *)
(* specification has drifted from.  (Refuted.)                             *)
CertainIsMistake ==
    page = None /\ Valid(NodeAt(path), doc) => \A f \in Findings(path, doc) : ~ Certain(f)

(* A form posted back as it was opened changes nothing.  (Refuted.)        *)
UntouchedIsNoop == [][Committing /\ page.touched = {} => doc' = doc]_vars

(* What the page posted says it leaves untouched is left untouched.        *)
(* (Refuted.)                                                              *)
LeftUntouched == [][Committing =>
    \A m \in Preserved(page.shown) \cap Members(doc) :
        m \in Members(doc') /\ doc'[2][m] = doc[2][m]]_vars
=============================================================================
