-------------------------- MODULE GuidedFormProofs --------------------------
(***************************************************************************)
(* Theorems about GuidedForm, for any specification, any stored documents  *)
(* and any bounds.  The inductive invariant IInv adds to the types what    *)
(* the page remembers: a control that was there all along and was left     *)
(* alone shows the document the form was opened on (Remembers), and that   *)
(* what is stored nests no deeper than the bound; SelectInv adds that a    *)
(* select posts nothing but its options.                                   *)
(***************************************************************************)
EXTENDS GuidedForm, SpecificationProofs, FiniteSetTheorems, TLAPS

PageFields == {"shown", "baseline", "confirm", "touched", "since", "controls"}

IsPage(g) ==
    /\ g = [shown |-> g.shown, baseline |-> g.baseline, confirm |-> g.confirm,
            touched |-> g.touched, since |-> g.since, controls |-> g.controls]
    /\ g.confirm \in BOOLEAN
    /\ IsFiniteSet(g.touched) /\ Cardinality(g.touched) <= MaxTouched
    /\ g.controls = [m \in Fields(g.shown) |-> g.controls[m]]
    /\ g.since \subseteq Fields(g.shown)

(* What a page remembers of the document it was opened on.                 *)
Remembers(g) ==
    \A m \in g.since :
        /\ m \in Fields(g.baseline)
        /\ FieldFor(g.baseline, m) = FieldFor(g.shown, m)
        /\ m \notin g.touched =>
               g.controls[m] = Control(FieldFor(g.shown, m), AsText(Get(g.baseline, m)))

IInv ==
    /\ path \in Paths
    /\ TypeOf(doc) \in Types /\ Nested(doc)
    /\ page # None => IsPage(page) /\ Remembers(page) /\ answer = None
    /\ answer \in {None, "applied", "conflict", "error"}
    /\ foreign \in 0..MaxForeign

-----------------------------------------------------------------------------
(* What a control's text is coerced to has a type that the member accepts. *)
LEMMA CoercedIsAccepted ==
    ASSUME NEW n \in Nodes, Kind(n) # "other", NEW raw, NEW x, x = Coerce(Kind(n), raw), x # Bad
    PROVE  Matches(x, Accepted[n])
<1>. DEFINE names == TypeNames[n]
<1>1. /\ Kind(n) = "enum" => Spec[n].enum # {}
      /\ Kind(n) \in Editable \ {"string"} => Kind(n) \in names
      /\ Kind(n) = "string" => "string" \in names
      /\ Kind(n) \in {"enum"} \cup Editable
    BY DEF Kind, Editable
<1>2. \A t \in names : t \in Editable => JsonTypes(t) \subseteq Accepted[n]
    BY NamedIsAccepted DEF Editable
<1>. DEFINE t == Strip(raw)
<1>3. CASE Kind(n) = "integer"
    <2>1. "integer" \in Accepted[n]
        BY <1>1, <1>2, <1>3 DEF JsonTypes, Editable
    <2>2. TypeOf(x) = "integer"
        BY <1>3 DEF Coerce, TypeOf
    <2>. QED BY <2>1, <2>2 DEF Matches
<1>4. CASE Kind(n) = "number"
    <2>1. "float" \in Accepted[n]
        BY <1>1, <1>2, <1>4 DEF JsonTypes, Editable
    <2>2. TypeOf(x) = "float"
        BY <1>4 DEF Coerce, TypeOf
    <2>. QED BY <2>1, <2>2 DEF Matches
<1>5. CASE Kind(n) = "boolean"
    <2>1. "boolean" \in Accepted[n]
        BY <1>1, <1>2, <1>5 DEF JsonTypes, Editable
    <2>2. TypeOf(x) = "boolean"
        BY <1>5 DEF Coerce, TypeOf
    <2>. QED BY <2>1, <2>2 DEF Matches
<1>6. CASE Kind(n) \in {"string", "enum"}
    <2>1. Accepted[n] = {} \/ "string" \in Accepted[n]
        BY <1>1, <1>2, <1>6, EnumAcceptsText DEF JsonTypes, Editable
    <2>2. TypeOf(x) = "string"
        BY <1>6 DEF Coerce, TypeOf, Text
    <2>. QED BY <2>1, <2>2 DEF Matches
<1>. QED BY <1>1, <1>3, <1>4, <1>5, <1>6 DEF Editable

-----------------------------------------------------------------------------
(* Controls and coercion.                                                  *)

(* A field has one of the five kinds of control.                           *)
LEMMA FieldKind ==
    ASSUME NEW v, NEW m \in Fields(v)
    PROVE  FieldFor(v, m).kind \in {"enum", "string", "integer", "number", "boolean"}
<1>. DEFINE n == Describe(path, v).props[m]
<1>1. Kind(n) # "other"
    BY DEF Fields
<1>2. Kind(n) \in {"enum", "string", "other"} \cup Editable
    BY DEF Kind
<1>. QED BY <1>1, <1>2 DEF FieldFor, Field, Editable

(* A control gives back what it shows: shown again, it posts the same.     *)
LEMMA ControlIdempotent ==
    ASSUME NEW f, NEW t
    PROVE  Control(f, Control(f, t)) = Control(f, t)
<1>1. CASE f.kind = "enum"
    <2>1. FirstWord(Words(<<FirstWord(t)>>)) = FirstWord(t)
        BY DEF FirstWord, Words
    <2>2. Words(<<FirstWord(t)>>)[1] = "words" /\ Words(<<FirstWord(t)>>) # Blank
        BY DEF Words, Blank
    <2>. QED BY <1>1, <2>1, <2>2 DEF Control
<1>2. CASE f.kind = "boolean"
    BY <1>2 DEF Control
<1>3. CASE f.kind \in {"integer", "number"}
    BY <1>3 DEF Control
<1>4. CASE f.kind \notin {"enum", "boolean", "integer", "number"}
    BY <1>4 DEF Control
<1>. QED BY <1>1, <1>2, <1>3, <1>4

(* The control of an absent member posts blank.                            *)
LEMMA AbsentIsBlank ==
    ASSUME NEW f
    PROVE  Control(f, AsText(Null)) = Blank /\ IsBlank(Blank)
<1>1. AsText(Null) = Blank
    BY DEF AsText, Null, TypeOf
<1>2. Blank[1] = "words" /\ Strip(Blank) = Blank
    BY DEF Blank, Words, Strip
<1>3. Blank \notin Truths
    BY DEF Blank, Words, Truths
<1>4. Control(f, Blank) = Blank
    BY <1>2, <1>3 DEF Control
<1>. QED BY <1>1, <1>2, <1>4 DEF IsBlank

(* A control gives a faithful value back, and it is not read as blank.     *)
LEMMA FaithfulReturns ==
    ASSUME NEW f, NEW x, Faithful(f, x),
           f.kind \in {"enum", "string", "integer", "number", "boolean"}
    PROVE  LET t == Control(f, AsText(x)) IN Coerce(f.kind, t) = x /\ ~ IsBlank(t)
<1>1. CASE f.kind = "enum"
    <2>1. PICK c \in f.choices : x = Text(Words(<<c>>))
        BY <1>1 DEF Faithful
    <2>. DEFINE t == Words(<<c>>)
    <2>2. AsText(x) = t
        BY <2>1 DEF AsText, Text, TypeOf
    <2>3. FirstWord(t) = c /\ t[1] = "words" /\ t # Blank /\ Strip(t) = t
        BY DEF FirstWord, Words, Blank, Strip
    <2>4. Control(f, t) = t
        BY <1>1, <2>3 DEF Control
    <2>5. Coerce("enum", t) = Text(t)
        BY <2>3 DEF Coerce
    <2>. QED BY <1>1, <2>1, <2>2, <2>3, <2>4, <2>5 DEF IsBlank
<1>2. CASE f.kind = "string"
    <2>. DEFINE t == x[2]
    <2>1. x = Text(t) /\ t = Strip(t) /\ t # Blank
        BY <1>2 DEF Faithful
    <2>2. AsText(x) = t
        BY <2>1 DEF AsText, Text, TypeOf
    <2>3. Control(f, t) = t
        BY <1>2 DEF Control
    <2>4. Coerce("string", t) = Text(t)
        BY <2>1 DEF Coerce
    <2>. QED BY <1>2, <2>1, <2>2, <2>3, <2>4 DEF IsBlank
<1>3. CASE f.kind = "number"
    <2>. DEFINE t == <<"float", x[2]>>
    <2>1. x = t
        BY <1>3 DEF Faithful
    <2>2. AsText(t) = t
        BY DEF AsText, TypeOf
    <2>3. Control(f, t) = t
        BY <1>3 DEF Control
    <2>4. Strip(t) = t /\ t # Blank
        BY DEF Strip, Blank, Words
    <2>5. Coerce("number", t) = t
        BY <2>4 DEF Coerce
    <2>. QED BY <1>3, <2>1, <2>2, <2>3, <2>4, <2>5 DEF IsBlank
<1>4. CASE f.kind = "integer"
    <2>. DEFINE t == <<"int", x[2]>>
    <2>1. x = <<"integer", x[2]>>
        BY <1>4 DEF Faithful
    <2>2. AsText(x) = t
        BY <2>1 DEF AsText, TypeOf
    <2>3. Control(f, t) = t
        BY <1>4 DEF Control
    <2>4. Strip(t) = t /\ t # Blank
        BY DEF Strip, Blank, Words
    <2>5. Coerce("integer", t) = <<"integer", x[2]>>
        BY <2>4 DEF Coerce
    <2>. QED BY <1>4, <2>1, <2>2, <2>3, <2>4, <2>5 DEF IsBlank
<1>5. CASE f.kind = "boolean"
    <2>1. PICK b \in BOOLEAN : x = <<"boolean", b>>
        BY <1>5 DEF Faithful
    <2>. DEFINE t == Words(<<IF b THEN "true" ELSE "false">>)
    <2>2. AsText(x) = t
        BY <2>1 DEF AsText, TypeOf
    <2>3. t \in Truths /\ (t = Words(<<"true">>)) = b /\ t # Blank /\ Strip(t) = t
        BY <2>1 DEF Truths, Words, Blank, Strip
    <2>4. Control(f, t) = t
        BY <1>5, <2>3 DEF Control
    <2>5. Coerce("boolean", t) = <<"boolean", b>>
        BY <2>3 DEF Coerce
    <2>. QED BY <1>5, <2>1, <2>2, <2>3, <2>4, <2>5 DEF IsBlank
<1>. QED BY <1>1, <1>2, <1>3, <1>4, <1>5

-----------------------------------------------------------------------------
(* What the merge makes of a document.                                     *)

(* The members of a merged document, and their values.                     *)
LEMMA MergeMembers ==
    ASSUME NEW v, NEW post
    PROVE  LET d == Merge(v, post)
               kept == (Members(v) \ Fields(v)) \cup (Members(v) \cap Required(v))
           IN  /\ TypeOf(d) = "object"
               /\ Members(d) = Filled(v, post) \cup kept
               /\ \A m \in Filled(v, post) : d[2][m] = Coerce(FieldFor(v, m).kind, post[m])
               /\ \A m \in kept \ Filled(v, post) : d[2][m] = v[2][m]
<1>. DEFINE c == Coerced(v, post)
            kept == (Members(v) \ Fields(v)) \cup (Members(v) \cap Required(v))
            all == [m \in DOMAIN c \cup kept |-> IF m \in DOMAIN c THEN c[m] ELSE v[2][m]]
            d == Merge(v, post)
<1>1. DOMAIN c = Filled(v, post) /\ \A m \in Filled(v, post) : c[m] = Coerce(FieldFor(v, m).kind, post[m])
    BY DEF Coerced, FieldFor, Field
<1>2. d = <<"object", all>>
    BY DEF Merge, Object
<1>3. TypeOf(d) = "object" /\ d[2] = all
    BY <1>2 DEF TypeOf
<1>4. Members(d) = DOMAIN all
    BY <1>3 DEF Members, IsObject
<1>5. /\ DOMAIN all = DOMAIN c \cup kept
      /\ \A m \in DOMAIN c : all[m] = c[m]
      /\ \A m \in kept \ DOMAIN c : all[m] = v[2][m]
    <2>. HIDE DEF c, kept
    <2>. QED OBVIOUS
<1>. HIDE DEF c, all, kept, d
<1>6. /\ TypeOf(d) = "object"
      /\ Members(d) = Filled(v, post) \cup kept
      /\ \A m \in Filled(v, post) : d[2][m] = Coerce(FieldFor(v, m).kind, post[m])
      /\ \A m \in kept \ Filled(v, post) : d[2][m] = v[2][m]
    BY <1>1, <1>3, <1>4, <1>5
<1>. QED BY <1>6 DEF kept, d

(* A coerced text is no container.                                         *)
LEMMA CoercedScalar == ASSUME NEW kind, NEW raw PROVE Members(Coerce(kind, raw)) = {}
<1>. DEFINE t == Strip(raw)
<1>1. \/ \E x : Coerce(kind, raw) = <<"integer", x>>
      \/ \E x : Coerce(kind, raw) = <<"float", x>>
      \/ \E x : Coerce(kind, raw) = <<"boolean", x>>
      \/ Coerce(kind, raw) = Text(t) \/ Coerce(kind, raw) = Bad
      \/ Coerce(kind, raw) = t /\ t[1] = "float"
    BY DEF Coerce
<1>2. TypeOf(Coerce(kind, raw)) \in {"integer", "float", "boolean", "string", "error"}
    <2>. HIDE DEF t
    <2>. QED BY <1>1 DEF TypeOf, Text, Bad
<1>. QED BY <1>2 DEF Members, IsObject

(* A merged document nests no deeper: what it has below a member of its    *)
(* own is what the stored one has there.                                   *)
LEMMA MergeNested ==
    ASSUME NEW v, Nested(v), NEW post PROVE Nested(Merge(v, post))
<1>. DEFINE d == Merge(v, post)
            kept == (Members(v) \ Fields(v)) \cup (Members(v) \cap Required(v))
            Single(p) == Len(p) = 1 /\ Members(At(d, p)) = {}
            Same(p) == p \in Positions(v) /\ At(d, p) = At(v, p)
            T == {p \in Positions(d) : p = << >> \/ Single(p) \/ Same(p)}
<1>1. /\ Members(d) = Filled(v, post) \cup kept
      /\ \A m \in Filled(v, post) : Members(d[2][m]) = {}
      /\ \A m \in kept \ Filled(v, post) : m \in Members(v) /\ d[2][m] = v[2][m]
    BY MergeMembers, CoercedScalar
<1>. HIDE DEF d, kept
<1>2. << >> \in T
    BY PositionsFacts
<1>3. ASSUME NEW p \in Positions(d), p # << >>
      PROVE  \E q \in Positions(d) : \E m : p = Append(q, m) /\ (q \in T => p \in T)
    <2>1. PICK q \in Positions(d) : \E m \in Members(At(d, q)) : p = Append(q, m)
        BY <1>3, PositionsFacts
    <2>2. PICK m \in Members(At(d, q)) : p = Append(q, m)
        BY <2>1
    <2>3. IsSeq(q) /\ Len(p) = Len(q) + 1 /\ At(d, p) = At(d, q)[2][m] /\ At(v, p) = At(v, q)[2][m]
        BY <2>2, PositionIsSeq, AppendIsSeq, AtAppend
    <2>4. CASE q = << >>
        <3>1. m \in Members(d) /\ At(d, p) = d[2][m] /\ At(v, p) = v[2][m] /\ Len(p) = 1
            BY <2>2, <2>3, <2>4, AtRoot, EmptyIsSeq
        <3>2. CASE m \in Filled(v, post)
            BY <1>1, <2>2, <3>1, <3>2
        <3>3. CASE m \in kept \ Filled(v, post)
            <4>1. m \in Members(At(v, q)) /\ q \in Positions(v)
                BY <1>1, <2>4, <3>3, AtRoot, PositionsFacts
            <4>2. p \in Positions(v)
                BY <2>2, <4>1, NextMember
            <4>. QED BY <1>1, <2>2, <3>1, <3>3, <4>2
        <3>. QED BY <1>1, <3>1, <3>2, <3>3
    <2>5. CASE Single(q)
        BY <2>2, <2>5
    <2>6. CASE Same(q)
        <3>1. p \in Positions(v)
            BY <2>2, <2>6, NextMember
        <3>. QED BY <2>2, <2>3, <2>6, <3>1
    <2>. QED BY <2>2, <2>4, <2>5, <2>6
<1>4. Positions(d) \subseteq T
    <2>. HIDE DEF T
    <2>. QED BY <1>2, <1>3, PositionIsSeq, Downward
<1>5. ASSUME NEW p \in Positions(d), Len(p) = MaxNest PROVE Members(At(d, p)) = {}
    <2>1. p # << >>
        BY <1>5, EmptyIsSeq, NestAssumption
    <2>2. Single(p) \/ Same(p)
        BY <1>4, <2>1
    <2>. QED BY <1>5, <2>2 DEF Nested
<1>. QED BY <1>5 DEF Nested, d

-----------------------------------------------------------------------------
(* Pages.                                                                  *)

(* A page just opened remembers the document it was opened on.             *)
LEMMA OpenedPage ==
    LET g == Render(doc, doc, << >>, FALSE, {}, Fields(doc)) IN IsPage(g) /\ Remembers(g)
<1>. DEFINE g == Render(doc, doc, << >>, FALSE, {}, Fields(doc))
<1>1. /\ g.shown = doc /\ g.baseline = doc /\ g.touched = {} /\ g.confirm = FALSE
      /\ g.since = Fields(doc)
      /\ g = [shown |-> g.shown, baseline |-> g.baseline, confirm |-> g.confirm,
              touched |-> g.touched, since |-> g.since, controls |-> g.controls]
      /\ g.controls = [m \in Fields(doc) |-> Control(FieldFor(doc, m), AsText(Get(doc, m)))]
    BY DEF Render, FieldFor
<1>. HIDE DEF g
<1>2. IsFiniteSet(g.touched) /\ Cardinality(g.touched) <= MaxTouched
    BY <1>1, FS_EmptySet, FormAssumption
<1>3. IsPage(g)
    BY <1>1, <1>2 DEF IsPage
<1>4. Remembers(g)
    BY <1>1 DEF Remembers
<1>. QED BY <1>3, <1>4 DEF g

(* The form shown again, whatever of, remembers what it remembered.        *)
LEMMA PageAgain ==
    ASSUME IsPage(page), Remembers(page), NEW v, NEW confirm \in BOOLEAN
    PROVE  IsPage(Again(v, confirm)) /\ Remembers(Again(v, confirm))
<1>. DEFINE g == Again(v, confirm)
<1>1. /\ g.shown = v /\ g.baseline = page.baseline /\ g.touched = page.touched
      /\ g.confirm = confirm /\ g.since = Lasting(v)
      /\ g = [shown |-> g.shown, baseline |-> g.baseline, confirm |-> g.confirm,
              touched |-> g.touched, since |-> g.since, controls |-> g.controls]
      /\ g.controls = [m \in Fields(v) |->
            Control(FieldFor(v, m), IF m \in DOMAIN page.controls THEN page.controls[m]
                                    ELSE AsText(Get(v, m)))]
    BY DEF Again, Render, FieldFor
<1>. HIDE DEF g
<1>2. Lasting(v) \subseteq Fields(v)
    BY DEF Lasting
<1>3. IsPage(g)
    BY <1>1, <1>2 DEF IsPage
<1>4. ASSUME NEW m \in g.since
      PROVE  /\ m \in Fields(g.baseline)
             /\ FieldFor(g.baseline, m) = FieldFor(g.shown, m)
             /\ m \notin g.touched =>
                    g.controls[m] = Control(FieldFor(g.shown, m), AsText(Get(g.baseline, m)))
    <2>. DEFINE f == FieldFor(page.shown, m)
                t == AsText(Get(page.baseline, m))
    <2>1. m \in Fields(v) /\ m \in page.since /\ FieldFor(v, m) = f
        BY <1>1, <1>4 DEF Lasting
    <2>2. m \in Fields(page.baseline) /\ FieldFor(page.baseline, m) = f
        BY <2>1 DEF Remembers
    <2>3. m \in DOMAIN page.controls
        BY <2>1 DEF IsPage
    <2>4. g.controls[m] = Control(f, page.controls[m])
        BY <1>1, <2>1, <2>3
    <2>5. m \notin page.touched => page.controls[m] = Control(f, t)
        BY <2>1 DEF Remembers
    <2>6. m \notin page.touched => g.controls[m] = Control(f, t)
        BY <2>4, <2>5, ControlIdempotent
    <2>. QED BY <1>1, <2>1, <2>2, <2>6
<1>5. Remembers(g)
    BY <1>4 DEF Remembers
<1>. QED BY <1>3, <1>5 DEF g

(* A page with one control changed remembers the others.                   *)
LEMMA PageFilled ==
    ASSUME IsPage(page), Remembers(page), NEW m \in DOMAIN page.controls, NEW t,
           m \in page.touched \/ Cardinality(page.touched) < MaxTouched
    PROVE  LET g == [page EXCEPT !.controls = [@ EXCEPT ![m] = t], !.touched = @ \cup {m}]
           IN  IsPage(g) /\ Remembers(g)
<1>. DEFINE g == [page EXCEPT !.controls = [@ EXCEPT ![m] = t], !.touched = @ \cup {m}]
<1>1. /\ g.shown = page.shown /\ g.baseline = page.baseline /\ g.confirm = page.confirm
      /\ g.since = page.since /\ g.touched = page.touched \cup {m}
      /\ g.controls = [page.controls EXCEPT ![m] = t]
      /\ g = [shown |-> g.shown, baseline |-> g.baseline, confirm |-> g.confirm,
              touched |-> g.touched, since |-> g.since, controls |-> g.controls]
    <2>1. page = [shown |-> page.shown, baseline |-> page.baseline, confirm |-> page.confirm,
                  touched |-> page.touched, since |-> page.since, controls |-> page.controls]
        BY DEF IsPage
    <2>. DEFINE c == [page.controls EXCEPT ![m] = t]
                u == page.touched \cup {m}
    <2>2. g = [page EXCEPT !.controls = c, !.touched = u]
        OBVIOUS
    <2>. HIDE DEF c, u, g
    <2>3. DOMAIN page = PageFields
        BY <2>1 DEF PageFields
    <2>4. DOMAIN g = PageFields /\ g.controls = c /\ g.touched = u
          /\ g.shown = page.shown /\ g.baseline = page.baseline
          /\ g.confirm = page.confirm /\ g.since = page.since
        BY <2>2, <2>3 DEF PageFields
    <2>5. g = [x \in PageFields |-> g[x]]
        BY <2>2, <2>3
    <2>6. g = [shown |-> g.shown, baseline |-> g.baseline, confirm |-> g.confirm,
               touched |-> g.touched, since |-> g.since, controls |-> g.controls]
        BY <2>5 DEF PageFields
    <2>. QED BY <2>4, <2>6 DEF c, u
<1>. HIDE DEF g
<1>2. IsFiniteSet(g.touched) /\ Cardinality(g.touched) <= MaxTouched
    <2>1. IsFiniteSet(page.touched) /\ Cardinality(page.touched) \in Nat
        BY FS_CardinalityType DEF IsPage
    <2>2. CASE m \in page.touched
        <3>1. g.touched = page.touched
            BY <1>1, <2>2
        <3>. QED BY <3>1 DEF IsPage
    <2>3. CASE m \notin page.touched
        <3>1. /\ IsFiniteSet(page.touched \cup {m})
              /\ Cardinality(page.touched \cup {m}) = Cardinality(page.touched) + 1
            BY <2>1, <2>3, FS_AddElement
        <3>. QED BY <1>1, <2>1, <2>3, <3>1, FormAssumption
    <2>. QED BY <2>2, <2>3
<1>3. g.controls = [n \in Fields(g.shown) |-> g.controls[n]]
    <2>1. DOMAIN page.controls = Fields(page.shown)
        BY DEF IsPage
    <2>. QED BY <1>1, <2>1
<1>4. IsPage(g)
    BY <1>1, <1>2, <1>3 DEF IsPage
<1>5. \A n \in g.since : n \notin g.touched => n \in DOMAIN page.controls /\ g.controls[n] = page.controls[n]
    BY <1>1 DEF IsPage
<1>6. Remembers(g)
    BY <1>1, <1>5 DEF Remembers
<1>. QED BY <1>4, <1>6 DEF g

-----------------------------------------------------------------------------
(* The invariant.                                                          *)

(* The path being edited never changes, so a page stays what it is.        *)
LEMMA PageNext ==
    ASSUME path' = path, NEW g, page' = g, IsPage(g), Remembers(g)
    PROVE  IsPage(page)' /\ Remembers(page)'
<1>1. IsPage(page)'
    BY DEF IsPage, Fields
<1>2. Remembers(page)'
    BY DEF Remembers, Fields, FieldFor
<1>. QED BY <1>1, <1>2

LEMMA InitInv == Init => IInv
BY FormAssumption DEF Init, IInv

LEMMA NextInv == IInv /\ [Next]_vars => IInv'
<1>. SUFFICES ASSUME IInv, [Next]_vars PROVE IInv'
    OBVIOUS
<1>. USE DEF IInv
<1>. USE FormAssumption
<1>1. CASE Open
    <2>1. path' = path /\ doc' = doc /\ answer' = None /\ foreign' = foreign
        BY <1>1 DEF Open
    <2>2. IsPage(page)' /\ Remembers(page)'
        BY <1>1, OpenedPage, PageNext DEF Open
    <2>3. page' # None => answer' = None
        BY <2>1
    <2>. QED BY <2>1, <2>2, <2>3
<1>2. CASE Cancel
    BY <1>2 DEF Cancel
<1>3. CASE Fill
    <2>1. PICK m \in DOMAIN page.controls :
            /\ m \in page.touched \/ Cardinality(page.touched) < MaxTouched
            /\ \E t \in Entries(FieldFor(page.shown, m)) \ {page.controls[m]} :
                page' = [page EXCEPT !.controls = [@ EXCEPT ![m] = t], !.touched = @ \cup {m}]
        BY <1>3 DEF Fill
    <2>2. PICK t : page' = [page EXCEPT !.controls = [@ EXCEPT ![m] = t], !.touched = @ \cup {m}]
        BY <2>1
    <2>3. path' = path /\ doc' = doc /\ answer' = answer /\ foreign' = foreign /\ page # None
        BY <1>3 DEF Fill
    <2>4. IsPage(page)' /\ Remembers(page)'
        BY <2>1, <2>2, <2>3, PageFilled, PageNext
    <2>. QED BY <2>3, <2>4
<1>4. CASE Refuse
    BY <1>4 DEF Refuse
<1>5. CASE Reject
    <2>1. path' = path /\ doc' = doc /\ answer' = answer /\ foreign' = foreign /\ page # None
        BY <1>5 DEF Reject, Posted
    <2>2. IsPage(page)' /\ Remembers(page)'
        BY <1>5, <2>1, PageAgain, PageNext DEF Reject
    <2>. QED BY <2>1, <2>2
<1>6. CASE Accept
    <2>. DEFINE merged == Merge(doc, page.controls)
                found  == Findings(path, merged) # {}
    <2>. HIDE DEF merged, found
    <2>1. page # None /\ (Review(merged, found) \/ Conflict \/ Commit(merged))
        BY <1>6 DEF Accept, Posted, merged, found
    <2>2. CASE Review(merged, found)
        <3>1. path' = path /\ doc' = doc /\ answer' = answer /\ foreign' = foreign
            BY <2>2 DEF Review
        <3>2. found \in BOOLEAN
            BY DEF found
        <3>3. IsPage(page)' /\ Remembers(page)'
            BY <2>1, <2>2, <3>1, <3>2, PageAgain, PageNext DEF Review
        <3>. QED BY <2>1, <3>1, <3>3
    <2>3. CASE Conflict
        BY <2>3 DEF Conflict
    <2>4. CASE Commit(merged)
        <3>1. TypeOf(merged) \in Types /\ Nested(merged)
            BY MergeMembers, MergeNested DEF Types, merged
        <3>2. /\ page' = None /\ path' = path /\ answer' = "applied" /\ foreign' = 0
              /\ doc' = merged
            BY <2>4 DEF Commit
        <3>. QED BY <3>1, <3>2
    <2>. QED BY <2>1, <2>2, <2>3, <2>4
<1>7. CASE Foreign
    <2>1. path' = path /\ page' = page /\ answer' = answer /\ foreign' \in 0..MaxForeign
        BY <1>7 DEF Foreign
    <2>2. TypeOf(doc') \in Types /\ Nested(doc')
        BY <1>7 DEF Foreign
    <2>3. page # None => IsPage(page)' /\ Remembers(page)'
        BY <2>1, PageNext
    <2>. QED BY <2>1, <2>2, <2>3 DEF TypeOf
<1>8. CASE UNCHANGED vars
    <2>1. path' = path /\ page' = page /\ answer' = answer /\ foreign' = foreign /\ doc' = doc
        BY <1>8 DEF vars
    <2>2. page # None => IsPage(page)' /\ Remembers(page)'
        BY <2>1, PageNext
    <2>. QED BY <2>1, <2>2
<1>. QED BY <1>1, <1>2, <1>3, <1>4, <1>5, <1>6, <1>7, <1>8 DEF Next

LEMMA Invariance == FormSpec => []IInv
BY InitInv, NextInv, PTL DEF FormSpec

(* The types of the form's variables.                                      *)
THEOREM FormTypes == FormSpec => []TypeOK
<1>1. IInv => TypeOK
    <2>. SUFFICES ASSUME IInv PROVE TypeOK
        OBVIOUS
    <2>1. CASE page = None
        BY <2>1 DEF IInv, TypeOK
    <2>2. CASE page # None
        <3>1. IsPage(page)
            BY <2>2 DEF IInv
        <3>2. DOMAIN page = PageFields
            BY <3>1 DEF IsPage, PageFields
        <3>3. DOMAIN page.controls = Fields(page.shown)
            BY <3>1 DEF IsPage
        <3>. QED BY <3>1, <3>2, <3>3 DEF IInv, TypeOK, IsPage, PageFields
    <2>. QED BY <2>1, <2>2
<1>. QED BY <1>1, Invariance, PTL

-----------------------------------------------------------------------------
(* What a guided apply keeps.                                              *)

(* Only a commit applies a form: it merges into the document the form was  *)
(* opened on, and every text posted for it could be coerced.               *)
LEMMA OnlyCommit ==
    ASSUME IInv, [Next]_vars, Committing
    PROVE  /\ IsPage(page) /\ Remembers(page) /\ doc = page.baseline
           /\ Coercible(doc, page.controls)
           /\ doc' = Merge(doc, page.controls) /\ path' = path
<1>1. page # None /\ answer = None /\ answer' = "applied" /\ None # "applied"
    BY FormAssumption DEF Committing, IInv
<1>2. Accept
    BY <1>1 DEF Next, vars, Open, Cancel, Fill, Refuse, Reject, Foreign
<1>3. Coercible(doc, page.controls)
    BY <1>2 DEF Accept
<1>4. PICK merged : merged = Merge(doc, page.controls) /\ Commit(merged)
    BY <1>1, <1>2 DEF Accept, Review, Conflict
<1>. QED BY <1>1, <1>3, <1>4 DEF Commit, IInv

(* A member the merge does not fill and does not manage is kept.           *)
THEOREM FrameHolds == FormSpec => FrameKept
<1>1. ASSUME IInv, [Next]_vars, Committing,
             NEW m \in Members(doc),
             TypeOf(doc[2][m]) \in {"object", "array"} \/ m \in UnknownMembers(path, doc)
      PROVE  m \in Members(doc') /\ doc'[2][m] = doc[2][m]
    <2>1. doc' = Merge(doc, page.controls)
        BY <1>1, OnlyCommit
    <2>2. m \notin Fields(doc)
        BY <1>1 DEF Fields, UnknownMembers, Get
    <2>3. m \notin Filled(doc, page.controls)
        BY <2>2 DEF Filled
    <2>. QED BY <1>1, <2>1, <2>2, <2>3, MergeMembers
<1>2. ASSUME IInv, [Next]_vars
      PROVE  Committing =>
                \A m \in Members(doc) :
                    (TypeOf(doc[2][m]) \in {"object", "array"} \/ m \in UnknownMembers(path, doc))
                    => m \in Members(doc') /\ doc'[2][m] = doc[2][m]
    BY <1>1, <1>2
<1>. QED BY <1>2, Invariance, PTL DEF FormSpec, FrameKept

(* A required member the document has is in what the merge gives.          *)
THEOREM RequiredHolds == FormSpec => RequiredKept
<1>1. ASSUME IInv, [Next]_vars
      PROVE  Committing => Required(doc) \cap Members(doc) \subseteq Members(doc')
    <2>. SUFFICES ASSUME Committing, NEW m \in Required(doc) \cap Members(doc)
                  PROVE  m \in Members(doc')
        OBVIOUS
    <2>1. doc' = Merge(doc, page.controls)
        BY <1>1, OnlyCommit
    <2>. QED BY <2>1, MergeMembers
<1>. QED BY <1>1, Invariance, PTL DEF FormSpec, RequiredKept

(* What a control that was left alone posts is what the stored document    *)
(* has: the page remembers it through every check, error and change by     *)
(* others, and the coercion gives it back.                                 *)
THEOREM UntouchedHolds == FormSpec => UntouchedKept
<1>1. ASSUME IInv, [Next]_vars, Committing, NEW m \in page.since \ page.touched
      PROVE  IF m \in Members(doc)
             THEN Faithful(FieldFor(doc, m), doc[2][m]) =>
                     m \in Members(doc') /\ doc'[2][m] = doc[2][m]
             ELSE m \notin Members(doc')
    <2>. DEFINE f == FieldFor(doc, m)
                raw == page.controls[m]
    <2>1. /\ IsPage(page) /\ Remembers(page) /\ doc = page.baseline
          /\ doc' = Merge(doc, page.controls)
        BY <1>1, OnlyCommit
    <2>2. m \in Fields(doc) /\ raw = Control(f, AsText(Get(doc, m)))
        BY <1>1, <2>1 DEF Remembers
    <2>3. m \in DOMAIN page.controls
        BY <1>1, <2>1 DEF IsPage
    <2>4. Submitted(page.controls, m) = raw
        BY <2>3 DEF Submitted
    <2>5. CASE m \in Members(doc)
        <3>. SUFFICES ASSUME Faithful(f, doc[2][m])
                      PROVE  m \in Members(doc') /\ doc'[2][m] = doc[2][m]
            BY <2>5
        <3>1. Get(doc, m) = doc[2][m]
            BY <2>5 DEF Get
        <3>2. Coerce(f.kind, raw) = doc[2][m] /\ ~ IsBlank(raw)
            BY <2>2, <3>1, FieldKind, FaithfulReturns
        <3>3. m \in Filled(doc, page.controls)
            BY <2>2, <2>4, <3>2 DEF Filled
        <3>. QED BY <2>1, <3>2, <3>3, MergeMembers
    <2>6. CASE m \notin Members(doc)
        <3>1. Get(doc, m) = Null
            BY <2>6 DEF Get
        <3>2. IsBlank(raw)
            BY <2>2, <3>1, AbsentIsBlank
        <3>3. m \notin Filled(doc, page.controls)
            BY <2>4, <3>2 DEF Filled
        <3>. QED BY <2>1, <2>6, <3>3, MergeMembers
    <2>. QED BY <2>5, <2>6
<1>2. ASSUME IInv, [Next]_vars
      PROVE  Committing =>
                \A m \in page.since \ page.touched :
                    IF m \in Members(doc)
                    THEN Faithful(FieldFor(doc, m), doc[2][m]) =>
                            m \in Members(doc') /\ doc'[2][m] = doc[2][m]
                    ELSE m \notin Members(doc')
    BY <1>1, <1>2
<1>. QED BY <1>2, Invariance, PTL DEF FormSpec, UntouchedKept

-----------------------------------------------------------------------------
(* What the check says of what was merged.                                 *)

(* What the check objects to in a member of the document itself.           *)
LEMMA MemberFindings ==
    ASSUME NEW at \in Paths, NEW v, NEW m, NEW f \in Findings(at, v), f.at = <<m>>,
           f.kind \in {"wrong_type", "not_in_enum"}
    PROVE  LET props == Describe(at, v).props IN
           /\ m \in Members(v) \cap DOMAIN props
           /\ \/ ~ Matches(v[2][m], Accepted[props[m]])
              \/ ~ InEnum(v[2][m], Spec[props[m]].enum)
<1>1. PICK p \in Checked(at, v) : f \in FindingsAt(at \o p, At(v, p), p)
    <2>. DEFINE Of(p) == FindingsAt(at \o p, At(v, p), p)
    <2>1. f \in UNION {Of(p) : p \in Checked(at, v)}
        BY DEF Findings
    <2>. HIDE DEF Of
    <2>2. PICK p \in Checked(at, v) : f \in Of(p)
        BY <2>1
    <2>. QED BY <2>2 DEF Of
<1>2. IsSeq(p)
    BY CheckedFacts
<1>. DEFINE w == At(v, p)
            props == Describe(at \o p, w).props
<1>3. PICK n : /\ f.at = Append(p, n) /\ n \in Members(w) \cap DOMAIN props
               /\ \/ ~ Matches(w[2][n], Accepted[props[n]])
                  \/ ~ InEnum(w[2][n], Spec[props[n]].enum)
    BY <1>1 DEF FindingsAt, Finding, Fitting
<1>4. p = << >> /\ n = m
    <2>1. <<m>> = Append(<< >>, m)
        OBVIOUS
    <2>. QED BY <1>2, <1>3, <2>1, EmptyIsSeq, AppendSame
<1>5. w = v
    BY <1>4, AtRoot
<1>6. at \o p = at
    <2>1. at \in Seq(STRING)
        BY FormAssumption
    <2>. QED BY <1>4, <2>1
<1>. QED BY <1>3, <1>4, <1>5, <1>6

-----------------------------------------------------------------------------
(* Every branch of a union that has a field of a name describes the same   *)
(* field.                                                                  *)
LEMMA FieldsAgree ==
    ASSUME path \in Paths, NEW v, NEW m \in Fields(v),
           NEW w, m \in DOMAIN Describe(path, w).props
    PROVE  LET had == Describe(path, v).props[m]
               has == Describe(path, w).props[m]
           IN  /\ has \in Nodes /\ Kind(has) = Kind(had) /\ Kind(had) # "other"
               /\ Spec[has].enum = Spec[had].enum
<1>. DEFINE n == NodeAt(path)
<1>1. n # NoNode /\ m \in DOMAIN Describe(path, v).props /\ Kind(Describe(path, v).props[m]) # "other"
    <2>1. m \in DOMAIN Describe(path, v).props /\ Kind(Describe(path, v).props[m]) # "other"
        BY DEF Fields
    <2>2. n = NoNode => DOMAIN Describe(path, v).props = {}
        BY DEF Describe, Nothing
    <2>. QED BY <2>1, <2>2
<1>2. ASSUME NEW u
      PROVE  SelectBranch(n, u) \in Branches(path) /\ Describe(path, u) = Resolved[SelectBranch(n, u)]
    <2>1. KindOf(u) \in DOMAIN AppSchemas => AppSchemas[KindOf(u)] \in Range(AppSchemas)
        BY DEF Range
    <2>2. SelectBranch(n, u) \in Branches(path)
        <3>. HIDE DEF n
        <3>1. CASE n \notin Unions
            BY <1>1, <3>1 DEF SelectBranch, Branches, n
        <3>2. CASE n \in Unions
            BY <1>1, <2>1, <3>2 DEF SelectBranch, Branches, n
        <3>. QED BY <3>1, <3>2
    <2>. QED BY <1>1, <2>2 DEF Describe
<1>3. PICK b \in Branches(path) : Describe(path, v) = Resolved[b]
    BY <1>2
<1>4. PICK c \in Branches(path) : Describe(path, w) = Resolved[c]
    BY <1>2
<1>5. /\ Range(Resolved[c].props) \subseteq Nodes
      /\ Kind(Resolved[c].props[m]) = Kind(Resolved[b].props[m])
      /\ Spec[Resolved[c].props[m]].enum = Spec[Resolved[b].props[m]].enum
    BY <1>1, <1>3, <1>4, AgreementAssumption
<1>6. Resolved[c].props[m] \in Nodes
    BY <1>4, <1>5 DEF Range
<1>. QED BY <1>1, <1>3, <1>4, <1>5, <1>6

(* A select of the page posts one of its options, or blank.                *)
Offers(g) ==
    \A m \in DOMAIN g.controls :
        FieldFor(g.shown, m).kind = "enum" =>
            g.controls[m] \in Options(FieldFor(g.shown, m).choices) \cup {Blank}

(* A select shows one of its options, or none.                             *)
LEMMA SelectOffers ==
    ASSUME NEW f, f.kind = "enum", NEW t
    PROVE  Control(f, t) \in Options(f.choices) \cup {Blank}
BY DEF Control, Options

(* So do all the selects of a page as it is rendered.                      *)
LEMMA RenderOffers ==
    ASSUME NEW v, NEW b, NEW o, NEW confirm, NEW touched, NEW since
    PROVE  Offers(Render(v, b, o, confirm, touched, since))
<1>. DEFINE g == Render(v, b, o, confirm, touched, since)
<1>1. g.shown = v
    BY DEF Render
<1>2. g.controls = [m \in Fields(v) |->
            Control(FieldFor(v, m), IF m \in DOMAIN o THEN o[m] ELSE AsText(Get(v, m)))]
    BY DEF Render, FieldFor
<1>. HIDE DEF g
<1>3. Offers(g)
    BY <1>1, <1>2, SelectOffers DEF Offers
<1>. QED BY <1>3 DEF g

(* The selects of every page offer what their controls post.               *)
SelectInv == page # None => Offers(page)

LEMMA OffersNext ==
    ASSUME path' = path, NEW g, page' = g, Offers(g) PROVE SelectInv'
BY DEF SelectInv, Offers, FieldFor

LEMMA SelectNext == IInv /\ SelectInv /\ [Next]_vars => SelectInv'
<1>. SUFFICES ASSUME IInv, SelectInv, [Next]_vars PROVE SelectInv'
    OBVIOUS
<1>1. CASE page' = None
    BY <1>1 DEF SelectInv
<1>2. CASE Open
    BY <1>2, RenderOffers, OffersNext DEF Open
<1>3. CASE Fill
    <2>1. PICK m \in DOMAIN page.controls :
              \E t \in Entries(FieldFor(page.shown, m)) :
                  page' = [page EXCEPT !.controls = [@ EXCEPT ![m] = t], !.touched = @ \cup {m}]
        BY <1>3 DEF Fill
    <2>2. PICK t \in Entries(FieldFor(page.shown, m)) :
              page' = [page EXCEPT !.controls = [@ EXCEPT ![m] = t], !.touched = @ \cup {m}]
        BY <2>1
    <2>. DEFINE c == [page.controls EXCEPT ![m] = t]
                u == page.touched \cup {m}
                g == [page EXCEPT !.controls = c, !.touched = u]
    <2>3. page # None /\ IsPage(page) /\ Offers(page) /\ path' = path /\ page' = g
        BY <1>3, <2>2 DEF Fill, IInv, SelectInv
    <2>4. DOMAIN page = PageFields
        BY <2>3 DEF IsPage, PageFields
    <2>. HIDE DEF c, u
    <2>5. g.shown = page.shown /\ g.controls = c
        BY <2>4 DEF PageFields
    <2>. HIDE DEF g
    <2>6. ASSUME NEW k \in DOMAIN c, FieldFor(page.shown, k).kind = "enum"
          PROVE  c[k] \in Options(FieldFor(page.shown, k).choices) \cup {Blank}
        <3>1. CASE k = m
            <4>1. c[k] = t
                BY <3>1 DEF c
            <4>. QED BY <2>6, <3>1, <4>1 DEF Entries
        <3>2. CASE k # m
            <4>1. c[k] = page.controls[k] /\ k \in DOMAIN page.controls
                BY <3>2 DEF c
            <4>. QED BY <2>3, <2>6, <4>1 DEF Offers
        <3>. QED BY <3>1, <3>2
    <2>7. Offers(g)
        BY <2>5, <2>6 DEF Offers
    <2>. QED BY <2>3, <2>7, OffersNext
<1>4. CASE Reject
    <2>1. path' = path /\ page' = Again(doc, FALSE)
        BY <1>4 DEF Reject
    <2>. QED BY <2>1, RenderOffers, OffersNext DEF Again
<1>5. CASE Accept /\ page' # None
    <2>1. PICK merged, found : Review(merged, found)
        BY <1>5 DEF Accept, Conflict, Commit
    <2>2. path' = path /\ page' = Again(merged, found)
        BY <2>1 DEF Review
    <2>. QED BY <2>2, RenderOffers, OffersNext DEF Again
<1>6. CASE path' = path /\ page' = page
    BY <1>6 DEF SelectInv, Offers, FieldFor
<1>. QED BY <1>1, <1>2, <1>3, <1>4, <1>5, <1>6 DEF Next, Cancel, Refuse, Foreign, vars

LEMMA SelectInvariance == FormSpec => []SelectInv
<1>1. Init => SelectInv
    BY DEF Init, SelectInv
<1>. QED BY <1>1, SelectNext, Invariance, PTL DEF FormSpec

(* The kind of control a member has, and the coercion of what it posts,    *)
(* agree with the types and the enum the check of what was merged applies. *)
THEOREM CoercedFitsHolds == FormSpec => CoercedFits
<1>1. ASSUME IInv, SelectInv, [Next]_vars, Committing,
             NEW f \in Findings(path, doc'), f.kind \in {"wrong_type", "not_in_enum"},
             NEW m \in Filled(doc, page.controls), f.at = <<m>>
      PROVE  FALSE
    <2>. DEFINE raw == page.controls[m]
                had == Describe(path, doc).props[m]
                has == Describe(path, doc').props[m]
                shown == Describe(path, page.shown).props[m]
                x == Coerce(Kind(had), raw)
    <2>1. /\ IsPage(page) /\ doc' = Merge(doc, page.controls) /\ path' = path
          /\ page # None /\ path \in Paths /\ Offers(page)
        BY <1>1, OnlyCommit DEF Committing, SelectInv, IInv
    <2>2. m \in Fields(doc) /\ ~ IsBlank(raw) /\ m \in Fields(page.shown)
        <3>1. m \in Fields(doc) /\ ~ IsBlank(Submitted(page.controls, m))
            BY DEF Filled
        <3>2. m \in DOMAIN page.controls
            BY <3>1, AbsentIsBlank DEF Submitted
        <3>. QED BY <2>1, <3>1, <3>2 DEF Submitted, IsPage
    <2>3. doc'[2][m] = x
        BY <2>1, MergeMembers DEF FieldFor, Field
    <2>4. x # Bad
        <3>1. Coercible(doc, page.controls)
            BY <1>1, OnlyCommit
        <3>. QED BY <3>1 DEF Coercible, Coerced
    <2>5. /\ m \in DOMAIN Describe(path, doc').props
          /\ \/ ~ Matches(doc'[2][m], Accepted[has])
             \/ ~ InEnum(doc'[2][m], Spec[has].enum)
        BY <1>1, <2>1, MemberFindings
    <2>6. has \in Nodes /\ Kind(has) = Kind(had) /\ Kind(has) # "other" /\ Spec[has].enum = Spec[had].enum
        BY <2>1, <2>2, <2>5, FieldsAgree
    <2>7. m \in DOMAIN Describe(path, page.shown).props
        BY <2>2 DEF Fields
    <2>8. Kind(shown) = Kind(had) /\ Spec[shown].enum = Spec[had].enum
        BY <2>1, <2>2, <2>7, FieldsAgree
    <2>9. Matches(x, Accepted[has])
        BY <2>4, <2>6, CoercedIsAccepted
    <2>10. InEnum(x, Spec[has].enum)
        <3>. SUFFICES ASSUME Spec[has].enum # {} PROVE FirstWord(x[2]) \in Spec[has].enum
            BY DEF InEnum
        <3>1. Kind(had) = "enum" /\ Kind(shown) = "enum"
            BY <2>6, <2>8 DEF Kind
        <3>2. raw \in Options(Spec[has].enum) \cup {Blank}
            <4>1. m \in DOMAIN page.controls
                BY <2>1, <2>2 DEF IsPage
            <4>2. FieldFor(page.shown, m).kind = "enum" /\ FieldFor(page.shown, m).choices = Spec[has].enum
                BY <2>6, <2>8, <3>1 DEF FieldFor, Field
            <4>. QED BY <2>1, <4>1, <4>2 DEF Offers
        <3>3. PICK c \in Spec[has].enum : raw = Words(<<c>>)
            BY <2>2, <3>2, AbsentIsBlank DEF Options
        <3>4. Strip(raw) = Words(<<c>>)
            BY <3>3 DEF Strip, Words
        <3>5. x = Text(Words(<<c>>))
            BY <3>1, <3>4 DEF Coerce
        <3>6. FirstWord(Words(<<c>>)) = c
            BY DEF FirstWord, Words
        <3>. QED BY <3>5, <3>6 DEF Text
    <2>. QED BY <2>3, <2>5, <2>9, <2>10
<1>2. ASSUME IInv, SelectInv, [Next]_vars
      PROVE  Committing =>
                \A f \in Findings(path, doc') :
                    f.kind \in {"wrong_type", "not_in_enum"} => f.at \notin {<<m>> : m \in Filled(doc, page.controls)}
    BY <1>1, <1>2
<1>. QED BY <1>2, Invariance, SelectInvariance, PTL DEF FormSpec, CoercedFits

-----------------------------------------------------------------------------
(* The advisory check calls nothing a likely mistake in what is stored     *)
(* when that is valid, whoever stored it.                                  *)
THEOREM NoFalseAlarmHolds == FormSpec => []NoFalseAlarm
<1>1. ASSUME IInv PROVE NoFalseAlarm
    <2>. SUFFICES ASSUME ~ StrayType(path, doc), NodeAt(path) = NoNode \/ Valid(NodeAt(path), doc)
                  PROVE  \A f \in Findings(path, doc) : ~ Certain(f)
        BY DEF NoFalseAlarm
    <2>1. IsSeq(path)
        BY <1>1, FormAssumption DEF IInv, IsSeq
    <2>2. PICK R : Consistent(R, doc) /\ (NodeAt(path) = NoNode \/ <<NodeAt(path), << >>>> \in R)
        <3>1. Consistent({}, doc)
            BY DEF Consistent
        <3>. QED BY <3>1 DEF Valid
    <2>. QED BY <2>1, <2>2, CheckSound
<1>. QED BY <1>1, Invariance, PTL

-----------------------------------------------------------------------------
(* What the snapshots page shows of the documents others stored and the    *)
(* one that is stored now is every difference between them, once, but for  *)
(* those between 1, 1.0 and true.                                          *)
THEOREM DiffExactHolds == FormSpec => []DiffExact
<1>1. ASSUME IInv PROVE DiffExact
    <2>. SUFFICES ASSUME NEW before \in Stored[path], page = None
                  PROVE  LET changes == Compare(before, doc)
                             had  == Positions(before)
                             has  == Positions(doc)
                             more == Different(before, doc) \ Blurred(before, doc)
                         IN  /\ \A c \in changes :
                                 /\ \E p \in more : IsPrefix(c[1], p)
                                 /\ c[2] = (IF c[1] \in had \cap has THEN "changed"
                                            ELSE IF c[1] \in had THEN "removed" ELSE "added")
                                 /\ \A d \in changes : IsPrefix(c[1], d[1]) => c = d
                             /\ \A p \in more : \E c \in changes : IsPrefix(c[1], p)
                             /\ changes = {} <=> Different(before, doc) \subseteq Blurred(before, doc)
        BY DEF DiffExact
    <2>1. Nested(before) /\ Nested(doc)
        BY <1>1, FormAssumption DEF IInv
    <2>. QED BY <2>1, CompareExact
<1>. QED BY <1>1, Invariance, PTL
=============================================================================
