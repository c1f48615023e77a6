-------------------------- MODULE OperationsProofs --------------------------
(***************************************************************************)
(* Theorems about Operations, for any number of windows, any uploads and   *)
(* configurations and any bounds.  The inductive invariant IInv adds to    *)
(* the types where tokens come from (Known: whatever carries a token       *)
(* carries it with the key it was created under) and what a request has    *)
(* been through by the step it is at (Progress).                           *)
(***************************************************************************)
EXTENDS Operations, Induction, FiniteSetTheorems, TLAPS

(* A token and the key it was created under.                               *)
Born(token, k) == token \in 1..Len(issued) /\ issued[token] = k

CookieKnown(c) == c # None => Born(c.token, c.key)

PageOK(p) ==
    p # None => /\ p \in Pages
                /\ p.token # None <=> settings.writes
                /\ p.token # None => Born(p.token, p.drawn)

Known(r) ==
    /\ CookieKnown(r.cookie) /\ CookieKnown(r.set) /\ PageOK(r.page)
    /\ r.what \in Posts => Born(r.token, r.drawn)

(* What holds of a request that unitd may act upon.                        *)
Checked(r) ==
    /\ r.what \in Posts /\ settings.writes /\ (settings.auth => r.who # None)
    /\ r.what = "store" => r.arg.name \in Certificates

Progress(r) ==
    /\ r.step = "sent" => r.outcome = 0
    /\ r.step = "reading" => r.what = "references" /\ r.seen # << >>
    /\ r.step = "forwarded" => Checked(r) /\ r.drawn = key /\ r.token = r.cookie.token
    /\ r.step = "answered" /\ r.what \in Posts =>
        /\ r.status = 302 => r.outcome = 200
        /\ r.status \in 400..499 => r.outcome # 200
        /\ r.status = 502 => Checked(r)
    /\ r.step = "answered" /\ r.what = "references" /\ r.status = 200 => r.seen # << >>

CallOK(r) == r # None => r \in Calls /\ Known(r) /\ Progress(r)

IInv ==
    /\ settings \in [auth : BOOLEAN, writes : BOOLEAN]
    /\ key \in Nat /\ issued \in Seq(Nat)
    /\ jar \in Cookies \cup {None} /\ CookieKnown(jar)
    /\ page = [w \in Windows |-> page[w]] /\ \A w \in Windows : PageOK(page[w])
    /\ call = [w \in Windows |-> call[w]] /\ \A w \in Windows : CallOK(call[w])
    /\ config \in Configurations /\ certs \subseteq Certificates /\ foreign \in 0..MaxForeign

-----------------------------------------------------------------------------
(* What is known stays known when a token is created.                      *)
LEMMA BornStays ==
    ASSUME issued \in Seq(Nat), issued' = issued \/ issued' = Append(issued, key), key \in Nat
    PROVE  /\ issued' \in Seq(Nat)
           /\ \A t, k : Born(t, k) => Born(t, k)'
<1>1. CASE issued' = issued
    BY <1>1 DEF Born
<1>2. CASE issued' = Append(issued, key)
    BY <1>2 DEF Born
<1>. QED BY <1>1, <1>2

(* So do pages, cookies and requests, while the key and the settings stay. *)
LEMMA CallStays ==
    ASSUME IInv, issued' = issued \/ issued' = Append(issued, key), settings' = settings
    PROVE  /\ issued' \in Seq(Nat)
           /\ \A c : CookieKnown(c) => CookieKnown(c)'
           /\ \A p : PageOK(p) => PageOK(p)'
           /\ key' = key => \A r : CallOK(r) => CallOK(r)'
<1>1. issued' \in Seq(Nat) /\ \A t, k : Born(t, k) => Born(t, k)'
    BY BornStays DEF IInv
<1>2. \A c : CookieKnown(c) => CookieKnown(c)'
    BY <1>1 DEF CookieKnown
<1>3. \A p : PageOK(p) => PageOK(p)'
    BY <1>1 DEF PageOK
<1>4. Identities' = Identities /\ Calls' = Calls
    BY DEF Identities, Calls
<1>5. ASSUME key' = key, NEW r, CallOK(r) PROVE CallOK(r)'
    <2>1. Known(r) => Known(r)'
        BY <1>1, <1>2, <1>3 DEF Known
    <2>2. Progress(r) => Progress(r)'
        BY <1>5 DEF Progress, Checked
    <2>. QED BY <1>4, <1>5, <2>1, <2>2 DEF CallOK
<1>. QED BY <1>1, <1>2, <1>3, <1>5

(* A step that changes requests, and at most creates a token.              *)
LEMMA CallsStep ==
    ASSUME IInv, issued' = issued \/ issued' = Append(issued, key),
           call' = [v \in Windows |-> call'[v]],
           \A v \in Windows : call'[v] = call[v] \/ CallOK(call[v])',
           settings' = settings, key' = key, jar' = jar, page' = page,
           config' \in Configurations, certs' \subseteq Certificates, foreign' \in 0..MaxForeign
    PROVE  IInv'
<1>1. /\ issued' \in Seq(Nat) /\ CookieKnown(jar)'
      /\ \A v \in Windows : PageOK(page[v])'
      /\ \A q : CallOK(q) => CallOK(q)'
    BY CallStays DEF IInv
<1>2. \A v \in Windows : CallOK(call[v])'
    BY <1>1 DEF IInv
<1>. QED BY <1>1, <1>2 DEF IInv

(* A step that changes one request.                                        *)
LEMMA CallStep ==
    ASSUME IInv, issued' = issued \/ issued' = Append(issued, key),
           NEW w \in Windows, call' = [call EXCEPT ![w] = call'[w]], CallOK(call[w])',
           settings' = settings, key' = key, jar' = jar, page' = page,
           config' = config, certs' = certs, foreign' = foreign
    PROVE  IInv'
<1>1. call' = [v \in Windows |-> IF v = w THEN call'[w] ELSE call[v]]
    BY DEF IInv
<1>2. call' = [v \in Windows |-> call'[v]]
    BY <1>1
<1>3. \A v \in Windows : call'[v] = call[v] \/ CallOK(call[v])'
    BY <1>1
<1>4. config' \in Configurations /\ certs' \subseteq Certificates /\ foreign' \in 0..MaxForeign
    BY DEF IInv
<1>. QED BY <1>2, <1>3, <1>4, CallsStep

-----------------------------------------------------------------------------
(* Answers.                                                                *)

(* The request a window has sent, and its fields.                          *)
LEMMA Waiting ==
    ASSUME IInv, NEW w \in Windows, call[w] # None
    PROVE  call[w] \in Calls /\ Known(call[w]) /\ Progress(call[w])
BY DEF IInv, CallOK

(* What answering changes of a request, and what it leaves.                *)
LEMMA AnsweredFields ==
    ASSUME NEW q \in Calls, NEW status \in Nat, NEW c \in Cookies \cup {None},
           NEW p \in Pages \cup {None}, NEW r, r = Answered(q, status, c, p)
    PROVE  /\ r \in Calls
           /\ r.what = q.what /\ r.who = q.who /\ r.arg = q.arg /\ r.outcome = q.outcome
           /\ r.cookie = q.cookie /\ r.token = q.token /\ r.drawn = q.drawn /\ r.seen = q.seen
           /\ r.step = "answered" /\ r.status = status /\ r.set = c /\ r.page = p
<1>1. q.what \in Gets \cup Posts /\ q.who \in {None, "operator"} /\ q.cookie \in Cookies \cup {None}
      /\ q.token \in Nat \cup {None} /\ q.drawn \in Nat /\ q.arg \in {None} \cup [name : Names] \cup Uploads
      /\ q.outcome \in {0, 200, 400, 404} /\ q.seen \in Seq(Moments)
    BY DEF Calls
<1>2. r = [what |-> q.what, who |-> q.who, cookie |-> q.cookie, token |-> q.token,
           drawn |-> q.drawn, arg |-> q.arg, step |-> "answered", outcome |-> q.outcome,
           seen |-> q.seen, status |-> status, set |-> c, page |-> p]
    <2>1. q = [what |-> q.what, who |-> q.who, cookie |-> q.cookie, token |-> q.token,
               drawn |-> q.drawn, arg |-> q.arg, step |-> q.step, outcome |-> q.outcome,
               seen |-> q.seen, status |-> q.status, set |-> q.set, page |-> q.page]
        BY DEF Calls
    <2>2. r = [q EXCEPT !.step = "answered", !.status = status, !.set = c, !.page = p]
        BY DEF Answered
    <2>. QED BY <2>1, <2>2
<1>3. r \in Calls
    BY <1>1, <1>2 DEF Calls
<1>. QED BY <1>2, <1>3

LEMMA PlainFields ==
    ASSUME NEW q \in Calls, NEW status \in Nat, NEW r, r = Answered(q, status, None, None)
    PROVE  /\ r \in Calls
           /\ r.what = q.what /\ r.who = q.who /\ r.arg = q.arg /\ r.outcome = q.outcome
           /\ r.cookie = q.cookie /\ r.token = q.token /\ r.drawn = q.drawn /\ r.seen = q.seen
           /\ r.step = "answered" /\ r.status = status /\ r.set = None /\ r.page = None
BY AnsweredFields

(* An answer without a page.                                               *)
LEMMA AnswerPreserves ==
    ASSUME IInv, NEW w \in Windows, NEW status \in Nat, call[w] # None, Answer(w, status),
           call[w].what \in Posts =>
               /\ status = 302 => call[w].outcome = 200
               /\ status \in 400..499 => call[w].outcome # 200
               /\ status = 502 => Checked(call[w]),
           call[w].what = "references" /\ status = 200 => call[w].seen # << >>
    PROVE  IInv'
<1>. SUFFICES ASSUME NEW q, q = call[w], NEW r, r = Answered(q, status, None, None)
              PROVE  IInv'
    OBVIOUS
<1>1. r \in Calls /\ r.what = call[w].what /\ r.who = call[w].who /\ r.arg = call[w].arg
      /\ r.step = "answered" /\ r.status = status /\ r.outcome = call[w].outcome
      /\ r.cookie = call[w].cookie /\ r.set = None /\ r.page = None
      /\ r.token = call[w].token /\ r.drawn = call[w].drawn /\ r.seen = call[w].seen
    <2>1. q \in Calls
        BY Waiting
    <2>2. r \in Calls /\ r.what = q.what /\ r.who = q.who /\ r.arg = q.arg
          /\ r.step = "answered" /\ r.status = status /\ r.outcome = q.outcome
          /\ r.cookie = q.cookie /\ r.set = None /\ r.page = None
          /\ r.token = q.token /\ r.drawn = q.drawn /\ r.seen = q.seen
        BY <2>1, PlainFields, SMTT(30)
    <2>. QED BY <2>2
<1>2. Known(r)
    BY <1>1, Waiting DEF Known, CookieKnown, PageOK
<1>3. Progress(r)
    BY <1>1 DEF Progress, Checked
<1>4. CallOK(r)
    BY <1>1, <1>2, <1>3 DEF CallOK
<1>5. /\ settings' = settings /\ key' = key /\ jar' = jar /\ page' = page /\ issued' = issued
      /\ config' = config /\ certs' = certs /\ foreign' = foreign
      /\ call' = [call EXCEPT ![w] = r]
    BY DEF Answer, browser, unitd
<1>6. CallOK(r)'
    BY <1>4, <1>5, CallStays
<1>7. issued' = issued \/ issued' = Append(issued, key)
    BY <1>5
<1>8. call'[w] = r
    BY <1>5 DEF IInv
<1>9. CallOK(call[w])'
    BY <1>6, <1>8
<1>10. call' = [call EXCEPT ![w] = call'[w]]
    BY <1>5, <1>8
<1>. QED BY <1>5, <1>7, <1>9, <1>10, CallStep

(* The token of a page with a form was created under the present key.      *)
LEMMA IssueKnown ==
    ASSUME IInv, NEW c \in Cookies \cup {None}, CookieKnown(c), NEW t, t = Issue(c),
           issued' = IF t.set = None THEN issued ELSE Append(issued, key), key' = key
    PROVE  /\ t.token \in Nat /\ t.token # None /\ t.set \in Cookies \cup {None}
           /\ issued' \in Seq(Nat) /\ Born(t.token, key)' /\ CookieKnown(t.set)'
<1>1. CASE Session(c) # None
    <2>1. t.token = c.token /\ t.set = None /\ c \in Cookies /\ c.key = key
        BY <1>1 DEF Session, Issue
    <2>2. Born(c.token, key) /\ c.token \in Nat
        BY <2>1, OperationsAssumption DEF CookieKnown, Cookies
    <2>. QED BY <2>1, <2>2, OperationsAssumption DEF Born, CookieKnown, IInv
<1>2. CASE Session(c) = None
    <2>. SUFFICES ASSUME NEW n, n = Len(issued) + 1, NEW d, d = Cookie(n)
                  PROVE  /\ t.token \in Nat /\ t.token # None /\ t.set \in Cookies \cup {None}
                         /\ issued' \in Seq(Nat) /\ Born(t.token, key)' /\ CookieKnown(t.set)'
        OBVIOUS
    <2>1. t.token = n /\ t.set = d
        BY <1>2 DEF Issue
    <2>2. n \in Nat /\ d \in Cookies /\ d.key = key /\ d.token = n
        BY DEF Cookie, Cookies, IInv
    <2>3. issued' = Append(issued, key)
        BY <2>1, <2>2, OperationsAssumption
    <2>4. issued' \in Seq(Nat) /\ n \in 1..Len(issued') /\ issued'[n] = key
        BY <2>3 DEF IInv
    <2>. QED BY <2>1, <2>2, <2>4, OperationsAssumption DEF CookieKnown, Born
<1>. QED BY <1>1, <1>2

(* A page with a form, in answer to a request for one or to an upload that *)
(* is asked for again.                                                     *)
LEMMA FormPreserves ==
    ASSUME IInv, NEW w \in Windows, NEW status \in {200, 400}, NEW what \in {"dashboard", "upload"},
           call[w] # None, call[w].step = "sent", call[w].what # "references", settings.writes,
           AnswerForm(w, status, what)
    PROVE  IInv'
<1>. SUFFICES ASSUME NEW t, t = Issue(call[w].cookie), NEW p, p = Page(what, t.token),
                     NEW q, q = call[w], NEW r, r = Answered(q, status, t.set, p)
              PROVE  IInv'
    OBVIOUS
<1>0. call[w] \in Calls /\ Known(call[w]) /\ call[w].outcome = 0
    BY Waiting DEF Progress
<1>a. /\ settings' = settings /\ key' = key /\ jar' = jar /\ page' = page
      /\ config' = config /\ certs' = certs /\ foreign' = foreign
      /\ call' = [call EXCEPT ![w] = r]
      /\ issued' = IF t.set = None THEN issued ELSE Append(issued, key)
    BY DEF AnswerForm, browser, unitd
<1>1. /\ t.token \in Nat /\ t.token # None /\ t.set \in Cookies \cup {None}
      /\ issued' \in Seq(Nat) /\ Born(t.token, key)' /\ CookieKnown(t.set)'
    <2>1. call[w].cookie \in Cookies \cup {None} /\ CookieKnown(call[w].cookie)
        BY <1>0 DEF Calls, Known
    <2>. QED BY <1>a, <2>1, IssueKnown
<1>2. p \in Pages /\ p.token = t.token /\ p.drawn = key
    BY <1>1 DEF Page, Pages, Names, IInv
<1>3. PageOK(p)'
    BY <1>1, <1>2, <1>a DEF PageOK
<1>4. r \in Calls /\ r.what = call[w].what /\ r.step = "answered" /\ r.status = status
      /\ r.outcome = 0 /\ r.cookie = call[w].cookie /\ r.set = t.set /\ r.page = p
      /\ r.token = call[w].token /\ r.drawn = call[w].drawn
    <2>1. q \in Calls /\ q.outcome = 0
        BY <1>0
    <2>2. status \in Nat /\ p \in Pages \cup {None}
        BY <1>2
    <2>3. PICK c \in Cookies \cup {None} : c = t.set /\ r = Answered(q, status, c, p)
        BY <1>1
    <2>4. r \in Calls /\ r.what = q.what /\ r.step = "answered" /\ r.status = status
          /\ r.outcome = q.outcome /\ r.cookie = q.cookie /\ r.set = c /\ r.page = p
          /\ r.token = q.token /\ r.drawn = q.drawn
        BY <2>1, <2>2, <2>3, AnsweredFields, SMTT(30)
    <2>. QED BY <2>1, <2>3, <2>4
<1>5. issued' = issued \/ issued' = Append(issued, key)
    BY <1>a
<1>6. \A k, n : Born(n, k) => Born(n, k)'
    BY <1>5, BornStays DEF IInv
<1>7. Known(r)'
    <2>1. CookieKnown(r.cookie)
        BY <1>0, <1>4 DEF Known
    <2>2. CookieKnown(r.cookie)'
        BY <2>1, <1>6 DEF CookieKnown
    <2>3. r.what \in Posts => Born(r.token, r.drawn)'
        BY <1>0, <1>4, <1>6 DEF Known
    <2>. QED BY <1>1, <1>3, <1>4, <2>2, <2>3 DEF Known
<1>8. Progress(r)'
    BY <1>4 DEF Progress
<1>9. r \in Calls'
    BY <1>4, <1>a DEF Calls, Identities
<1>10. CallOK(r)'
    BY <1>7, <1>8, <1>9 DEF CallOK
<1>11. call'[w] = r
    BY <1>a DEF IInv
<1>12. CallOK(call[w])'
    BY <1>10, <1>11
<1>13. call' = [call EXCEPT ![w] = call'[w]]
    BY <1>a, <1>11
<1>. QED BY <1>5, <1>12, <1>13, <1>a, CallStep

-----------------------------------------------------------------------------
(* Requests sent, and what becomes of them.                                *)

(* A request that has been sent.                                           *)
LEMMA RequestFields ==
    ASSUME IInv, NEW what \in Gets \cup Posts, NEW who \in Identities, NEW token \in Nat \cup {None},
           NEW drawn \in Nat, NEW arg \in {None} \cup [name : Names] \cup Uploads,
           what \in Posts => Born(token, drawn),
           NEW r, r = Request(what, who, token, drawn, arg)
    PROVE  CallOK(r)
<1>1. r = [what |-> what, who |-> who, cookie |-> jar, token |-> token, drawn |-> drawn, arg |-> arg,
           step |-> "sent", outcome |-> 0, seen |-> << >>, status |-> 0, set |-> None, page |-> None]
    BY DEF Request
<1>2. r \in Calls
    BY <1>1 DEF Calls, Identities, IInv
<1>3. Known(r) /\ Progress(r)
    BY <1>1 DEF Known, Progress, CookieKnown, PageOK, IInv
<1>. QED BY <1>2, <1>3 DEF CallOK

(* A step that puts a request where there was none, or changes one, and    *)
(* nothing the invariant speaks of besides.                                *)
LEMMA OneCall ==
    ASSUME IInv, NEW w \in Windows, NEW r, CallOK(r), call' = [call EXCEPT ![w] = r],
           settings' = settings, key' = key, jar' = jar, page' = page, issued' = issued,
           config' = config, certs' = certs, foreign' = foreign
    PROVE  IInv'
<1>1. CallOK(r)'
    BY CallStays
<1>2. call'[w] = r
    BY DEF IInv
<1>3. CallOK(call[w])'
    BY <1>1, <1>2
<1>4. call' = [call EXCEPT ![w] = call'[w]]
    BY <1>2
<1>5. issued' = issued \/ issued' = Append(issued, key)
    OBVIOUS
<1>. QED BY <1>3, <1>4, <1>5, CallStep

LEMMA LoadPreserves ==
    ASSUME IInv, NEW w \in Windows, Load(w) PROVE IInv'
<1>1. PICK what \in Gets, who \in Identities :
          call' = [call EXCEPT ![w] = Request(what, who, None, key, None)]
    BY DEF Load
<1>. SUFFICES ASSUME NEW r, r = Request(what, who, None, key, None) PROVE IInv'
    OBVIOUS
<1>2. what \in Gets \cup Posts /\ what \notin Posts /\ key \in Nat
    BY DEF Gets, Posts, IInv
<1>3. CallOK(r)
    BY <1>2, RequestFields
<1>4. /\ settings' = settings /\ key' = key /\ jar' = jar /\ page' = page /\ issued' = issued
      /\ config' = config /\ certs' = certs /\ foreign' = foreign /\ call' = [call EXCEPT ![w] = r]
    BY <1>1 DEF Load, unitd
<1>. QED BY <1>3, <1>4, OneCall

LEMMA SubmitPreserves ==
    ASSUME IInv, NEW w \in Windows, NEW what \in Posts, NEW arg \in [name : Names] \cup Uploads,
           page[w] # None, Submit(w, what, arg)
    PROVE  IInv'
<1>1. PICK who \in Identities :
          call' = [call EXCEPT ![w] = Request(what, who, page[w].token, page[w].drawn, arg)]
    BY DEF Submit
<1>. SUFFICES ASSUME NEW r, r = Request(what, who, page[w].token, page[w].drawn, arg) PROVE IInv'
    OBVIOUS
<1>2. page[w].token \in Nat /\ page[w].drawn \in Nat /\ Born(page[w].token, page[w].drawn)
    BY DEF Submit, IInv, PageOK, Pages
<1>3. CallOK(r)
    BY <1>2, RequestFields
<1>4. /\ settings' = settings /\ key' = key /\ jar' = jar /\ page' = page /\ issued' = issued
      /\ config' = config /\ certs' = certs /\ foreign' = foreign /\ call' = [call EXCEPT ![w] = r]
    BY <1>1 DEF Submit, unitd
<1>. QED BY <1>3, <1>4, OneCall

LEMMA ReceivePreserves ==
    ASSUME IInv, NEW w \in Windows, Receive(w) PROVE IInv'
<1>1. call[w] \in Calls /\ Known(call[w])
    BY Waiting DEF Receive
<1>2. jar' \in Cookies \cup {None} /\ CookieKnown(jar')
    BY <1>1 DEF Receive, Known, Calls, IInv
<1>3. page' = [v \in Windows |-> page'[v]] /\ \A v \in Windows : PageOK(page'[v])
    BY <1>1 DEF Receive, Known, IInv
<1>4. call' = [v \in Windows |-> call'[v]] /\ \A v \in Windows : call'[v] = call[v] \/ call'[v] = None
    BY DEF Receive, IInv
<1>5. /\ settings' = settings /\ key' = key /\ issued' = issued
      /\ config' = config /\ certs' = certs /\ foreign' = foreign
    BY DEF Receive, unitd
<1>6. /\ \A c : CookieKnown(c) => CookieKnown(c)'
      /\ \A p : PageOK(p) => PageOK(p)'
      /\ \A q : CallOK(q) => CallOK(q)'
    BY <1>5, CallStays
<1>7. CookieKnown(jar)' /\ \A v \in Windows : PageOK(page[v])'
    BY <1>2, <1>3, <1>6
<1>8. \A v \in Windows : CallOK(call[v])'
    <2>1. \A v \in Windows : CallOK(call'[v])
        BY <1>4 DEF IInv, CallOK
    <2>. QED BY <2>1, <1>6
<1>. QED BY <1>2, <1>3, <1>4, <1>5, <1>7, <1>8 DEF IInv

(* The fields of a request.                                                *)
LEMMA Fields ==
    ASSUME NEW q \in Calls
    PROVE  /\ q = [what |-> q.what, who |-> q.who, cookie |-> q.cookie, token |-> q.token,
                   drawn |-> q.drawn, arg |-> q.arg, step |-> q.step, outcome |-> q.outcome,
                   seen |-> q.seen, status |-> q.status, set |-> q.set, page |-> q.page]
           /\ q.what \in Gets \cup Posts /\ q.who \in {None, "operator"} /\ q.cookie \in Cookies \cup {None}
           /\ q.token \in Nat \cup {None} /\ q.drawn \in Nat /\ q.arg \in {None} \cup [name : Names] \cup Uploads
           /\ q.outcome \in {0, 200, 400, 404} /\ q.seen \in Seq(Moments) /\ q.status \in Nat
           /\ q.set \in Cookies \cup {None} /\ q.page \in Pages \cup {None}
BY DEF Calls

(* The token of a request that validate() lets through was created under   *)
(* the present key, and so was the page it comes from.                     *)
LEMMA ValidDrawn ==
    ASSUME NEW r, r \in Calls, Known(r), r.what \in Posts, Valid(r)
    PROVE  r.cookie # None /\ r.drawn = key /\ r.token = r.cookie.token
<1>1. r.cookie # None /\ r.cookie.key = key /\ r.token = r.cookie.token
    BY DEF Valid, Session
<1>2. Born(r.cookie.token, r.cookie.key) /\ Born(r.token, r.drawn)
    BY <1>1 DEF Known, CookieKnown
<1>. QED BY <1>1, <1>2 DEF Born

LEMMA ForwardPreserves ==
    ASSUME IInv, NEW w \in Windows, Forward(w) PROVE IInv'
<1>. SUFFICES ASSUME NEW q, q = call[w], NEW r, r = [q EXCEPT !.step = "forwarded"] PROVE IInv'
    OBVIOUS
<1>1. q # None /\ q \in Calls /\ Known(q) /\ Progress(q)
    BY Waiting DEF Forward, Readable, Serving, At
<1>2. q.what \in Posts /\ Valid(q) /\ settings.writes /\ (settings.auth => q.who # None)
      /\ (q.what = "store" => q.arg.name \in Certificates)
    BY DEF Forward, Readable, Serving, Admitted, Registered, Posts, Problem
<1>3. q.seen \in Seq(Moments) /\ q.outcome \in {0, 200, 400, 404}
    BY <1>1 DEF Calls
<1>4. /\ r \in Calls /\ r.what = q.what /\ r.who = q.who /\ r.arg = q.arg
      /\ r.cookie = q.cookie /\ r.token = q.token /\ r.drawn = q.drawn
      /\ r.step = "forwarded" /\ r.set = q.set /\ r.page = q.page
    <2>1. r = [what |-> q.what, who |-> q.who, cookie |-> q.cookie, token |-> q.token,
               drawn |-> q.drawn, arg |-> q.arg, step |-> "forwarded", outcome |-> q.outcome,
               seen |-> q.seen, status |-> q.status, set |-> q.set, page |-> q.page]
        <3>1. q = [what |-> q.what, who |-> q.who, cookie |-> q.cookie, token |-> q.token,
                   drawn |-> q.drawn, arg |-> q.arg, step |-> q.step, outcome |-> q.outcome,
                   seen |-> q.seen, status |-> q.status, set |-> q.set, page |-> q.page]
            BY <1>1, Fields
        <3>. QED BY <3>1
    <2>2. /\ q.what \in Gets \cup Posts /\ q.who \in {None, "operator"} /\ q.cookie \in Cookies \cup {None}
          /\ q.token \in Nat \cup {None} /\ q.drawn \in Nat /\ q.arg \in {None} \cup [name : Names] \cup Uploads
          /\ q.status \in Nat /\ q.set \in Cookies \cup {None} /\ q.page \in Pages \cup {None}
        BY <1>1, Fields
    <2>3. r \in Calls
        BY <1>3, <2>1, <2>2 DEF Calls
    <2>. QED BY <2>1, <2>3
<1>5. Known(r)
    BY <1>1, <1>4 DEF Known
<1>6. Progress(r)
    BY <1>1, <1>2, <1>4, ValidDrawn DEF Progress, Checked
<1>7. CallOK(r)
    BY <1>4, <1>5, <1>6 DEF CallOK
<1>8. /\ settings' = settings /\ key' = key /\ jar' = jar /\ page' = page /\ issued' = issued
      /\ config' = config /\ certs' = certs /\ foreign' = foreign /\ call' = [call EXCEPT ![w] = r]
    BY DEF Forward, browser, unitd
<1>. QED BY <1>7, <1>8, OneCall

LEMMA ReadingFields ==
    ASSUME NEW q \in Calls, NEW s \in Seq(Moments), NEW r,
           r = Reading(q, s)
    PROVE  /\ r \in Calls
           /\ r.what = q.what /\ r.who = q.who /\ r.arg = q.arg
           /\ r.cookie = q.cookie /\ r.token = q.token /\ r.drawn = q.drawn
           /\ r.step = "reading" /\ r.set = q.set /\ r.page = q.page /\ r.seen = s
<1>1. r = [what |-> q.what, who |-> q.who, cookie |-> q.cookie, token |-> q.token,
           drawn |-> q.drawn, arg |-> q.arg, step |-> "reading", outcome |-> q.outcome,
           seen |-> s, status |-> q.status, set |-> q.set, page |-> q.page]
    <2>1. q = [what |-> q.what, who |-> q.who, cookie |-> q.cookie, token |-> q.token,
               drawn |-> q.drawn, arg |-> q.arg, step |-> q.step, outcome |-> q.outcome,
               seen |-> q.seen, status |-> q.status, set |-> q.set, page |-> q.page]
        BY Fields
    <2>. QED BY <2>1 DEF Reading
<1>2. /\ q.what \in Gets \cup Posts /\ q.who \in {None, "operator"} /\ q.cookie \in Cookies \cup {None}
      /\ q.token \in Nat \cup {None} /\ q.drawn \in Nat /\ q.arg \in {None} \cup [name : Names] \cup Uploads
      /\ q.status \in Nat /\ q.set \in Cookies \cup {None} /\ q.page \in Pages \cup {None}
      /\ q.outcome \in {0, 200, 400, 404}
    BY Fields
<1>3. r \in Calls
    BY <1>1, <1>2 DEF Calls
<1>. QED BY <1>1, <1>3

LEMMA ReadConfigPreserves ==
    ASSUME IInv, NEW w \in Windows, ReadConfig(w) PROVE IInv'
<1>a. PICK seen \in Seq(Moments) :
          seen # << >> /\ call' = [call EXCEPT ![w] = Reading(@, seen)]
    <2>1. <<config, certs>> \in Moments
        BY DEF Moments, IInv
    <2>2. << <<config, certs>> >> \in Seq(Moments) /\ << <<config, certs>> >> # << >>
        BY <2>1
    <2>. QED BY <2>2 DEF ReadConfig
<1>. SUFFICES ASSUME NEW q, q = call[w],
                     NEW r, r = Reading(q, seen) PROVE IInv'
    OBVIOUS
<1>1. q # None /\ q \in Calls /\ Known(q) /\ q.what = "references"
    BY Waiting DEF ReadConfig, Serving, At
<1>3. seen \in Seq(Moments) /\ seen # << >> /\ q.outcome \in {0, 200, 400, 404}
    BY <1>1, <1>a DEF Calls
<1>4. /\ r \in Calls /\ r.what = q.what /\ r.who = q.who /\ r.arg = q.arg
      /\ r.cookie = q.cookie /\ r.token = q.token /\ r.drawn = q.drawn
      /\ r.step = "reading" /\ r.set = q.set /\ r.page = q.page /\ r.seen = seen
    <2>1. q \in Calls
        BY <1>1
    <2>. QED BY <2>1, ReadingFields
<1>5. Known(r) /\ Progress(r)
    BY <1>1, <1>3, <1>4 DEF Known, Progress
<1>6. CallOK(r)
    BY <1>4, <1>5 DEF CallOK
<1>7. /\ settings' = settings /\ key' = key /\ jar' = jar /\ page' = page /\ issued' = issued
      /\ config' = config /\ certs' = certs /\ foreign' = foreign /\ call' = [call EXCEPT ![w] = r]
    BY <1>a DEF ReadConfig, browser, unitd
<1>. QED BY <1>6, <1>7, OneCall

(* A page without a form.                                                  *)
LEMMA PlainOK ==
    ASSUME IInv, NEW w \in Windows, call[w] # None, call[w].what = "dashboard",
           NEW status \in Nat, NEW p \in Pages, PageOK(p),
           NEW r, r = Answered(call[w], status, None, p)
    PROVE  CallOK(r)
<1>1. call[w] \in Calls /\ Known(call[w])
    BY Waiting
<1>3. /\ r \in Calls /\ r.what = call[w].what /\ r.step = "answered"
      /\ r.cookie = call[w].cookie /\ r.set = None /\ r.page = p
    <2>. SUFFICES ASSUME NEW q, q = call[w], r = Answered(q, status, None, p)
                  PROVE  /\ r \in Calls /\ r.what = q.what /\ r.step = "answered"
                         /\ r.cookie = q.cookie /\ r.set = None /\ r.page = p
        OBVIOUS
    <2>1. q \in Calls
        BY <1>1
    <2>. QED BY <2>1, AnsweredFields
<1>. QED BY <1>1, <1>3 DEF CallOK, Known, Progress, CookieKnown, Posts

(* The dashboard where there are no buttons.                               *)
LEMMA PlainPreserves ==
    ASSUME IInv, NEW w \in Windows, ShowDashboard(w), ~ settings.writes
    PROVE  IInv'
<1>. SUFFICES ASSUME NEW p, p = Page("dashboard", None),
                     NEW r, r = Answered(call[w], 200, None, p) PROVE IInv'
    OBVIOUS
<1>1. call[w] # None /\ call[w].what = "dashboard"
    BY DEF ShowDashboard, Serving, At
<1>2. p \in Pages
    BY DEF Page, Pages, Names, IInv
<1>3. PageOK(p)
    BY <1>2 DEF Page, PageOK
<1>4. CallOK(r)
    BY <1>1, <1>2, <1>3, PlainOK
<1>5. /\ settings' = settings /\ key' = key /\ jar' = jar /\ page' = page
      /\ issued' = issued /\ config' = config /\ certs' = certs /\ foreign' = foreign
      /\ call' = [call EXCEPT ![w] = r]
    BY DEF ShowDashboard, browser, unitd
<1>. QED BY <1>4, <1>5, OneCall

(* Everything the interface does with a request.                           *)
LEMMA ServePreserves ==
    ASSUME IInv, NEW w \in Windows, Serve(w) PROVE IInv'
<1>0. call[w] # None => call[w] \in Calls /\ Known(call[w]) /\ Progress(call[w])
    BY Waiting
<1>1. CASE Unauthenticated(w)
    BY <1>0, <1>1, AnswerPreserves DEF Unauthenticated, At, Status, Progress
<1>2. CASE NotRegistered(w)
    BY <1>0, <1>2, AnswerPreserves DEF NotRegistered, At, Status, Progress
<1>3. CASE ShowDashboard(w)
    <2>1. CASE settings.writes /\ AnswerForm(w, 200, "dashboard")
        BY <1>3, <2>1, FormPreserves DEF ShowDashboard, Serving, At
    <2>2. CASE ~ settings.writes
        BY <1>3, <2>2, PlainPreserves DEF ShowDashboard
    <2>. QED BY <1>3, <2>1, <2>2 DEF ShowDashboard
<1>4. CASE ShowUpload(w)
    BY <1>4, FormPreserves DEF ShowUpload, Serving, At, Registered
<1>5. CASE Unreachable(w)
    <2>1. call[w] # None /\ call[w].what \notin Posts
        BY <1>0, <1>5 DEF Unreachable, Serving, At, Posts, Progress
    <2>. QED BY <1>5, <2>1, AnswerPreserves DEF Unreachable, Status
<1>6. CASE TooLarge(w)
    BY <1>0, <1>6, AnswerPreserves DEF TooLarge, Serving, At, Status, Progress
<1>7. CASE RejectToken(w)
    <2>1. call[w] # None /\ call[w].step = "sent" /\ call[w].outcome = 0 /\ Answer(w, 400)
        BY <1>0, <1>7 DEF RejectToken, Readable, Serving, At, Status, Progress
    <2>. QED BY <2>1, AnswerPreserves
<1>8. CASE AskAgain(w)
    BY <1>8, FormPreserves DEF AskAgain, Readable, Serving, At, Registered
<1>9. CASE Forward(w)
    BY <1>9, ForwardPreserves
<1>10. CASE Lost(w)
    <2>1. call[w] # None /\ call[w].step = "forwarded" /\ Answer(w, 502)
        BY <1>10 DEF Lost, At, Status
    <2>2. Checked(call[w])
        BY <1>0, <2>1 DEF Progress
    <2>. QED BY <2>1, <2>2, AnswerPreserves
<1>11. CASE Relayed(w)
    <2>1. call[w] # None /\ call[w].outcome \in {0, 200, 400, 404} /\ call[w].outcome # 0
        BY <1>0, <1>11 DEF Relayed, At, Calls
    <2>2. CASE call[w].outcome = 200
        <3>1. Answer(w, 302)
            BY <1>11, <2>2 DEF Relayed
        <3>2. call[w] # None /\ call[w].outcome = 200
            BY <2>1, <2>2
        <3>3. 302 \in Nat /\ 302 \notin 400..499 /\ 302 # 502 /\ 302 # 200
            OBVIOUS
        <3>4. ASSUME NEW s \in Nat, s = 302 PROVE IInv'
            <4>1. Answer(w, s) /\ s \notin 400..499 /\ s # 502 /\ s # 200
                BY <3>1, <3>3, <3>4
            <4>. QED BY <3>2, <4>1, AnswerPreserves
        <3>. QED BY <3>3, <3>4
    <2>3. CASE call[w].outcome \in {400, 404}
        BY <1>11, <2>1, <2>3, AnswerPreserves DEF Relayed, Relay
    <2>. QED BY <2>1, <2>2, <2>3
<1>12. CASE ReadConfig(w)
    BY <1>12, ReadConfigPreserves
<1>13. CASE ReadCertificates(w)
    BY <1>0, <1>13, AnswerPreserves DEF ReadCertificates, At, Progress, Posts
<1>. QED BY <1>1, <1>2, <1>3, <1>4, <1>5, <1>6, <1>7, <1>8, <1>9, <1>10, <1>11, <1>12, <1>13
         DEF Serve

-----------------------------------------------------------------------------
(* unitd, its other clients and the processes.                             *)

(* A call that is carried out.                                             *)
LEMMA CarriedOK ==
    ASSUME NEW q \in Calls, Known(q), Progress(q), NEW outcome \in {200, 400, 404},
           \/ q.step = "forwarded"
           \/ q.step = "answered" /\ q.status = 502,
           NEW r, r = [q EXCEPT !.outcome = outcome]
    PROVE  CallOK(r)
<1>1. r = [what |-> q.what, who |-> q.who, cookie |-> q.cookie, token |-> q.token,
           drawn |-> q.drawn, arg |-> q.arg, step |-> q.step, outcome |-> outcome,
           seen |-> q.seen, status |-> q.status, set |-> q.set, page |-> q.page]
    <2>1. q = [what |-> q.what, who |-> q.who, cookie |-> q.cookie, token |-> q.token,
               drawn |-> q.drawn, arg |-> q.arg, step |-> q.step, outcome |-> q.outcome,
               seen |-> q.seen, status |-> q.status, set |-> q.set, page |-> q.page]
        BY Fields
    <2>. QED BY <2>1
<1>2. /\ q.what \in Gets \cup Posts /\ q.who \in {None, "operator"} /\ q.cookie \in Cookies \cup {None}
      /\ q.token \in Nat \cup {None} /\ q.drawn \in Nat /\ q.arg \in {None} \cup [name : Names] \cup Uploads
      /\ q.seen \in Seq(Moments) /\ q.status \in Nat
      /\ q.set \in Cookies \cup {None} /\ q.page \in Pages \cup {None}
      /\ q.step \in {"sent", "reading", "forwarded", "answered"}
    BY Fields DEF Calls
<1>3. r \in Calls
    BY <1>1, <1>2 DEF Calls
<1>4. Known(r)
    BY <1>1 DEF Known
<1>5. Progress(r)
    <2>1. /\ r.what = q.what /\ r.who = q.who /\ r.arg = q.arg /\ r.cookie = q.cookie
          /\ r.token = q.token /\ r.drawn = q.drawn /\ r.step = q.step /\ r.status = q.status
        BY <1>1
    <2>2. CASE q.step = "forwarded"
        BY <2>1, <2>2 DEF Progress, Checked
    <2>3. CASE q.step = "answered" /\ q.status = 502
        <3>1. q.what \in Posts => Checked(q)
            BY <2>3 DEF Progress
        <3>2. r.what \in Posts => Checked(r)
            BY <2>1, <3>1 DEF Checked
        <3>3. r.step = "answered" /\ r.status = 502
            BY <2>1, <2>3
        <3>4. r.status # 302 /\ r.status # 200 /\ r.status \notin 400..499
            BY <3>3
        <3>. QED BY <3>2, <3>3, <3>4 DEF Progress
    <2>. QED BY <2>2, <2>3
<1>. QED BY <1>3, <1>4, <1>5 DEF CallOK

(* What a page being put together saw goes on.                             *)
LEMMA WatchedOK ==
    ASSUME NEW q, CallOK(q), q # None, q.step = "reading", NEW m \in Moments,
           NEW r, r = Reading(q, Append(q.seen, m))
    PROVE  CallOK(r)
<1>1. q \in Calls /\ Known(q) /\ Progress(q)
    BY DEF CallOK
<1>2. PICK s \in Seq(Moments) : s # << >> /\ r = Reading(q, s)
    <2>1. q.seen \in Seq(Moments)
        BY <1>1, Fields
    <2>2. Append(q.seen, m) \in Seq(Moments) /\ Append(q.seen, m) # << >>
        BY <2>1
    <2>. QED BY <2>2
<1>3. /\ r \in Calls
      /\ r.what = q.what /\ r.who = q.who /\ r.arg = q.arg
      /\ r.cookie = q.cookie /\ r.token = q.token /\ r.drawn = q.drawn
      /\ r.step = "reading" /\ r.set = q.set /\ r.page = q.page /\ r.seen = s
    <2>1. q \in Calls /\ r = Reading(q, s)
        BY <1>1, <1>2
    <2>. QED BY <2>1, ReadingFields
<1>4. Known(r) /\ Progress(r)
    BY <1>1, <1>2, <1>3 DEF Known, Progress
<1>. QED BY <1>3, <1>4 DEF CallOK

(* A change of what unitd stores, seen by the pages being put together.    *)
LEMMA ChangePreserves ==
    ASSUME IInv, NEW calls, calls = [v \in Windows |-> calls[v]], \A v \in Windows : CallOK(calls[v]),
           call' = Watched(calls, config', certs'),
           settings' = settings, key' = key, jar' = jar, page' = page, issued' = issued,
           config' \in Configurations, certs' \subseteq Certificates, foreign' \in 0..MaxForeign
    PROVE  IInv'
<1>1. <<config', certs'>> \in Moments
    BY DEF Moments
<1>2. \A v \in Windows : CallOK(call'[v])
    <2>. SUFFICES ASSUME NEW v \in Windows PROVE CallOK(call'[v])
        OBVIOUS
    <2>1. \/ call'[v] = calls[v]
          \/ /\ calls[v] # None /\ calls[v].step = "reading"
             /\ call'[v] = Reading(calls[v], Append(calls[v].seen, <<config', certs'>>))
        BY DEF Watched
    <2>. QED BY <1>1, <2>1, WatchedOK
<1>3. \A q : CallOK(q) => CallOK(q)'
    BY CallStays
<1>4. \A v \in Windows : CallOK(call[v])'
    BY <1>2, <1>3
<1>5. call' = [v \in Windows |-> call'[v]]
    BY DEF Watched
<1>. QED BY <1>4, <1>5, CallsStep

LEMMA CarryRestartPreserves ==
    ASSUME IInv, NEW w \in Windows, CarryRestart(w) PROVE IInv'
<1>1. PICK outcome \in {200, 400, 404} : call' = Carried(w, outcome)
    BY DEF CarryRestart
<1>. SUFFICES ASSUME NEW r, r = [call[w] EXCEPT !.outcome = outcome] PROVE IInv'
    OBVIOUS
<1>2. call[w] # None /\ (call[w].step = "forwarded" \/ (call[w].step = "answered" /\ call[w].status = 502))
    BY DEF CarryRestart, Due, At
<1>3. CallOK(r)
    <2>1. call[w] \in Calls /\ Known(call[w]) /\ Progress(call[w])
        BY <1>2, Waiting
    <2>. QED BY <1>2, <2>1, CarriedOK
<1>4. /\ settings' = settings /\ key' = key /\ jar' = jar /\ page' = page /\ issued' = issued
      /\ config' = config /\ certs' = certs /\ foreign' = foreign /\ call' = [call EXCEPT ![w] = r]
    BY <1>1 DEF CarryRestart, Carried, browser, unitd
<1>. QED BY <1>3, <1>4, OneCall

LEMMA CarryUploadPreserves ==
    ASSUME IInv, NEW w \in Windows, CarryUpload(w) PROVE IInv'
<1>1. call[w] # None /\ (call[w].step = "forwarded" \/ (call[w].step = "answered" /\ call[w].status = 502))
    BY DEF CarryUpload, Due, At
<1>2. call[w] \in Calls /\ Known(call[w]) /\ Progress(call[w])
    BY <1>1, Waiting
<1>3. /\ settings' = settings /\ key' = key /\ jar' = jar /\ page' = page /\ issued' = issued
      /\ config' = config /\ foreign' = foreign
    BY DEF CarryUpload, browser
<1>4. CASE /\ call[w].arg.good
           /\ certs' = certs \cup {call[w].arg.name}
           /\ call' = Watched(Carried(w, 200), config, certs')
    <2>. SUFFICES ASSUME NEW r, r = [call[w] EXCEPT !.outcome = 200],
                         NEW calls, calls = [call EXCEPT ![w] = r] PROVE IInv'
        OBVIOUS
    <2>1. CallOK(r)
        BY <1>1, <1>2, CarriedOK
    <2>2. calls = [v \in Windows |-> calls[v]] /\ \A v \in Windows : CallOK(calls[v])
        BY <2>1 DEF IInv
    <2>3. call[w].arg.name \in Certificates
        BY <1>1, <1>2 DEF Progress, Checked, CarryUpload, Due
    <2>4. config' \in Configurations /\ certs' \subseteq Certificates /\ foreign' \in 0..MaxForeign
        BY <1>3, <1>4, <2>3 DEF IInv
    <2>5. call' = Watched(calls, config', certs')
        BY <1>3, <1>4 DEF Carried
    <2>. QED BY <1>3, <2>2, <2>4, <2>5, ChangePreserves
<1>5. CASE /\ ~ call[w].arg.good
           /\ UNCHANGED certs /\ call' = Carried(w, 400)
    <2>. SUFFICES ASSUME NEW r, r = [call[w] EXCEPT !.outcome = 400] PROVE IInv'
        OBVIOUS
    <2>1. CallOK(r)
        BY <1>1, <1>2, CarriedOK
    <2>2. certs' = certs /\ call' = [call EXCEPT ![w] = r]
        BY <1>5 DEF Carried
    <2>. QED BY <1>3, <2>1, <2>2, OneCall
<1>. QED BY <1>4, <1>5 DEF CarryUpload

LEMMA ForeignPreserves ==
    ASSUME IInv, Foreign PROVE IInv'
<1>1. config' \in Configurations /\ certs' \subseteq Certificates
    BY DEF Foreign, IInv
<1>2. foreign' \in 0..MaxForeign
    BY OperationsAssumption DEF Foreign, IInv
<1>3. /\ settings' = settings /\ key' = key /\ jar' = jar /\ page' = page /\ issued' = issued
      /\ call' = Watched(call, config', certs')
    BY DEF Foreign, browser
<1>4. call = [v \in Windows |-> call[v]] /\ \A v \in Windows : CallOK(call[v])
    BY DEF IInv
<1>. SUFFICES ASSUME NEW calls, calls = call PROVE IInv'
    OBVIOUS
<1>. QED BY <1>1, <1>2, <1>3, <1>4, ChangePreserves

(* Another key: the answers under way do not depend on it.                 *)
LEMMA RekeyPreserves ==
    ASSUME IInv, Rekey PROVE IInv'
<1>1. key' \in Nat
    BY DEF Rekey, IInv
<1>2. /\ settings' = settings /\ jar' = jar /\ page' = page /\ call' = call /\ issued' = issued
      /\ config' = config /\ certs' = certs /\ foreign' = foreign
    BY DEF Rekey, unitd
<1>3. \A n, k : Born(n, k) => Born(n, k)'
    BY <1>2 DEF Born
<1>4. /\ \A c : CookieKnown(c) => CookieKnown(c)'
      /\ \A p : PageOK(p) => PageOK(p)'
    BY <1>2, CallStays
<1>5. ASSUME NEW v \in Windows PROVE CallOK(call[v])'
    <2>. SUFFICES ASSUME NEW q, q = call[v], q # None PROVE CallOK(q)'
        BY <1>2 DEF CallOK
    <2>1. q \in Calls /\ Known(q) /\ Progress(q) /\ q.step = "answered"
        BY Waiting DEF Rekey
    <2>2. q \in Calls'
        BY <1>2, <2>1 DEF Calls, Identities
    <2>3. Known(q)'
        BY <1>3, <1>4, <2>1 DEF Known
    <2>4. Progress(q)'
        BY <1>2, <2>1 DEF Progress, Checked
    <2>. QED BY <2>2, <2>3, <2>4 DEF CallOK
<1>. QED BY <1>1, <1>2, <1>4, <1>5 DEF IInv

-----------------------------------------------------------------------------
(* The theorems.                                                           *)

LEMMA InitOK == ASSUME Init PROVE IInv
<1>1. key \in Nat /\ issued \in Seq(Nat) /\ foreign \in 0..MaxForeign
    BY OperationsAssumption DEF Init
<1>2. jar \in Cookies \cup {None} /\ CookieKnown(jar)
    BY DEF Init, CookieKnown
<1>3. page = [w \in Windows |-> page[w]] /\ \A w \in Windows : PageOK(page[w])
    BY DEF Init, PageOK
<1>4. call = [w \in Windows |-> call[w]] /\ \A w \in Windows : CallOK(call[w])
    BY DEF Init, CallOK
<1>. QED BY <1>1, <1>2, <1>3, <1>4 DEF IInv, Init

LEMMA StepOK == ASSUME IInv, [Next]_vars PROVE IInv'
<1>1. CASE UNCHANGED vars
    BY <1>1 DEF vars, IInv, CookieKnown, PageOK, CallOK, Calls, Known, Progress, Checked, Born, Identities
<1>2. ASSUME NEW w \in Windows, PostRestart(w) PROVE IInv'
    <2>1. PICK name \in page[w].shown : page[w] # None /\ Submit(w, "restart", [name |-> name])
        BY <1>2 DEF PostRestart
    <2>2. name \in Names
        BY <2>1 DEF IInv, PageOK, Pages, Names
    <2>3. "restart" \in Posts /\ [name |-> name] \in [name : Names] \cup Uploads
        BY <2>2 DEF Posts
    <2>. QED BY <2>1, <2>3, SubmitPreserves
<1>3. ASSUME NEW w \in Windows, PostUpload(w) PROVE IInv'
    <2>1. PICK u \in Uploads : page[w] # None /\ Submit(w, "store", u)
        BY <1>3 DEF PostUpload
    <2>2. "store" \in Posts /\ u \in [name : Names] \cup Uploads
        BY DEF Posts
    <2>. QED BY <2>1, <2>2, SubmitPreserves
<1>. QED BY <1>1, <1>2, <1>3, LoadPreserves, ReceivePreserves, ServePreserves,
            CarryRestartPreserves, CarryUploadPreserves, RekeyPreserves, ForeignPreserves DEF Next

THEOREM Invariance == Spec => []IInv
BY InitOK, StepOK, PTL DEF Spec

(* What a session, a page, a request and its answer are made of, in every  *)
(* state; pages with a token exist only where the write endpoints do.      *)
THEOREM OperationsTypes == Spec => []TypeOK
<1>1. ASSUME IInv PROVE TypeOK
    <2>1. ASSUME NEW w \in Windows
          PROVE  /\ page[w] \in Pages \cup {None}
                 /\ call[w] = None \/ RequestOK(call[w])
                 /\ page[w] # None => (page[w].token # None <=> settings.writes)
        <3>1. page[w] \in Pages \cup {None} /\ (page[w] # None => (page[w].token # None <=> settings.writes))
            BY <1>1 DEF IInv, PageOK
        <3>2. CASE call[w] # None
            <4>1. call[w] \in Calls /\ Progress(call[w])
                BY <1>1, <3>2, Waiting
            <4>2. call[w].step \in {"sent", "reading", "forwarded", "answered"}
                BY <4>1 DEF Calls
            <4>. QED BY <3>1, <4>1, <4>2, Fields DEF RequestOK, Progress
        <3>. QED BY <3>1, <3>2
    <2>. QED BY <1>1, <2>1 DEF TypeOK, IInv
<1>. QED BY <1>1, Invariance, PTL

(* Nothing is asked of unitd but by a form drawn under the present key for *)
(* the browser's session, with writes enabled and for someone where the    *)
(* gate is on.                                                             *)
THEOREM ChangesAuthorisedHolds == Spec => []ChangesAuthorised
<1>1. ASSUME IInv PROVE ChangesAuthorised
    <2>1. ASSUME NEW w \in Windows, At(w, "forwarded")
          PROVE  /\ settings.writes /\ (settings.auth => call[w].who # None)
                 /\ call[w].drawn = key /\ call[w].token = call[w].cookie.token
        <3>1. Progress(call[w]) /\ call[w].step = "forwarded"
            BY <1>1, <2>1, Waiting DEF At
        <3>. QED BY <3>1 DEF Progress, Checked
    <2>. QED BY <2>1 DEF ChangesAuthorised
<1>. QED BY <1>1, Invariance, PTL

(* A redirect means that unitd did it, a refusal that it did not and will  *)
(* not.                                                                    *)
THEOREM AnswersTrueHolds == Spec => []AnswersTrue
<1>1. ASSUME IInv PROVE AnswersTrue
    <2>1. ASSUME NEW w \in Windows, At(w, "answered"), call[w].what \in Posts
          PROVE  /\ call[w].status = 302 => call[w].outcome = 200
                 /\ call[w].status \in 400..499 => call[w].outcome # 200 /\ ~ Due(w)
        <3>1. Progress(call[w]) /\ call[w].step = "answered"
            BY <1>1, <2>1, Waiting DEF At
        <3>2. call[w].status \in 400..499 => ~ Due(w)
            BY <3>1 DEF Due, At
        <3>. QED BY <2>1, <3>1, <3>2 DEF Progress
    <2>. QED BY <2>1 DEF AnswersTrue
<1>. QED BY <1>1, Invariance, PTL

-----------------------------------------------------------------------------
(* Why a form keeps working.  While the history stays free of races, at    *)
(* most one token was created under the present key; it is in the jar or   *)
(* in the one answer that brings it, and whatever was drawn with it came   *)
(* after it reached the jar.                                               *)

Current(c) == c # None /\ c.key = key

Begins(r) == Fresh(r) /\ (r.step = "sent" \/ r.set # None)

CallS(r) ==
    r # None =>
        /\ Fresh(r) /\ r.step = "sent" => \A i \in 1..Len(issued) : issued[i] # key
        /\ r.set # None => r.step = "answered" /\ Fresh(r) /\ r.set.key = key
        /\ Current(r.cookie) => Current(jar)
        /\ r.page # None /\ r.page.token # None /\ r.page.drawn = key => Current(r.cookie) \/ r.set # None
        /\ r.what \in Posts /\ r.drawn = key => Current(r.cookie)

OneToken == \A i, j \in 1..Len(issued) : issued[i] = key /\ issued[j] = key => i = j

OneBegins == \A v, u \in Windows : Begins(call[v]) /\ Begins(call[u]) => v = u

Brought ==
    (\E i \in 1..Len(issued) : issued[i] = key)
        => Current(jar) \/ \E v \in Windows : call[v] # None /\ call[v].set # None

PageS(p) == p # None /\ p.token # None /\ p.drawn = key => Current(jar)

Sessions ==
    /\ \A i \in 1..Len(issued) : issued[i] <= key
    /\ ~ raced => /\ OneToken /\ OneBegins /\ Brought
                  /\ \A v \in Windows : PageS(page[v]) /\ CallS(call[v])

(* A step of a request that begins no session and draws no page of another *)
(* session.                                                                *)
Calm(q, r) ==
    /\ q # None /\ r # None
    /\ r.what = q.what /\ r.cookie = q.cookie /\ r.token = q.token /\ r.drawn = q.drawn
    /\ r.step # "sent"
    /\ \/ r.set = q.set /\ r.page = q.page /\ (q.step = "answered" => r.step = "answered")
       \/ /\ r.set = None /\ q.step # "answered"
          /\ r.page = None \/ r.page.token = None \/ Current(r.cookie)

LEMMA CalmStep ==
    ASSUME Sessions, key' = key, jar' = jar, issued' = issued, page' = page, raced' = raced,
           \A v \in Windows : call'[v] = call[v] \/ Calm(call[v], call'[v])
    PROVE  Sessions'
<1>. SUFFICES ASSUME ~ raced
              PROVE  /\ OneToken' /\ OneBegins' /\ Brought'
                     /\ \A v \in Windows : PageS(page[v])' /\ CallS(call[v])'
    BY DEF Sessions
<1>0. OneToken /\ OneBegins /\ Brought /\ \A v \in Windows : PageS(page[v]) /\ CallS(call[v])
    BY DEF Sessions
<1>1. OneToken' /\ \A v \in Windows : PageS(page[v])'
    BY <1>0 DEF OneToken, PageS, Current
<1>2. \A r : Fresh(r) <=> Fresh(r)'
    BY DEF Fresh, Session
<1>3. \A v \in Windows : Begins(call[v])' => Begins(call[v])
    <2>. SUFFICES ASSUME NEW v \in Windows, NEW q, q = call[v], NEW r, r = call'[v], Begins(r)'
                  PROVE  Begins(q)
        OBVIOUS
    <2>1. Begins(r)
        BY <1>2 DEF Begins
    <2>2. CASE q = r
        BY <2>1, <2>2
    <2>3. CASE Calm(q, r)
        BY <2>1, <2>3 DEF Begins, Calm, Fresh
    <2>. QED BY <2>2, <2>3
<1>4. OneBegins'
    BY <1>0, <1>3 DEF OneBegins
<1>5. Brought'
    <2>1. ASSUME NEW v \in Windows, call[v] # None, call[v].set # None
          PROVE  call'[v] # None /\ call'[v].set # None
        BY <1>0, <2>1 DEF CallS, Calm
    <2>. QED BY <1>0, <2>1 DEF Brought, Current
<1>6. \A v \in Windows : CallS(call[v])'
    <2>. SUFFICES ASSUME NEW v \in Windows, NEW q, q = call[v], NEW r, r = call'[v] PROVE CallS(r)'
        OBVIOUS
    <2>1. CallS(q)
        BY <1>0
    <2>2. CallS(r)
        BY <2>1 DEF Calm, CallS, Fresh
    <2>. QED BY <1>2, <2>2 DEF CallS, Current
<1>. QED BY <1>1, <1>4, <1>5, <1>6

(* The first page of a session: nothing was created under this key, and    *)
(* nobody else is at it.                                                   *)
LEMMA BeginStep ==
    ASSUME IInv, Sessions, NEW w \in Windows, Fresh(call[w]), call[w].step = "sent",
           call' = [call EXCEPT ![w] = call'[w]], call'[w] # None,
           call'[w].what = call[w].what, call'[w].cookie = call[w].cookie,
           call'[w].token = call[w].token, call'[w].drawn = call[w].drawn,
           call'[w].step = "answered", call'[w].set # None, call'[w].set.key = key,
           key' = key, jar' = jar, issued' = Append(issued, key), page' = page, raced' = raced
    PROVE  Sessions'
<1>. SUFFICES ASSUME NEW q, q = call[w], NEW r, r = call'[w] PROVE Sessions'
    OBVIOUS
<1>0. issued \in Seq(Nat) /\ key \in Nat
    BY DEF IInv
<1>1. /\ Len(issued') = Len(issued) + 1 /\ issued'[Len(issued')] = key
      /\ \A i \in 1..Len(issued) : issued'[i] = issued[i]
    BY <1>0
<1>2. \A i \in 1..Len(issued') : issued'[i] <= key
    BY <1>0, <1>1 DEF Sessions
<1>. SUFFICES ASSUME ~ raced
              PROVE  /\ OneToken' /\ OneBegins' /\ Brought'
                     /\ \A v \in Windows : PageS(page[v])' /\ CallS(call[v])'
    BY <1>2 DEF Sessions
<1>3. OneBegins /\ \A v \in Windows : PageS(page[v]) /\ CallS(call[v])
    BY DEF Sessions
<1>4. \A i \in 1..Len(issued) : issued[i] # key
    BY <1>3 DEF CallS, Fresh
<1>5. OneToken'
    BY <1>0, <1>1, <1>4 DEF OneToken
<1>6. \A c : Fresh(c) <=> Fresh(c)'
    BY DEF Fresh, Session
<1>7. call'[w] = r /\ \A v \in Windows \ {w} : call'[v] = call[v]
    BY DEF IInv
<1>8. Begins(q) /\ \A v \in Windows \ {w} : ~ Begins(call[v])
    BY <1>3 DEF Begins, OneBegins
<1>9. OneBegins'
    <2>1. \A v \in Windows \ {w} : ~ Begins(call[v])'
        BY <1>6, <1>7, <1>8 DEF Begins
    <2>. QED BY <2>1 DEF OneBegins
<1>10. Brought'
    BY <1>7 DEF Brought
<1>11. \A v \in Windows : PageS(page[v])'
    BY <1>3 DEF PageS, Current
<1>12. CallS(r)'
    <2>1. Fresh(r)
        BY DEF Fresh
    <2>2. Current(r.cookie) => Current(jar)
        BY <1>3 DEF CallS, Fresh
    <2>3. r.what \in Posts /\ r.drawn = key => Current(r.cookie)
        BY <1>3 DEF CallS, Fresh
    <2>. QED BY <1>6, <2>1, <2>2, <2>3 DEF CallS, Current
<1>13. ASSUME NEW v \in Windows \ {w} PROVE CallS(call[v])'
    <2>. SUFFICES ASSUME NEW c, c = call[v] PROVE CallS(c)'
        BY <1>7
    <2>1. CallS(c) /\ ~ Begins(c)
        BY <1>3, <1>8
    <2>. QED BY <1>6, <2>1 DEF CallS, Current, Begins
<1>. QED BY <1>5, <1>7, <1>9, <1>10, <1>11, <1>12, <1>13

(* A page with a form begins a session or belongs to the one there is.     *)
LEMMA FormSessions ==
    ASSUME IInv, Sessions, NEW w \in Windows, NEW status \in {200, 400}, NEW what \in {"dashboard", "upload"},
           call[w] # None, call[w].step = "sent", AnswerForm(w, status, what),
           call[w].what \in {"dashboard", "upload"} \/ Session(call[w].cookie) # None
    PROVE  Sessions'
<1>. SUFFICES ASSUME NEW q, q = call[w], NEW t, t = Issue(q.cookie), NEW p, p = Page(what, t.token),
                     NEW r, r = Answered(q, status, t.set, p)
              PROVE  Sessions'
    OBVIOUS
<1>1. q \in Calls /\ CookieKnown(q.cookie)
    BY Waiting DEF Known
<1>2. q.cookie \in Cookies \cup {None}
    BY <1>1, Fields
<1>3. /\ key' = key /\ jar' = jar /\ page' = page /\ raced' = raced
      /\ call' = [call EXCEPT ![w] = r]
      /\ issued' = IF t.set = None THEN issued ELSE Append(issued, key)
    BY DEF AnswerForm, browser
<1>4. t.token \in Nat /\ t.set \in Cookies \cup {None}
    BY <1>1, <1>2, <1>3, IssueKnown
<1>5. p \in Pages
    BY <1>4 DEF Page, Pages, Names, IInv
<1>6. /\ r \in Calls /\ r.what = q.what /\ r.cookie = q.cookie /\ r.token = q.token
      /\ r.drawn = q.drawn /\ r.step = "answered" /\ r.set = t.set /\ r.page = p
    BY <1>1, <1>4, <1>5, AnsweredFields
<1>7. r # None
    BY <1>6, OperationsAssumption
<1>8. CASE Session(q.cookie) # None
    <2>1. t.set = None /\ Current(q.cookie)
        BY <1>8 DEF Issue, Session, Current
    <2>2. Calm(q, r)
        BY <1>6, <1>7, <2>1 DEF Calm
    <2>3. call'[w] = r /\ \A v \in Windows \ {w} : call'[v] = call[v]
        BY <1>3 DEF IInv
    <2>4. \A v \in Windows : call'[v] = call[v] \/ Calm(call[v], call'[v])
        BY <2>2, <2>3
    <2>5. issued' = issued
        BY <1>3, <2>1
    <2>. QED BY <1>3, <2>4, <2>5, CalmStep
<1>9. CASE Session(q.cookie) = None
    <2>1. Fresh(q)
        BY <1>9 DEF Fresh
    <2>2. t.set = [key |-> key, token |-> Len(issued) + 1]
        BY <1>9 DEF Issue, Cookie
    <2>3. t.set.key = key /\ t.set \in Cookies
        BY <2>2 DEF Cookies, IInv
    <2>4. t.set # None /\ p # None
        <3>1. t.set # None
            BY <2>3, OperationsAssumption
        <3>2. p # None
            BY <1>5, OperationsAssumption
        <3>. QED BY <3>1, <3>2
    <2>5. issued' = Append(issued, key)
        BY <1>3, <2>4
    <2>6. call'[w] = r /\ call' = [call EXCEPT ![w] = call'[w]]
        BY <1>3 DEF IInv
    <2>7. /\ Fresh(call[w]) /\ call'[w] # None
          /\ call'[w].what = call[w].what /\ call'[w].cookie = call[w].cookie
          /\ call'[w].token = call[w].token /\ call'[w].drawn = call[w].drawn
          /\ call'[w].step = "answered" /\ call'[w].set # None /\ call'[w].set.key = key
        BY <1>6, <1>7, <2>1, <2>3, <2>4, <2>6
    <2>. QED BY <1>3, <2>5, <2>6, <2>7, BeginStep
<1>. QED BY <1>8, <1>9

(* An answer without a page begins nothing.                                *)
LEMMA AnswerSessions ==
    ASSUME IInv, Sessions, NEW w \in Windows, NEW status \in Nat,
           call[w] # None, call[w].step # "answered", Answer(w, status)
    PROVE  Sessions'
<1>. SUFFICES ASSUME NEW r, r = Answered(call[w], status, None, None)
              PROVE  Sessions'
    OBVIOUS
<1>1. call[w] \in Calls
    BY Waiting
<1>2. /\ r \in Calls /\ r.what = call[w].what /\ r.cookie = call[w].cookie /\ r.token = call[w].token
      /\ r.drawn = call[w].drawn /\ r.step = "answered" /\ r.set = None /\ r.page = None
    BY <1>1, PlainFields
<1>3. r # None
    BY <1>2, OperationsAssumption
<1>4. Calm(call[w], r)
    BY <1>2, <1>3 DEF Calm
<1>5. /\ key' = key /\ jar' = jar /\ issued' = issued /\ page' = page /\ raced' = raced
      /\ call' = [call EXCEPT ![w] = r]
    BY DEF Answer, browser
<1>6. call'[w] = r /\ \A v \in Windows \ {w} : call'[v] = call[v]
    BY <1>5 DEF IInv
<1>7. \A v \in Windows : call'[v] = call[v] \/ Calm(call[v], call'[v])
    BY <1>4, <1>6
<1>. QED BY <1>5, <1>7, CalmStep

(* One request goes on.                                                    *)
LEMMA OneCalm ==
    ASSUME IInv, Sessions, NEW w \in Windows, call' = [call EXCEPT ![w] = call'[w]],
           Calm(call[w], call'[w]),
           key' = key, jar' = jar, issued' = issued, page' = page, raced' = raced
    PROVE  Sessions'
<1>1. \A v \in Windows \ {w} : call'[v] = call[v]
    BY DEF IInv
<1>2. \A v \in Windows : call'[v] = call[v] \/ Calm(call[v], call'[v])
    BY <1>1
<1>. QED BY <1>2, CalmStep

LEMMA ForwardSessions ==
    ASSUME IInv, Sessions, NEW w \in Windows, Forward(w) PROVE Sessions'
<1>. SUFFICES ASSUME NEW q, q = call[w], NEW r, r = [q EXCEPT !.step = "forwarded"] PROVE Sessions'
    OBVIOUS
<1>1. q # None /\ q \in Calls /\ q.step = "sent"
    BY Waiting DEF Forward, Readable, Serving, At
<1>2. r = [what |-> q.what, who |-> q.who, cookie |-> q.cookie, token |-> q.token,
           drawn |-> q.drawn, arg |-> q.arg, step |-> "forwarded", outcome |-> q.outcome,
           seen |-> q.seen, status |-> q.status, set |-> q.set, page |-> q.page]
    <2>1. q = [what |-> q.what, who |-> q.who, cookie |-> q.cookie, token |-> q.token,
               drawn |-> q.drawn, arg |-> q.arg, step |-> q.step, outcome |-> q.outcome,
               seen |-> q.seen, status |-> q.status, set |-> q.set, page |-> q.page]
        BY <1>1, Fields
    <2>. QED BY <2>1
<1>3. r \in Calls
    <2>1. /\ q.what \in Gets \cup Posts /\ q.who \in {None, "operator"} /\ q.cookie \in Cookies \cup {None}
          /\ q.token \in Nat \cup {None} /\ q.drawn \in Nat
          /\ q.arg \in {None} \cup [name : Names] \cup Uploads
          /\ q.outcome \in {0, 200, 400, 404} /\ q.seen \in Seq(Moments) /\ q.status \in Nat
          /\ q.set \in Cookies \cup {None} /\ q.page \in Pages \cup {None}
        BY <1>1, Fields
    <2>. QED BY <1>2, <2>1 DEF Calls
<1>4. r # None
    BY <1>3, OperationsAssumption
<1>5. Calm(q, r)
    BY <1>1, <1>2, <1>4 DEF Calm
<1>6. /\ key' = key /\ jar' = jar /\ issued' = issued /\ page' = page /\ raced' = raced
      /\ call' = [call EXCEPT ![w] = r]
    BY DEF Forward, browser
<1>7. call'[w] = r /\ call' = [call EXCEPT ![w] = call'[w]]
    BY <1>6 DEF IInv
<1>8. Calm(call[w], call'[w])
    BY <1>5, <1>7
<1>. QED BY <1>6, <1>7, <1>8, OneCalm

(* What reading and carrying out leave of a request.                       *)
LEMMA ReadingCalm ==
    ASSUME NEW q \in Calls, q # None, q.step \in {"sent", "reading"}, NEW s \in Seq(Moments),
           NEW r, r = Reading(q, s)
    PROVE  Calm(q, r)
<1>1. /\ r \in Calls
      /\ r.what = q.what /\ r.who = q.who /\ r.arg = q.arg
      /\ r.cookie = q.cookie /\ r.token = q.token /\ r.drawn = q.drawn
      /\ r.step = "reading" /\ r.set = q.set /\ r.page = q.page /\ r.seen = s
    BY ReadingFields
<1>2. r # None
    BY <1>1, OperationsAssumption
<1>. QED BY <1>1, <1>2 DEF Calm

LEMMA CarriedCalm ==
    ASSUME NEW q \in Calls, q # None, q.step \in {"forwarded", "answered"}, CallOK(q),
           NEW outcome \in {200, 400, 404}, NEW r, r = [q EXCEPT !.outcome = outcome]
    PROVE  Calm(q, r)
<1>1. q = [what |-> q.what, who |-> q.who, cookie |-> q.cookie, token |-> q.token,
           drawn |-> q.drawn, arg |-> q.arg, step |-> q.step, outcome |-> q.outcome,
           seen |-> q.seen, status |-> q.status, set |-> q.set, page |-> q.page]
    BY Fields
<1>2. r = [what |-> q.what, who |-> q.who, cookie |-> q.cookie, token |-> q.token,
           drawn |-> q.drawn, arg |-> q.arg, step |-> q.step, outcome |-> outcome,
           seen |-> q.seen, status |-> q.status, set |-> q.set, page |-> q.page]
    BY <1>1
<1>3. r \in Calls
    <2>1. /\ q.what \in Gets \cup Posts /\ q.who \in {None, "operator"} /\ q.cookie \in Cookies \cup {None}
          /\ q.token \in Nat \cup {None} /\ q.drawn \in Nat
          /\ q.arg \in {None} \cup [name : Names] \cup Uploads
          /\ q.seen \in Seq(Moments) /\ q.status \in Nat
          /\ q.set \in Cookies \cup {None} /\ q.page \in Pages \cup {None}
        BY Fields
    <2>. QED BY <1>2, <2>1 DEF Calls
<1>4. r # None
    BY <1>3, OperationsAssumption
<1>. QED BY <1>2, <1>4 DEF Calm

(* A change of what unitd stores, seen by the pages being put together.    *)
LEMMA ChangeSessions ==
    ASSUME IInv, Sessions, NEW calls,
           \A v \in Windows : /\ calls[v] = call[v] \/ Calm(call[v], calls[v])
                              /\ CallOK(calls[v])
                              /\ calls[v] = call[v] \/ calls[v].step # "reading",
           call' = Watched(calls, config', certs'), config' \in Configurations, certs' \subseteq Certificates,
           key' = key, jar' = jar, issued' = issued, page' = page, raced' = raced
    PROVE  Sessions'
<1>1. ASSUME NEW v \in Windows PROVE call'[v] = call[v] \/ Calm(call[v], call'[v])
    <2>1. \/ call'[v] = calls[v]
          \/ /\ calls[v] # None /\ calls[v].step = "reading"
             /\ call'[v] = Reading(calls[v], Append(calls[v].seen, <<config', certs'>>))
        BY DEF Watched
    <2>2. CASE call'[v] = calls[v]
        BY <2>2
    <2>3. CASE /\ calls[v] # None /\ calls[v].step = "reading"
               /\ call'[v] = Reading(calls[v], Append(calls[v].seen, <<config', certs'>>))
        <3>1. calls[v] = call[v] /\ call[v] # None /\ call[v].step = "reading"
            BY <2>3
        <3>2. call[v] \in Calls
            BY <3>1, Waiting
        <3>3. PICK s \in Seq(Moments) : call'[v] = Reading(call[v], s)
            <4>1. call[v].seen \in Seq(Moments) /\ <<config', certs'>> \in Moments
                BY <3>2, Fields DEF Moments
            <4>2. Append(call[v].seen, <<config', certs'>>) \in Seq(Moments)
                BY <4>1
            <4>. QED BY <2>3, <3>1, <4>2
        <3>4. call[v].step \in {"sent", "reading"}
            BY <3>1
        <3>. QED BY <3>1, <3>2, <3>3, <3>4, ReadingCalm
    <2>. QED BY <2>1, <2>2, <2>3
<1>. QED BY <1>1, CalmStep

LEMMA CarrySessions ==
    ASSUME IInv, Sessions, NEW w \in Windows, CarryRestart(w) \/ CarryUpload(w) PROVE Sessions'
<1>1. call[w] # None /\ (call[w].step = "forwarded" \/ (call[w].step = "answered" /\ call[w].status = 502))
    BY DEF CarryRestart, CarryUpload, Due, At
<1>2. call[w] \in Calls /\ Known(call[w]) /\ Progress(call[w]) /\ CallOK(call[w])
    BY <1>1, Waiting DEF IInv
<1>3. call[w].step \in {"forwarded", "answered"} /\ call[w].step # "reading"
    BY <1>1
<1>4. key' = key /\ jar' = jar /\ issued' = issued /\ page' = page /\ raced' = raced /\ config' = config
    BY DEF CarryRestart, CarryUpload, browser, unitd
<1>5. ASSUME NEW outcome \in {200, 400, 404}, call' = Carried(w, outcome) PROVE Sessions'
    <2>. SUFFICES ASSUME NEW r, r = [call[w] EXCEPT !.outcome = outcome] PROVE Sessions'
        OBVIOUS
    <2>1. Calm(call[w], r)
        BY <1>1, <1>2, <1>3, CarriedCalm
    <2>2. call'[w] = r /\ call' = [call EXCEPT ![w] = call'[w]]
        BY <1>5 DEF Carried, IInv
    <2>3. Calm(call[w], call'[w])
        BY <2>1, <2>2
    <2>. QED BY <1>4, <2>2, <2>3, OneCalm
<1>6. CASE /\ CarryUpload(w)
           /\ call[w].arg.good /\ certs' = certs \cup {call[w].arg.name}
           /\ call' = Watched(Carried(w, 200), config, certs')
    <2>. SUFFICES ASSUME NEW r, r = [call[w] EXCEPT !.outcome = 200],
                         NEW calls, calls = [call EXCEPT ![w] = r] PROVE Sessions'
        OBVIOUS
    <2>1. Calm(call[w], r)
        BY <1>1, <1>2, <1>3, CarriedCalm
    <2>2. CallOK(r)
        BY <1>1, <1>2, CarriedOK
    <2>3. r.step # "reading"
        <3>1. call[w] = [what |-> call[w].what, who |-> call[w].who, cookie |-> call[w].cookie,
                         token |-> call[w].token, drawn |-> call[w].drawn, arg |-> call[w].arg,
                         step |-> call[w].step, outcome |-> call[w].outcome, seen |-> call[w].seen,
                         status |-> call[w].status, set |-> call[w].set, page |-> call[w].page]
            BY <1>2, Fields
        <3>2. r.step = call[w].step
            BY <3>1
        <3>. QED BY <1>3, <3>2
    <2>4. calls = [v \in Windows |-> IF v = w THEN r ELSE call[v]]
        BY DEF IInv
    <2>5. \A v \in Windows : /\ calls[v] = call[v] \/ Calm(call[v], calls[v])
                             /\ CallOK(calls[v])
                             /\ calls[v] = call[v] \/ calls[v].step # "reading"
        BY <2>1, <2>2, <2>3, <2>4 DEF IInv
    <2>6. call[w].arg.name \in Certificates
        BY <1>1, <1>2, <1>6 DEF Progress, Checked, CarryUpload, Due
    <2>7. config' \in Configurations /\ certs' \subseteq Certificates
        BY <1>4, <1>6, <2>6 DEF IInv
    <2>8. call' = Watched(calls, config', certs')
        BY <1>4, <1>6 DEF Carried
    <2>. QED BY <1>4, <2>5, <2>7, <2>8, ChangeSessions
<1>. QED BY <1>5, <1>6 DEF CarryRestart, CarryUpload

LEMMA ForeignSessions ==
    ASSUME IInv, Sessions, Foreign PROVE Sessions'
<1>. SUFFICES ASSUME NEW calls, calls = call PROVE Sessions'
    OBVIOUS
<1>1. config' \in Configurations /\ certs' \subseteq Certificates
    BY DEF Foreign, IInv
<1>2. \A v \in Windows : /\ calls[v] = call[v] \/ Calm(call[v], calls[v])
                         /\ CallOK(calls[v])
                         /\ calls[v] = call[v] \/ calls[v].step # "reading"
    BY DEF IInv
<1>3. key' = key /\ jar' = jar /\ issued' = issued /\ page' = page /\ raced' = raced
      /\ call' = Watched(calls, config', certs')
    BY DEF Foreign, browser
<1>. QED BY <1>1, <1>2, <1>3, ChangeSessions

(* A request is sent: the first page of a session only when no other is    *)
(* under way, and a form only with the session it was drawn for.           *)
LEMMA StartSessions ==
    ASSUME IInv, Sessions, NEW w \in Windows, call[w] = None, call' = [call EXCEPT ![w] = call'[w]],
           call'[w].cookie = jar, call'[w].step = "sent", call'[w].set = None, call'[w].page = None,
           ~ raced' => ~ raced,
           ~ raced' /\ Fresh(call'[w]) => \A v \in Windows : ~ Fresh(call[v]),
           ~ raced' /\ call'[w].what \in Posts /\ call'[w].drawn = key => Current(jar),
           key' = key, jar' = jar, issued' = issued, page' = page
    PROVE  Sessions'
<1>. SUFFICES ASSUME NEW r, r = call'[w], ~ raced'
              PROVE  /\ OneToken' /\ OneBegins' /\ Brought'
                     /\ \A v \in Windows : PageS(page[v])' /\ CallS(call[v])'
    BY DEF Sessions
<1>1. OneToken /\ OneBegins /\ Brought /\ \A v \in Windows : PageS(page[v]) /\ CallS(call[v])
    BY DEF Sessions
<1>2. \A c : Fresh(c) <=> Fresh(c)'
    BY DEF Fresh, Session
<1>3. \A v \in Windows \ {w} : call'[v] = call[v]
    BY DEF IInv
<1>4. OneToken' /\ \A v \in Windows : PageS(page[v])'
    BY <1>1 DEF OneToken, PageS, Current
<1>5. OneBegins'
    <2>. SUFFICES ASSUME NEW v \in Windows, NEW u \in Windows, Begins(call[v])', Begins(call[u])' PROVE v = u
        BY DEF OneBegins
    <2>1. ASSUME NEW x \in Windows, x # w, Begins(call[x])' PROVE Begins(call[x])
        BY <1>2, <1>3, <2>1 DEF Begins
    <2>2. CASE v # w /\ u # w
        BY <1>1, <2>1, <2>2 DEF OneBegins
    <2>3. ASSUME NEW x \in Windows, x # w, Begins(call[x])', Begins(call[w])' PROVE FALSE
        <3>1. Begins(call[x])
            BY <2>1, <2>3
        <3>2. Fresh(call[x])
            BY <3>1 DEF Begins
        <3>3. Fresh(r)
            BY <1>2, <2>3 DEF Begins
        <3>. QED BY <3>2, <3>3
    <2>. QED BY <2>2, <2>3
<1>6. Brought'
    <2>1. ASSUME NEW v \in Windows, call[v] # None, call[v].set # None
          PROVE  call'[v] # None /\ call'[v].set # None
        BY <1>3, <2>1
    <2>. QED BY <1>1, <2>1 DEF Brought, Current
<1>7. CallS(r)'
    <2>1. Fresh(r) => \A i \in 1..Len(issued) : issued[i] # key
        <3>. SUFFICES ASSUME Fresh(r), NEW i \in 1..Len(issued), issued[i] = key PROVE FALSE
            OBVIOUS
        <3>1. CASE Current(jar)
            <4>1. jar \in Cookies /\ jar.token \in Nat /\ jar.key = key /\ jar # None
                BY <3>1 DEF Current, IInv, Cookies
            <4>2. Session(jar) = jar.token /\ jar.token # None
                BY <4>1, OperationsAssumption DEF Session
            <4>. QED BY <4>2 DEF Fresh
        <3>2. ASSUME NEW v \in Windows, call[v] # None, call[v].set # None PROVE FALSE
            BY <1>1, <3>2 DEF CallS
        <3>. QED BY <1>1, <3>1, <3>2 DEF Brought
    <2>2. CallS(r)
        BY <2>1 DEF CallS
    <2>. QED BY <1>2, <2>2 DEF CallS, Current
<1>8. ASSUME NEW v \in Windows \ {w} PROVE CallS(call[v])'
    <2>. SUFFICES ASSUME NEW c, c = call[v] PROVE CallS(c)'
        BY <1>3
    <2>1. CallS(c)
        BY <1>1
    <2>. QED BY <1>2, <2>1 DEF CallS, Current
<1>9. CallS(call[w])'
    BY <1>7
<1>. QED BY <1>4, <1>5, <1>6, <1>8, <1>9

LEMMA LoadSessions ==
    ASSUME IInv, Sessions, NEW w \in Windows, Load(w) PROVE Sessions'
<1>1. PICK what \in Gets, who \in Identities :
          /\ call' = [call EXCEPT ![w] = Request(what, who, None, key, None)]
          /\ raced' = (raced \/ (Fresh(Request(what, who, None, key, None))
                                   /\ \E v \in Windows : Fresh(call[v])))
    BY DEF Load
<1>. SUFFICES ASSUME NEW r, r = Request(what, who, None, key, None) PROVE Sessions'
    OBVIOUS
<1>2. r.what = what /\ r.cookie = jar /\ r.step = "sent" /\ r.set = None /\ r.page = None
    BY DEF Request
<1>3. call' = [call EXCEPT ![w] = r] /\ raced' = (raced \/ (Fresh(r) /\ \E v \in Windows : Fresh(call[v])))
    BY <1>1
<1>4. call'[w] = r /\ call' = [call EXCEPT ![w] = call'[w]]
    BY <1>3 DEF IInv
<1>5. call[w] = None /\ key' = key /\ jar' = jar /\ issued' = issued /\ page' = page
    BY DEF Load, Send
<1>6. /\ ~ raced' => ~ raced
      /\ ~ raced' /\ Fresh(call'[w]) => \A v \in Windows : ~ Fresh(call[v])
    BY <1>3, <1>4
<1>7. call'[w].what \notin Posts
    BY <1>2, <1>4 DEF Gets, Posts
<1>8. /\ call'[w].cookie = jar /\ call'[w].step = "sent" /\ call'[w].set = None /\ call'[w].page = None
    BY <1>2, <1>4
<1>. QED BY <1>4, <1>5, <1>6, <1>7, <1>8, StartSessions

LEMMA SubmitSessions ==
    ASSUME IInv, Sessions, NEW w \in Windows, NEW what \in Posts, NEW arg, page[w] # None, Submit(w, what, arg)
    PROVE  Sessions'
<1>1. PICK who \in Identities :
          call' = [call EXCEPT ![w] = Request(what, who, page[w].token, page[w].drawn, arg)]
    BY DEF Submit
<1>. SUFFICES ASSUME NEW r, r = Request(what, who, page[w].token, page[w].drawn, arg) PROVE Sessions'
    OBVIOUS
<1>2. /\ r.what = what /\ r.drawn = page[w].drawn /\ r.cookie = jar
      /\ r.step = "sent" /\ r.set = None /\ r.page = None
    BY DEF Request
<1>3. call'[w] = r /\ call' = [call EXCEPT ![w] = call'[w]]
    BY <1>1 DEF IInv
<1>4. /\ call[w] = None /\ key' = key /\ jar' = jar /\ issued' = issued /\ page' = page /\ raced' = raced
      /\ page[w].token # None
    BY DEF Submit, Send
<1>5. ~ Fresh(call'[w])
    BY <1>2, <1>3 DEF Fresh, Posts
<1>6. ~ raced' /\ call'[w].what \in Posts /\ call'[w].drawn = key => Current(jar)
    BY <1>2, <1>3, <1>4 DEF Sessions, PageS
<1>7. /\ call'[w].cookie = jar /\ call'[w].step = "sent" /\ call'[w].set = None /\ call'[w].page = None
    BY <1>2, <1>3
<1>. QED BY <1>3, <1>4, <1>5, <1>6, <1>7, StartSessions

LEMMA ReceiveSessions ==
    ASSUME IInv, Sessions, NEW w \in Windows, Receive(w) PROVE Sessions'
<1>1. key' = key /\ issued' = issued /\ raced' = raced
    BY DEF Receive
<1>. SUFFICES ASSUME NEW q, q = call[w], ~ raced
              PROVE  /\ OneToken' /\ OneBegins' /\ Brought'
                     /\ \A v \in Windows : PageS(page[v])' /\ CallS(call[v])'
    BY <1>1 DEF Sessions
<1>2. OneToken /\ OneBegins /\ Brought /\ \A v \in Windows : PageS(page[v]) /\ CallS(call[v])
    BY DEF Sessions
<1>3. q # None /\ CallS(q)
    BY <1>2 DEF Receive
<1>4. /\ jar' = IF q.set = None THEN jar ELSE q.set
      /\ page' = IF q.page = None THEN page ELSE [page EXCEPT ![w] = q.page]
      /\ call' = [call EXCEPT ![w] = None]
    BY DEF Receive
<1>5. /\ Current(jar) => Current(jar)'
      /\ q.set # None => Current(jar)'
    BY <1>1, <1>3, <1>4 DEF CallS, Current
<1>6. \A c : Fresh(c) <=> Fresh(c)'
    BY <1>1 DEF Fresh, Session
<1>7. call'[w] = None /\ \A v \in Windows \ {w} : call'[v] = call[v]
    BY <1>4 DEF IInv
<1>8. OneToken'
    BY <1>1, <1>2 DEF OneToken
<1>9. OneBegins'
    <2>1. \A v \in Windows : Begins(call[v])' => Begins(call[v])
        BY <1>6, <1>7 DEF Begins, Fresh
    <2>. QED BY <1>2, <2>1 DEF OneBegins
<1>10. Brought'
    <2>. SUFFICES ASSUME \E i \in 1..Len(issued) : issued[i] = key, ~ Current(jar)'
                  PROVE  \E v \in Windows : call'[v] # None /\ call'[v].set # None
        BY <1>1 DEF Brought
    <2>1. PICK v \in Windows : call[v] # None /\ call[v].set # None
        BY <1>2, <1>5 DEF Brought
    <2>2. v # w
        BY <1>5, <2>1
    <2>. QED BY <1>7, <2>1, <2>2
<1>11. \A v \in Windows : PageS(page[v])'
    <2>1. \A p : PageS(p) => PageS(p)'
        BY <1>1, <1>5 DEF PageS
    <2>2. CASE q.page = None
        BY <1>2, <1>4, <2>1, <2>2
    <2>3. CASE q.page # None
        <3>. SUFFICES ASSUME NEW p, p = q.page PROVE \A v \in Windows : PageS(page[v])'
            OBVIOUS
        <3>1. PageS(p)'
            BY <1>1, <1>3, <1>5, <2>3 DEF CallS, PageS
        <3>2. \A v \in Windows : page'[v] = p \/ page'[v] = page[v]
            BY <1>4, <2>3 DEF IInv
        <3>. QED BY <1>2, <2>1, <3>1, <3>2
    <2>. QED BY <2>2, <2>3
<1>12. \A v \in Windows : CallS(call[v])'
    <2>1. \A c : CallS(c) => CallS(c)'
        <3>. SUFFICES ASSUME NEW c, CallS(c) PROVE CallS(c)'
            OBVIOUS
        <3>1. Current(c.cookie)' = Current(c.cookie)
            BY <1>1 DEF Current
        <3>. QED BY <1>1, <1>5, <1>6, <3>1 DEF CallS
    <2>2. CallS(call[w])'
        BY <1>7 DEF CallS
    <2>. QED BY <1>2, <1>7, <2>1, <2>2
<1>. QED BY <1>8, <1>9, <1>10, <1>11, <1>12

(* Another key: nothing was created under it yet.                          *)
LEMMA RekeySessions ==
    ASSUME IInv, Sessions, Rekey PROVE Sessions'
<1>1. /\ key' = key + 1 /\ key \in Nat /\ issued \in Seq(Nat)
      /\ jar' = jar /\ issued' = issued /\ page' = page /\ call' = call
    BY DEF Rekey, IInv
<1>2. \A i \in 1..Len(issued) : issued[i] \in Nat /\ issued[i] <= key
    BY <1>1 DEF Sessions
<1>3. \A i \in 1..Len(issued) : issued[i] <= key' /\ issued[i] # key'
    BY <1>1, <1>2
<1>4. \A n, k : Born(n, k) => k # key'
    BY <1>3 DEF Born
<1>. SUFFICES ASSUME ~ raced'
              PROVE  /\ OneToken' /\ OneBegins' /\ Brought'
                     /\ \A v \in Windows : PageS(page[v])' /\ CallS(call[v])'
    BY <1>1, <1>3 DEF Sessions
<1>5. \A v \in Windows : call[v] # None => call[v].set = None /\ call[v].step = "answered"
    BY DEF Rekey
<1>6. OneToken' /\ Brought'
    BY <1>1, <1>3 DEF OneToken, Brought
<1>7. OneBegins'
    BY <1>1, <1>5 DEF OneBegins, Begins, Fresh
<1>8. \A v \in Windows : PageS(page[v])'
    <2>1. ASSUME NEW v \in Windows, page[v] # None, page[v].token # None PROVE page[v].drawn # key'
        BY <1>4, <2>1 DEF IInv, PageOK
    <2>. QED BY <1>1, <2>1 DEF PageS
<1>9. ASSUME NEW v \in Windows PROVE CallS(call[v])'
    <2>. SUFFICES ASSUME NEW q, q = call[v], q # None PROVE CallS(q)'
        BY <1>1 DEF CallS
    <2>1. q \in Calls /\ Known(q) /\ q.set = None /\ q.step = "answered"
        BY <1>5, Waiting
    <2>2. ~ Current(q.cookie)'
        BY <1>4, <2>1 DEF Known, CookieKnown, Current
    <2>3. q.page # None /\ q.page.token # None => q.page.drawn # key'
        BY <1>4, <2>1 DEF Known, PageOK
    <2>4. q.what \in Posts => q.drawn # key'
        BY <1>4, <2>1 DEF Known
    <2>. QED BY <2>1, <2>2, <2>3, <2>4 DEF CallS
<1>. QED BY <1>6, <1>7, <1>8, <1>9

(* The references page starts to be put together.                          *)
LEMMA ReadConfigSessions ==
    ASSUME IInv, Sessions, NEW w \in Windows, ReadConfig(w) PROVE Sessions'
<1>1. PICK seen \in Seq(Moments) : call' = [call EXCEPT ![w] = Reading(@, seen)]
    <2>1. <<config, certs>> \in Moments
        BY DEF Moments, IInv
    <2>2. << <<config, certs>> >> \in Seq(Moments)
        BY <2>1
    <2>. QED BY <2>2 DEF ReadConfig
<1>2. call[w] # None /\ call[w].step = "sent"
    BY DEF ReadConfig, Serving, At
<1>3. call[w] \in Calls /\ call[w].step \in {"sent", "reading"}
    BY <1>2, Waiting
<1>4. call'[w] = Reading(call[w], seen) /\ call' = [call EXCEPT ![w] = call'[w]]
    BY <1>1 DEF IInv
<1>5. Calm(call[w], call'[w])
    BY <1>2, <1>3, <1>4, ReadingCalm
<1>6. key' = key /\ jar' = jar /\ issued' = issued /\ page' = page /\ raced' = raced
    BY DEF ReadConfig, browser
<1>. QED BY <1>4, <1>5, <1>6, OneCalm

(* A dashboard without a token.                                            *)
LEMMA PlainSessions ==
    ASSUME IInv, Sessions, NEW w \in Windows, ShowDashboard(w), ~ settings.writes PROVE Sessions'
<1>. SUFFICES ASSUME NEW q, q = call[w], NEW p, p = Page("dashboard", None),
                     NEW r, r = Answered(q, 200, None, p) PROVE Sessions'
    OBVIOUS
<1>1. q # None /\ q.step = "sent"
    BY DEF ShowDashboard, Serving, At
<1>2. q \in Calls
    BY <1>1, Waiting
<1>3. p \in Pages /\ p.token = None
    BY DEF Page, Pages, Names, IInv
<1>4. /\ r \in Calls /\ r.what = q.what /\ r.cookie = q.cookie /\ r.token = q.token
      /\ r.drawn = q.drawn /\ r.step = "answered" /\ r.set = None /\ r.page = p
    BY <1>2, <1>3, AnsweredFields
<1>5. r # None
    BY <1>4, OperationsAssumption
<1>6. Calm(q, r)
    BY <1>1, <1>3, <1>4, <1>5 DEF Calm
<1>7. /\ key' = key /\ jar' = jar /\ issued' = issued /\ page' = page /\ raced' = raced
      /\ call' = [call EXCEPT ![w] = r]
    BY DEF ShowDashboard, browser
<1>8. call'[w] = r /\ call' = [call EXCEPT ![w] = call'[w]]
    BY <1>7 DEF IInv
<1>9. Calm(call[w], call'[w])
    BY <1>6, <1>8
<1>. QED BY <1>7, <1>8, <1>9, OneCalm

LEMMA ServeSessions ==
    ASSUME IInv, Sessions, NEW w \in Windows, Serve(w) PROVE Sessions'
<1>1. CASE ShowDashboard(w)
    <2>1. CASE settings.writes /\ AnswerForm(w, 200, "dashboard")
        BY <1>1, <2>1, FormSessions DEF ShowDashboard, Serving, At
    <2>2. CASE ~ settings.writes
        BY <1>1, <2>2, PlainSessions
    <2>. QED BY <1>1, <2>1, <2>2 DEF ShowDashboard
<1>2. CASE ShowUpload(w)
    BY <1>2, FormSessions DEF ShowUpload, Serving, At
<1>3. CASE AskAgain(w)
    <2>1. /\ call[w] # None /\ call[w].step = "sent" /\ AnswerForm(w, 400, "upload")
          /\ Session(call[w].cookie) # None
        BY <1>3 DEF AskAgain, Readable, Serving, At, Valid
    <2>. QED BY <2>1, FormSessions
<1>4. CASE Forward(w)
    BY <1>4, ForwardSessions
<1>5. CASE ReadConfig(w)
    BY <1>5, ReadConfigSessions
<1>6. CASE \/ Unauthenticated(w) \/ NotRegistered(w) \/ Unreachable(w) \/ TooLarge(w)
           \/ RejectToken(w) \/ Lost(w) \/ Relayed(w) \/ ReadCertificates(w)
    <2>1. call[w] # None /\ call[w].step # "answered"
        BY <1>6 DEF Unauthenticated, NotRegistered, Unreachable, TooLarge, RejectToken, Lost,
                   Relayed, ReadCertificates, Readable, Serving, At
    <2>2. \E status \in Nat : Answer(w, status)
        <3>1. call[w].outcome \in Nat
            BY <2>1, Waiting, Fields
        <3>2. Relay(call[w].outcome) \in Nat
            BY <3>1 DEF Relay
        <3>. QED BY <1>6, <3>2 DEF Unauthenticated, NotRegistered, Unreachable, TooLarge, RejectToken,
                   Lost, Relayed, ReadCertificates, Status
    <2>. QED BY <2>1, <2>2, AnswerSessions
<1>. QED BY <1>1, <1>2, <1>3, <1>4, <1>5, <1>6 DEF Serve

LEMMA StepSessions == ASSUME IInv, Sessions, [Next]_vars PROVE Sessions'
<1>1. CASE UNCHANGED vars
    BY <1>1 DEF vars, Sessions, OneToken, OneBegins, Brought, PageS, CallS, Begins, Fresh,
               Current, Session
<1>2. ASSUME NEW w \in Windows, PostRestart(w) \/ PostUpload(w) PROVE Sessions'
    BY <1>2, SubmitSessions DEF PostRestart, PostUpload, Posts
<1>. QED BY <1>1, <1>2, LoadSessions, ReceiveSessions, ServeSessions, CarrySessions,
            RekeySessions, ForeignSessions DEF Next

LEMMA InitSessions == ASSUME Init PROVE Sessions
<1>1. issued = << >> /\ \A i \in 1..Len(issued) : FALSE
    BY DEF Init
<1>. QED BY <1>1 DEF Init, Sessions, OneToken, OneBegins, Brought, PageS, CallS, Begins, Fresh

(* A form keeps working: whatever the windows do, and in whatever order    *)
(* their answers arrive, a post from a page drawn under the present key is *)
(* let through, unless the history has a race in it.                       *)
THEOREM PostsHonouredHolds == Spec => []PostsHonoured
<1>1. ASSUME IInv, Sessions PROVE PostsHonoured
    <2>. SUFFICES ASSUME NEW w \in Windows, NEW r, r = call[w], r # None,
                         r.what \in Posts, r.drawn = key, ~ raced
                  PROVE  Valid(r)
        BY DEF PostsHonoured
    <2>1. r \in Calls /\ Known(r)
        BY <1>1, Waiting
    <2>2. CallS(r) /\ OneToken
        BY <1>1 DEF Sessions
    <2>3. r.cookie # None /\ r.cookie.key = key
        BY <2>2 DEF CallS, Current
    <2>4. r.cookie \in Cookies
        BY <2>1, <2>3, Fields
    <2>5. Born(r.cookie.token, key) /\ Born(r.token, key)
        BY <2>1, <2>3 DEF Known, CookieKnown
    <2>6. r.token = r.cookie.token
        BY <2>2, <2>5 DEF OneToken, Born
    <2>7. r.cookie.token # None
        BY <2>4, OperationsAssumption DEF Cookies
    <2>. QED BY <2>3, <2>6, <2>7 DEF Valid, Session
<1>2. Spec => [](IInv /\ Sessions)
    BY InitOK, InitSessions, StepOK, StepSessions, PTL DEF Spec
<1>. QED BY <1>1, <1>2, PTL

-----------------------------------------------------------------------------
(* What the references page says is true.                                  *)

(* Every destination the configuration mentions anywhere.                  *)
Mentioned(c) ==
    {c.listeners[a].pass : a \in DOMAIN c.listeners}
    \cup UNION {Range(s[3]) : s \in Steps(c.routes)}

(* Handing on stays among them, and so does whatever a request can reach.  *)
LEMMA OnwardMentioned ==
    ASSUME NEW c, NEW to PROVE Onward(to, c) \in SUBSET Mentioned(c)
BY DEF Onward, Mentioned

LEMMA ServedIsMentioned ==
    ASSUME NEW c, IsFiniteSet(RouteNames(c.routes))
    PROVE  Served(c) \subseteq Mentioned(c)
<1>. DEFINE hops == Cardinality(RouteNames(c.routes)) + 1
            b == {c.listeners[a].pass : a \in DOMAIN c.listeners}
            M == Mentioned(c)
            More(B) == B \cup UNION {Onward(to, c) : to \in B}
            U == SUBSET M
            F == [B \in U |-> More(B)]
            Eq(g) == g = [k \in 0..hops |-> IF k = 0 THEN b ELSE More(g[k-1])]
            reached == CHOOSE g : Eq(g)
            S == {k \in 0..hops : reached[k] \in U}
<1>1. hops \in Nat
    BY FS_CardinalityType
<1>2. b \in U
    BY DEF Mentioned
<1>3. ASSUME NEW B \in U PROVE More(B) \in U
    BY OnwardMentioned
<1>4. F \in [U -> U]
    BY <1>3
<1>5. Eq(reached)
    <2>1. PICK g \in [0..hops -> U] : Iterates(g, hops, b, F)
        <3>. HIDE DEF F, b, U, hops
        <3>. QED BY <1>1, <1>2, <1>4, IteratesExist
    <2>2. ASSUME NEW k \in 1..hops PROVE g[k] = More(g[k-1])
        <3>1. k - 1 \in 0..hops
            BY <1>1
        <3>2. g[k-1] \in U
            BY <2>1, <3>1
        <3>. HIDE DEF More, U, hops
        <3>. QED BY <2>1, <2>2, <3>2 DEF Iterates
    <2>3. Eq(g)
        <3>. HIDE DEF F, More, b, U
        <3>. QED BY <1>1, <2>1, <2>2 DEF Iterates
    <2>. HIDE DEF Eq
    <2>. QED BY <2>3
<1>6. 0 \in S
    <2>. HIDE DEF More, b, hops, reached, U
    <2>. QED BY <1>1, <1>2, <1>5
<1>7. ASSUME NEW k \in 0..hops, k \in S, k < hops PROVE k + 1 \in S
    <2>1. reached[k+1] = More(reached[k])
        <3>. HIDE DEF More, b, hops, reached
        <3>. QED BY <1>1, <1>5, <1>7
    <2>. HIDE DEF More, hops, U, reached
    <2>. QED BY <1>1, <1>3, <1>7, <2>1
<1>8. hops \in S
    <2>. HIDE DEF S, hops
    <2>. QED BY <1>1, <1>6, <1>7, UpTo
<1>9. Served(c) = reached[hops]
    BY DEF Served
<1>. HIDE DEF reached, hops
<1>. QED BY <1>8, <1>9

(* The report has a reference for each of them but for actions that pass   *)
(* nothing on.                                                             *)
LEMMA MentionedIsReported ==
    ASSUME NEW c, NEW stored, NEW to \in Mentioned(c), to # Nowhere
    PROVE  \E r \in Analyse(c, stored).references :
                r.target = to /\ r.kind = Destination(to, c)[1] /\ r.resolved = Destination(to, c)[2]
<1>1. ASSUME NEW source, NEW S, S = {Reference(source, Destination(to, c)[1], to, Destination(to, c)[2])},
             S \subseteq PassReferences(c)
      PROVE  \E r \in Analyse(c, stored).references :
                r.target = to /\ r.kind = Destination(to, c)[1] /\ r.resolved = Destination(to, c)[2]
    BY <1>1 DEF Analyse, Reference
<1>2. CASE \E a \in DOMAIN c.listeners : to = c.listeners[a].pass
    <2>1. PICK a \in DOMAIN c.listeners : to = c.listeners[a].pass
        BY <1>2
    <2>2. {Reference(<<"listeners", a>>, Destination(to, c)[1], to, Destination(to, c)[2])}
              \subseteq PassReferences(c)
        BY <2>1 DEF PassReferences
    <2>. QED BY <1>1, <2>2
<1>3. CASE \E s \in Steps(c.routes) : to \in Range(s[3])
    <2>1. PICK s \in Steps(c.routes) : \E i \in DOMAIN s[3] : to = s[3][i]
        BY <1>3 DEF Range
    <2>3. PICK i \in DOMAIN s[3] : to = s[3][i]
        BY <2>1
    <2>. DEFINE Of(q, j) == IF q[3][j] = Nowhere THEN {}
                            ELSE {Reference(<<"routes", q[1], q[2], j>>,
                                            Destination(q[3][j], c)[1], q[3][j], Destination(q[3][j], c)[2])}
    <2>2. Of(s, i) = {Reference(<<"routes", s[1], s[2], i>>, Destination(to, c)[1], to, Destination(to, c)[2])}
        BY <2>3
    <2>4. UNION {UNION {Of(q, j) : j \in Actions(q[3])} : q \in Steps(c.routes)} \subseteq PassReferences(c)
        BY DEF PassReferences
    <2>5. Of(s, i) \subseteq PassReferences(c)
        <3>1. Of(s, i) \subseteq UNION {Of(s, j) : j \in Actions(s[3])}
            BY <2>3 DEF Actions
        <3>. HIDE DEF Of
        <3>. QED BY <2>4, <3>1
    <2>. HIDE DEF Of
    <2>. QED BY <1>1, <2>2, <2>5
<1>. QED BY <1>2, <1>3 DEF Mentioned

(* What a page that was answered saw: it starts with the configuration     *)
(* that was read and ends with the certificates that were.                 *)
LEMMA ReportSeen ==
    ASSUME IInv, NEW seen \in Reports
    PROVE  /\ seen \in Seq(Moments) /\ 1 \in DOMAIN seen /\ Len(seen) \in DOMAIN seen
           /\ seen[1][1] \in Configurations /\ Last(seen) = seen[Len(seen)]
<1>1. PICK w \in Windows : At(w, "answered") /\ call[w].what = "references"
                           /\ call[w].status = 200 /\ seen = call[w].seen
    BY DEF Reports
<1>2. call[w] \in Calls /\ Progress(call[w])
    BY <1>1, Waiting DEF At
<1>3. seen \in Seq(Moments)
    BY <1>1, <1>2, Fields
<1>4. seen # << >>
    BY <1>1, <1>2 DEF Progress, At
<1>5. 1 \in DOMAIN seen /\ Len(seen) \in DOMAIN seen
    BY <1>3, <1>4
<1>6. seen[1] \in Moments
    BY <1>3, <1>5
<1>. QED BY <1>3, <1>5, <1>6 DEF Moments, Last

(* A destination resolves as the page says: one that is not there and is   *)
(* not named with a variable is reported not to resolve.                   *)
LEMMA AbsentIsBroken ==
    ASSUME NEW c, NEW to, to # Nowhere, ~ Present(to, c), to.rest \notin Variables
    PROVE  Destination(to, c)[1] # "certificate" /\ Destination(to, c)[2] = "no"
<1>1. CASE to.head = "applications"
    BY <1>1 DEF Destination, Resolution, Present
<1>2. CASE to.head = "routes" /\ to.rest = ""
    BY <1>2 DEF Destination, Resolution, Present
<1>3. CASE to.head = "routes" /\ to.rest # ""
    BY <1>3 DEF Destination, Resolution, Present
<1>. QED BY <1>1, <1>2, <1>3 DEF Present

(* No pass is reported as a certificate.                                   *)
LEMMA PassKinds == ASSUME NEW c, NEW r \in PassReferences(c) PROVE r.kind # "certificate"
<1>1. \A to : Destination(to, c)[1] # "certificate"
    BY DEF Destination
<1>. QED BY <1>1 DEF PassReferences, Reference

(* The page says of the configuration it read what Unit would do with it:  *)
(* whatever a request can be handed to, through any number of routes and   *)
(* fallbacks, is there, or is reported broken, and no application among    *)
(* them is reported unused.                                                *)
THEOREM RoutingSoundHolds == Spec => []RoutingSound
<1>1. ASSUME IInv PROVE RoutingSound
    <2>. SUFFICES ASSUME NEW seen \in Reports, NEW c, c = seen[1][1], NEW report, report = Report(seen),
                         NEW to \in Served(c)
                  PROVE  /\ Present(to, c) \/ to.rest \in Variables \/ to = Nowhere
                            \/ \E b \in Broken(report) : b.kind # "certificate" /\ b.target = to
                         /\ to.head = "applications" => to.rest \notin report.unusedApplications
        BY DEF RoutingSound
    <2>1. IsFiniteSet(RouteNames(c.routes))
        BY <1>1, ReportSeen, OperationsAssumption
    <2>2. to \in Mentioned(c)
        BY <2>1, ServedIsMentioned
    <2>3. PICK stored : report = Analyse(c, stored)
        BY DEF Report
    <2>4. CASE to = Nowhere
        BY <2>4 DEF Nowhere, To
    <2>5. CASE to # Nowhere
        <3>1. PICK r \in report.references :
                  r.target = to /\ r.kind = Destination(to, c)[1] /\ r.resolved = Destination(to, c)[2]
            BY <2>2, <2>3, <2>5, MentionedIsReported
        <3>2. ASSUME ~ Present(to, c), to.rest \notin Variables
              PROVE  r \in Broken(report) /\ r.kind # "certificate" /\ r.target = to
            BY <2>5, <3>1, <3>2, AbsentIsBroken DEF Broken
        <3>3. ASSUME to.head = "applications" PROVE to.rest \notin report.unusedApplications
            <4>1. r.kind = "application"
                BY <3>1, <3>3 DEF Destination
            <4>2. r \in PassReferences(c) \cup CertificateReferences(c, stored)
                BY <2>3, <3>1 DEF Analyse
            <4>3. r \notin CertificateReferences(c, stored)
                BY <4>1 DEF CertificateReferences, Reference
            <4>4. r \in {p \in PassReferences(c) : p.kind = "application"}
                BY <4>1, <4>2, <4>3
            <4>. QED BY <2>3, <3>1, <4>4 DEF Analyse
        <3>. QED BY <3>2, <3>3
    <2>. QED BY <2>4, <2>5
<1>2. Spec => []IInv
    BY InitOK, StepOK, PTL DEF Spec
<1>. QED BY <1>1, <1>2, PTL

(* What the page says of certificates, read a moment later than the        *)
(* configuration, was so at some moment while it was made.                 *)
THEOREM ReportTrueHolds == Spec => []ReportTrue
<1>1. ASSUME IInv PROVE ReportTrue
    <2>. SUFFICES ASSUME NEW seen \in Reports, NEW n, n = Len(seen), NEW report, report = Report(seen)
                  PROVE  /\ \A b \in {r \in Broken(report) : r.kind = "certificate"} :
                            \/ \E i \in DOMAIN seen : b.target \in Wanted(seen[i][1]) \ seen[i][2]
                            \/ \E i, j \in DOMAIN seen : i < j /\ b.target \in seen[i][2] \ seen[j][2]
                         /\ \A u \in report.unusedCertificates :
                            (\A i \in DOMAIN seen : u \in seen[i][2])
                                => \E i \in DOMAIN seen : u \notin Wanted(seen[i][1])
        BY DEF ReportTrue
    <2>1. /\ seen \in Seq(Moments) /\ 1 \in DOMAIN seen /\ n \in DOMAIN seen
          /\ n \in Nat /\ 1 <= n
          /\ report = Analyse(seen[1][1], seen[n][2])
        <3>1. seen \in Seq(Moments) /\ 1 \in DOMAIN seen /\ n \in DOMAIN seen /\ Last(seen) = seen[n]
            BY <1>1, ReportSeen
        <3>. QED BY <3>1 DEF Report
    <2>. DEFINE listed == CertificateReferences(seen[1][1], seen[n][2])
    <2>2. \A r \in listed : /\ r.target \in Wanted(seen[1][1])
                            /\ r.resolved = "no" => r.target \notin seen[n][2]
        BY DEF CertificateReferences, Reference, Resolution, Wanted
    <2>3. ASSUME NEW u \in Wanted(seen[1][1]) PROVE \E r \in listed : r.target = u
        <3>. SUFFICES ASSUME NEW c, c = seen[1][1], NEW stored, stored = seen[n][2]
                      PROVE  \E r \in CertificateReferences(c, stored) : r.target = u
            OBVIOUS
        <3>1. PICK a \in DOMAIN c.listeners : u \in c.listeners[a].certificates
            BY <2>3 DEF Wanted
        <3>. DEFINE r == Reference(<<"listeners", a>>, "certificate", u, Resolution(u \in stored))
        <3>2. r \in CertificateReferences(c, stored)
            BY <3>1 DEF CertificateReferences
        <3>3. r.target = u
            BY DEF Reference
        <3>. QED BY <3>2, <3>3
    <2>4. ASSUME NEW b \in Broken(report), b.kind = "certificate"
          PROVE  \/ \E i \in DOMAIN seen : b.target \in Wanted(seen[i][1]) \ seen[i][2]
                 \/ \E i, j \in DOMAIN seen : i < j /\ b.target \in seen[i][2] \ seen[j][2]
        <3>1. b \in PassReferences(seen[1][1]) \cup listed /\ b.resolved = "no"
            BY <2>1 DEF Broken, Analyse
        <3>2. b \notin PassReferences(seen[1][1])
            BY <2>4, PassKinds
        <3>3. b.target \in Wanted(seen[1][1]) /\ b.target \notin seen[n][2]
            <4>. HIDE DEF listed
            <4>1. b \in listed /\ b.resolved = "no"
                BY <3>1, <3>2
            <4>. QED BY <2>2, <4>1
        <3>4. CASE b.target \notin seen[1][2]
            BY <2>1, <3>3, <3>4
        <3>5. CASE b.target \in seen[1][2]
            <4>1. 1 < n
                BY <2>1, <3>3, <3>5
            <4>. QED BY <2>1, <3>3, <3>5, <4>1
        <3>. QED BY <3>4, <3>5
    <2>5. ASSUME NEW u \in report.unusedCertificates PROVE u \notin Wanted(seen[1][1])
        <3>1. u \notin {r.target : r \in listed}
            BY <2>1 DEF Analyse
        <3>. HIDE DEF listed
        <3>. QED BY <2>3, <3>1
    <2>. QED BY <2>1, <2>4, <2>5
<1>2. Spec => []IInv
    BY InitOK, StepOK, PTL DEF Spec
<1>. QED BY <1>1, <1>2, PTL
=============================================================================
