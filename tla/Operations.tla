----------------------------- MODULE Operations -----------------------------
(***************************************************************************)
(* What happens between a browser and the interface around every request,  *)
(* and the operations that take no baseline and no snapshot: the identity  *)
(* gate (web/auth.py), the CSRF token in the session cookie (web/csrf.py), *)
(* restarting an application, storing a certificate bundle, and the        *)
(* references page, which reads unitd twice.  Several windows of one       *)
(* browser share its cookie; each has at most one request under way.       *)
(***************************************************************************)
EXTENDS References

CONSTANTS
    Windows,         \* the browser's windows
    Configurations,  \* configurations the control API's other clients store
    Certificates,    \* names of certificate bundles
    Uploads,         \* what the upload form may carry: [name, pem, good, big]
    None,            \* no page, cookie, token, identity or request
    MaxRequests,     \* bound: requests sent
    MaxTokens,       \* bound: sessions begun
    MaxKeys,         \* bound: changes of the signing key
    MaxForeign       \* bound: changes by other clients of the control API

Gets  == {"dashboard", "upload", "references"}
Posts == {"restart", "store"}
Names == UNION {c.applications : c \in Configurations}

(* What a session cookie holds: the key it is signed with, and a token.    *)
Cookies == [key : Nat, token : Nat]

Pages == [what : {"dashboard", "upload"}, token : Nat \cup {None}, drawn : Nat, shown : SUBSET Names]

(* unitd's configuration and bundles at one moment.                        *)
Moments == Configurations \X SUBSET Certificates

(* A request, and what becomes of it.                                      *)
Calls ==
    [what : Gets \cup Posts, who : {None, "operator"}, cookie : Cookies \cup {None},
     token : Nat \cup {None}, drawn : Nat, arg : {None} \cup [name : Names] \cup Uploads,
     step : {"sent", "reading", "forwarded", "answered"}, outcome : {0, 200, 400, 404},
     seen : Seq(Moments), status : Nat, set : Cookies \cup {None}, page : Pages \cup {None}]

ASSUME OperationsAssumption ==
    /\ None \notin Nat /\ None \notin Cookies /\ None \notin Pages /\ None \notin Calls
    /\ MaxForeign \in Nat
    /\ \A c \in Configurations : IsFiniteSet(RouteNames(c.routes))

VARIABLES
    settings,   \* the settings the processes started with
    key,        \* the signing key, by number
    jar,        \* the session cookie in the browser, [key, token]
    issued,     \* the keys the tokens were created under; a token is its number
    page,       \* the page in each window
    call,       \* each window's request, with its answer once there is one
    config,     \* unitd's configuration
    certs,      \* the stored certificate bundles
    foreign,    \* how many changes other clients made
    sent,       \* how many requests were sent
    raced       \* (history) a session began while requests of another were under way

vars    == <<settings, key, jar, issued, page, call, config, certs, foreign, sent, raced>>
unitd   == <<config, certs, foreign>>
browser == <<settings, key, jar, page, sent, raced>>

-----------------------------------------------------------------------------
(* Settings: whether the gate is on (the process does not start with a     *)
(* gate and no header to read) and whether writes are enabled (it does not *)
(* start with writes and no key).                                          *)

Init ==
    /\ settings \in [auth : BOOLEAN, writes : BOOLEAN]
    /\ key = 0 /\ jar = None /\ issued = << >>
    /\ page = [w \in Windows |-> None] /\ call = [w \in Windows |-> None]
    /\ config \in Configurations /\ certs \in SUBSET Certificates
    /\ foreign = 0 /\ sent = 0 /\ raced = FALSE

-----------------------------------------------------------------------------
(* Sessions.  A cookie is signed: under another key it holds no session.   *)

Cookie(token) == [key |-> key, token |-> token]

SessionUnsigned(cookie) == IF cookie = None THEN None ELSE cookie.token    \* (mutant)

Session(cookie) == IF cookie # None /\ cookie.key = key THEN cookie.token ELSE None

(* issue_token: the session's token, or a new one and the cookie for it.   *)
IssueAlways(cookie) ==    \* (mutant) a token for each page
    [token |-> Len(issued) + 1, set |-> Cookie(Len(issued) + 1)]

Issue(cookie) ==
    IF Session(cookie) # None THEN [token |-> Session(cookie), set |-> None]
    ELSE [token |-> Len(issued) + 1, set |-> Cookie(Len(issued) + 1)]

(* validate.                                                               *)
Valid(r) == Session(r.cookie) # None /\ r.token = Session(r.cookie)

-----------------------------------------------------------------------------
(* Requests.  A request carries the cookie of the moment it is sent, and   *)
(* the identity the proxy asserts, where the gate reads it.                *)

Page(what, token) ==
    [what |-> what, token |-> token, drawn |-> key,
     shown |-> IF what = "dashboard" THEN config.applications ELSE {}]

Request(what, who, token, drawn, arg) ==
    [what |-> what, who |-> who, cookie |-> jar, token |-> token, drawn |-> drawn, arg |-> arg,
     step |-> "sent", outcome |-> 0, seen |-> << >>, status |-> 0, set |-> None, page |-> None]

Identities == IF settings.auth THEN {None, "operator"} ELSE {None}

Fresh(r) == r # None /\ r.what \in {"dashboard", "upload"} /\ Session(r.cookie) = None

Beginning == {v \in Windows : Fresh(call[v]) /\ call[v].step = "sent"}

(* Bound: MaxRequests.                                                     *)
Send(w) == call[w] = None /\ sent < MaxRequests /\ sent' = sent + 1

(* Bound: MaxTokens.                                                       *)
Load(w) ==
    /\ Send(w)
    /\ \E what \in Gets, who \in Identities :
        LET r == Request(what, who, None, key, None) IN
        /\ Fresh(r) => Len(issued) + Cardinality(Beginning) < MaxTokens
        /\ call' = [call EXCEPT ![w] = r]
        /\ raced' = (raced \/ (Fresh(r) /\ \E v \in Windows : Fresh(call[v])))
    /\ UNCHANGED <<settings, key, jar, issued, page, unitd>>

(* A form is posted, or posted again from a page gone back to.             *)
Submit(w, what, arg) ==
    /\ Send(w) /\ page[w].token # None
    /\ \E who \in Identities :
        call' = [call EXCEPT ![w] = Request(what, who, page[w].token, page[w].drawn, arg)]
    /\ UNCHANGED <<settings, key, jar, issued, page, raced, unitd>>

PostRestart(w) ==
    page[w] # None /\ \E name \in page[w].shown : Submit(w, "restart", [name |-> name])

PostUpload(w) ==
    page[w] # None /\ page[w].what = "upload" /\ \E u \in Uploads : Submit(w, "store", u)

(* The answer arrives.  One without a page of ours leaves the form behind. *)
Receive(w) ==
    /\ call[w] # None /\ call[w].step = "answered"
    /\ jar' = IF call[w].set = None THEN jar ELSE call[w].set
    /\ page' = IF call[w].page = None THEN page ELSE [page EXCEPT ![w] = call[w].page]
    /\ call' = [call EXCEPT ![w] = None]
    /\ UNCHANGED <<settings, key, issued, sent, raced, unitd>>

(* The processes start again with another key.  Bound: MaxKeys, and no     *)
(* request is being worked on.                                             *)
Rekey ==
    /\ key < MaxKeys
    /\ \A w \in Windows : call[w] # None => call[w].step = "answered"
    /\ key' = key + 1
    /\ raced' = (raced \/ \E w \in Windows : call[w] # None /\ call[w].set # None)
    /\ UNCHANGED <<settings, jar, issued, page, call, sent, unitd>>

-----------------------------------------------------------------------------
(* Answering.                                                              *)

Answered(r, status, set, shown) ==
    [r EXCEPT !.step = "answered", !.status = status, !.set = set, !.page = shown]

Answer(w, status) ==
    /\ call' = [call EXCEPT ![w] = Answered(@, status, None, None)]
    /\ UNCHANGED <<browser, issued, unitd>>

(* A page with a form has this session's token.                            *)
AnswerForm(w, status, what) ==
    LET t == Issue(call[w].cookie) IN
    /\ call' = [call EXCEPT ![w] = Answered(@, status, t.set, Page(what, t.token))]
    /\ issued' = IF t.set = None THEN issued ELSE Append(issued, key)
    /\ UNCHANGED <<browser, unitd>>

(* The error handlers' statuses.                                           *)
StatusGone(error) ==    \* (mutant) an answer that was lost reads as a refusal
    CASE error = "NotAuthenticatedError" -> 401
      [] error = "CsrfError" -> 400
      [] error = "RequestEntityTooLarge" -> 413
      [] OTHER -> 404

Status(error) ==
    CASE error = "NotAuthenticatedError" -> 401
      [] error = "CsrfError" -> 400
      [] error = "RequestEntityTooLarge" -> 413
      [] error = "NotFound" -> 404
      [] error = "UnitConnectionError" -> 502

(* UnitAPIError: unitd's own status, if it refused the request.            *)
Relay(status) == IF status \in 400..499 THEN status ELSE 502

At(w, step) == call[w] # None /\ call[w].step = step

(* The gate before every request.                                          *)
Admitted(r) == settings.auth => r.who # None

Unauthenticated(w) ==
    At(w, "sent") /\ ~ Admitted(call[w]) /\ Answer(w, Status("NotAuthenticatedError"))

(* The write endpoints exist only with enable_writes.                      *)
Registered(r) == r.what \in {"dashboard", "references"} \/ settings.writes

NotRegistered(w) ==
    At(w, "sent") /\ Admitted(call[w]) /\ ~ Registered(call[w]) /\ Answer(w, Status("NotFound"))

Serving(w, what) ==
    At(w, "sent") /\ Admitted(call[w]) /\ Registered(call[w]) /\ call[w].what = what

ShowDashboardToken(w) == Serving(w, "dashboard") /\ AnswerForm(w, 200, "dashboard")    \* (mutant)

(* The dashboard has a token only where a button could use it.             *)
ShowDashboard(w) ==
    /\ Serving(w, "dashboard")
    /\ \/ settings.writes /\ AnswerForm(w, 200, "dashboard")
       \/ /\ ~ settings.writes
          /\ call' = [call EXCEPT ![w] = Answered(@, 200, None, Page("dashboard", None))]
          /\ UNCHANGED <<browser, issued, unitd>>

ShowUpload(w) == Serving(w, "upload") /\ AnswerForm(w, 200, "upload")

(* A page that reads unitd, which cannot be reached.                       *)
Unreachable(w) ==
    /\ \/ Serving(w, "dashboard") \/ Serving(w, "references")
       \/ At(w, "reading")
    /\ Answer(w, Status("UnitConnectionError"))

-----------------------------------------------------------------------------
(* The operations.  The body is read for the token, so its size comes      *)
(* first.                                                                  *)

TooLarge(w) ==
    /\ Serving(w, "store") /\ call[w].arg.big
    /\ Answer(w, Status("RequestEntityTooLarge"))

Readable(w) == Serving(w, "restart") \/ (Serving(w, "store") /\ ~ call[w].arg.big)

RejectToken(w) == Readable(w) /\ ~ Valid(call[w]) /\ Answer(w, Status("CsrfError"))

(* certificate_upload: a bundle that cannot be one is not sent to unitd.   *)
Problem(u) == u.name \notin Certificates \/ ~ u.pem

AskAgain(w) ==
    /\ Readable(w) /\ Valid(call[w])
    /\ call[w].what = "store" /\ Problem(call[w].arg)
    /\ AnswerForm(w, 400, "upload")

Forward(w) ==
    /\ Readable(w) /\ Valid(call[w])
    /\ call[w].what = "store" => ~ Problem(call[w].arg)
    /\ call' = [call EXCEPT ![w] = [@ EXCEPT !.step = "forwarded"]]
    /\ UNCHANGED <<browser, issued, unitd>>

(* The client gives up, before or after unitd has carried the call out.    *)
Lost(w) == At(w, "forwarded") /\ Answer(w, Status("UnitConnectionError"))

(* What was forwarded and not carried out yet; its client may be gone.     *)
Due(w) ==
    /\ At(w, "forwarded") \/ (At(w, "answered") /\ call[w].status = 502)
    /\ call[w].what \in Posts /\ call[w].outcome = 0

(* A redirect once unitd has done it, and unitd's refusal otherwise.       *)
Relayed(w) ==
    /\ At(w, "forwarded") /\ call[w].outcome # 0
    /\ Answer(w, IF call[w].outcome = 200 THEN 302 ELSE Relay(call[w].outcome))

-----------------------------------------------------------------------------
(* unitd (external), and its other clients.                                *)

(* A page being put together, and what it could see, moment by moment.     *)
Reading(r, seen) == [r EXCEPT !.step = "reading", !.seen = seen]

Watched(calls, c, stored) ==
    [v \in Windows |->
        IF calls[v] # None /\ calls[v].step = "reading" /\ <<c, stored>> # Last(calls[v].seen)
        THEN Reading(calls[v], Append(calls[v].seen, <<c, stored>>))
        ELSE calls[v]]

Carried(w, outcome) == [call EXCEPT ![w] = [@ EXCEPT !.outcome = outcome]]

CarryRestart(w) ==
    /\ Due(w) /\ call[w].what = "restart"
    /\ call' = Carried(w, IF call[w].arg.name \in config.applications THEN 200 ELSE 404)
    /\ UNCHANGED <<browser, issued, unitd>>

CarryUpload(w) ==
    /\ Due(w) /\ call[w].what = "store"
    /\ \/ /\ call[w].arg.good
          /\ certs' = certs \cup {call[w].arg.name}
          /\ call' = Watched(Carried(w, 200), config, certs')
       \/ /\ ~ call[w].arg.good
          /\ UNCHANGED certs /\ call' = Carried(w, 400)
    /\ UNCHANGED <<browser, issued, config, foreign>>

(* Bound: MaxForeign.                                                      *)
Foreign ==
    /\ foreign < MaxForeign /\ foreign' = foreign + 1
    /\ \/ config' \in Configurations \ {config} /\ UNCHANGED certs
       \/ UNCHANGED config /\ \E c \in Certificates : certs' \in {certs \cup {c}, certs \ {c}} \ {certs}
    /\ call' = Watched(call, config', certs')
    /\ UNCHANGED <<browser, issued>>

-----------------------------------------------------------------------------
(* The references page: the configuration first, then the certificates.    *)

ReadConfig(w) ==
    /\ Serving(w, "references")
    /\ call' = [call EXCEPT ![w] = Reading(@, << <<config, certs>> >>)]
    /\ UNCHANGED <<browser, issued, unitd>>

ReadCertificates(w) == At(w, "reading") /\ Answer(w, 200)

(* What the page says, of what was there when each was read.               *)
ReportCertsFirst(seen) == Analyse(Last(seen)[1], seen[1][2])    \* (mutant) the other order

Report(seen) == Analyse(seen[1][1], Last(seen)[2])

-----------------------------------------------------------------------------
Serve(w) ==
    \/ Unauthenticated(w) \/ NotRegistered(w)
    \/ ShowDashboard(w) \/ ShowUpload(w) \/ Unreachable(w)
    \/ TooLarge(w) \/ RejectToken(w) \/ AskAgain(w) \/ Forward(w) \/ Lost(w) \/ Relayed(w)
    \/ ReadConfig(w) \/ ReadCertificates(w)

Next ==
    \/ \E w \in Windows :
        \/ Load(w) \/ PostRestart(w) \/ PostUpload(w) \/ Receive(w)
        \/ Serve(w)
        \/ CarryRestart(w) \/ CarryUpload(w)
    \/ Rekey
    \/ Foreign

Spec == Init /\ [][Next]_vars

-----------------------------------------------------------------------------
RequestOK(r) ==
    /\ r.what \in Gets \cup Posts /\ r.who \in {None, "operator"} /\ r.cookie \in Cookies \cup {None}
    /\ r.step \in {"sent", "reading", "forwarded", "answered"}
    /\ r.outcome \in {0, 200, 400, 404}
    /\ r.seen \in Seq(Moments) /\ (r.step = "reading" => r.seen # << >>)
    /\ r.set \in Cookies \cup {None} /\ r.page \in Pages \cup {None}

(* The states the processes, the browser and unitd can be in: what a       *)
(* session, a page, a request and its answer are made of, and that pages   *)
(* with a token exist only where the write endpoints do (app.py).          *)
TypeOK ==
    /\ jar \in Cookies \cup {None} /\ issued \in Seq(Nat) /\ key \in Nat
    /\ \A w \in Windows :
        /\ page[w] \in Pages \cup {None}
        /\ call[w] = None \/ RequestOK(call[w])
        /\ page[w] # None => (page[w].token # None <=> settings.writes)
    /\ config \in Configurations /\ certs \subseteq Certificates /\ foreign \in 0..MaxForeign

(* A form keeps working: unless two windows began a session at the same    *)
(* time, or an answer was under way when the processes came back with      *)
(* another key, the token in every page drawn under the present key is the *)
(* one its posts are compared with, however many windows, redisplayed      *)
(* forms and earlier sessions there are (csrf.issue_token, csrf.validate). *)
PostsHonoured ==
    \A w \in Windows :
        call[w] # None /\ call[w].what \in Posts /\ call[w].drawn = key /\ ~ raced => Valid(call[w])

(* Nothing is asked of unitd except by a form drawn under the present key  *)
(* for the session the browser still has, with writes enabled and, where   *)
(* the gate is on, for someone: no page kept from before a restart, no     *)
(* session of another window and no read page gets there (auth.py, app.py, *)
(* csrf.validate).                                                         *)
ChangesAuthorised ==
    \A w \in Windows :
        At(w, "forwarded") =>
            /\ settings.writes /\ (settings.auth => call[w].who # None)
            /\ call[w].drawn = key /\ call[w].token = call[w].cookie.token

(* An answer is true of what unitd did for this request, whichever of the  *)
(* steps failed and whatever other clients did before the answer was seen: *)
(* a redirect means it was done, a refusal that it was not and will not    *)
(* be; only a bad gateway leaves it open (client._send, the error handlers *)
(* of views.py, writes.restart and certificate_upload).                    *)
AnswersTrue ==
    \A w \in Windows :
        At(w, "answered") /\ call[w].what \in Posts =>
            /\ call[w].status = 302 => call[w].outcome = 200
            /\ call[w].status \in 400..499 => call[w].outcome # 200 /\ ~ Due(w)

Reports == {call[w].seen : w \in {v \in Windows :
                At(v, "answered") /\ call[v].what = "references" /\ call[v].status = 200}}

Wanted(c) == UNION {c.listeners[a].certificates : a \in DOMAIN c.listeners}

(* The references page reads unitd twice, and others write in between.  A  *)
(* bundle it calls missing was missing from a configuration that was in    *)
(* force, or was deleted while the page was made; one it calls unused that *)
(* was there all the time was unused for a moment (views.references).      *)
ReportTrue ==
    \A seen \in Reports :
        LET report == Report(seen) IN
        /\ \A b \in {r \in Broken(report) : r.kind = "certificate"} :
            \/ \E i \in DOMAIN seen : b.target \in Wanted(seen[i][1]) \ seen[i][2]
            \/ \E i, j \in DOMAIN seen : i < j /\ b.target \in seen[i][2] \ seen[j][2]
        /\ \A u \in report.unusedCertificates :
            (\A i \in DOMAIN seen : u \in seen[i][2])
                => \E i \in DOMAIN seen : u \notin Wanted(seen[i][1])

(* What Unit may do with a request under the configuration that was read:  *)
(* every place it can be handed to, through any routes and fallbacks, is   *)
(* there or is reported broken unless it is named with a variable, and an  *)
(* application that can be reached by name is not reported unused          *)
(* (references.analyse).                                                   *)
RoutingSound ==
    \A seen \in Reports :
        LET c      == seen[1][1]
            report == Report(seen)
        IN  \A to \in Served(c) :
                /\ Present(to, c) \/ to.rest \in Variables \/ to = Nowhere
                   \/ \E b \in Broken(report) : b.kind # "certificate" /\ b.target = to
                /\ to.head = "applications" => to.rest \notin report.unusedApplications
=============================================================================
