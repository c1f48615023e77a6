----------------------------- MODULE References -----------------------------
(***************************************************************************)
(* What a configuration points at (references.py).  A configuration is     *)
(* [applications, routes, listeners]: the names of the applications, the   *)
(* route steps, and each listener's destination and certificates.  Routes  *)
(* are <<"list", steps>> or <<"object", steps by route name>>; a step is   *)
(* the sequence of the destinations of its action and of the fallbacks     *)
(* nested in it.  A destination is the pass string split at its first      *)
(* slash.                                                                  *)
(***************************************************************************)
EXTENDS Integers, SequencesExt

CONSTANT Variables      \* what follows the slash and contains a "$"

To(head, rest) == [head |-> head, rest |-> rest]
Nowhere        == To("", "")    \* an action without a pass

RouteNames(routes) == IF routes[1] = "object" THEN DOMAIN routes[2] ELSE {}

(* _destination: its kind and whether it resolves.                         *)
Resolution(there) == IF there THEN "yes" ELSE "no"

Destination(to, config) ==
    LET dynamic == to.rest \in Variables IN
    CASE to.head = "applications" ->
            <<"application", IF dynamic THEN "unknown" ELSE Resolution(to.rest \in config.applications)>>
      [] to.head = "routes" /\ to.rest = "" ->
            <<"route", Resolution(config.routes[1] = "list")>>
      [] to.head = "routes" /\ to.rest # "" ->
            <<"route", IF dynamic THEN "unknown" ELSE Resolution(to.rest \in RouteNames(config.routes))>>
      [] OTHER -> <<"route", "unknown">>

(* _steps: every step with where it is.                                    *)
Steps(routes) ==
    CASE routes[1] = "list"   -> {<<"", i, routes[2][i]>> : i \in DOMAIN routes[2]}
      [] routes[1] = "object" ->
            UNION {{<<n, i, routes[2][n][i]>> : i \in DOMAIN routes[2][n]} : n \in DOMAIN routes[2]}
      [] OTHER -> {}

Reference(source, kind, target, resolved) ==
    [source |-> source, kind |-> kind, target |-> target, resolved |-> resolved]

(* _actions: an action and every fallback nested inside it.                *)
ActionsShallow(step) == {1} \cap DOMAIN step    \* (mutant) fallbacks are not followed

Actions(step) == DOMAIN step

(* analyse.                                                                *)
PassReferences(config) ==
    LET Pass(source, to) ==
            IF to = Nowhere THEN {}
            ELSE LET d == Destination(to, config) IN {Reference(source, d[1], to, d[2])}
    IN  (UNION {Pass(<<"listeners", a>>, config.listeners[a].pass) : a \in DOMAIN config.listeners})
        \cup (UNION {UNION {Pass(<<"routes", s[1], s[2], i>>, s[3][i]) : i \in Actions(s[3])}
                     : s \in Steps(config.routes)})

CertificateReferences(config, stored) ==
    UNION {{Reference(<<"listeners", a>>, "certificate", c, Resolution(c \in stored)) :
                c \in config.listeners[a].certificates} : a \in DOMAIN config.listeners}

Analyse(config, stored) ==
    LET passes == PassReferences(config)
        certs  == CertificateReferences(config, stored)
    IN  [references |-> passes \cup certs,
         unusedApplications |->
            config.applications \ {r.target.rest : r \in {p \in passes : p.kind = "application"}},
         unusedCertificates |-> stored \ {r.target : r \in certs}]

Broken(report) == {r \in report.references : r.resolved = "no"}
-----------------------------------------------------------------------------
(***************************************************************************)
(* How Unit serves a request (external): a listener passes it on, a route  *)
(* tries its steps, and a step hands it to its action or, when that does   *)
(* not handle it, to the fallback.  A request may reach any of these.      *)
(***************************************************************************)

(* The destinations a request can be handed to from a destination.         *)
Onward(to, config) ==
    UNION {Range(s[3]) : s \in {q \in Steps(config.routes) : to.head = "routes" /\ q[1] = to.rest}}

(* Those it can reach, in as many hand-overs as there are routes.          *)
Served(config) ==
    LET hops == Cardinality(RouteNames(config.routes)) + 1
        reached[k \in 0..hops] ==
            IF k = 0 THEN {config.listeners[a].pass : a \in DOMAIN config.listeners}
            ELSE LET before == reached[k-1] IN
                 before \cup UNION {Onward(to, config) : to \in before}
    IN  reached[hops]

(* Whether a destination is there for Unit to hand a request to.           *)
Present(to, config) ==
    \/ to.head = "applications" /\ to.rest \in config.applications
    \/ to.head = "routes" /\ to.rest \in RouteNames(config.routes)
    \/ to.head = "routes" /\ to.rest = "" /\ config.routes[1] = "list"
    \/ to.head \notin {"applications", "routes"}
=============================================================================
