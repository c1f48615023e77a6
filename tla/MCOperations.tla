---------------------------- MODULE MCOperations ----------------------------
(* Instances of Operations for TLC.                                        *)
EXTENDS Operations, TLC

CONSTANTS w1, w2

MCWindows == {w1, w2}
MCSymmetry == Permutations(MCWindows)

Listener(pass, names) == [pass |-> pass, certificates |-> names]

(* A list of routes, by way of which one application is reached.           *)
Listed ==
    [applications |-> {"blog"},
     routes |-> <<"list", << <<To("applications", "blog"), To("routes", "old")>>, <<Nowhere>> >> >>,
     listeners |-> [a \in {"plain"} |-> Listener(To("routes", ""), {})]]

(* Named routes whose fallbacks lead to one another and to what is gone;   *)
(* a bundle is in use.                                                     *)
Named ==
    [applications |-> {"blog"},
     routes |-> <<"object", [main |-> << <<To("upstreams", "pool"), To("routes", "rest")>> >>,
                             rest |-> << <<Nowhere, To("applications", "$host")>>,
                                         <<To("applications", "blog"), To("applications", "gone")>> >>]>>,
     listeners |-> [a \in {"tls"} |-> Listener(To("routes", "main"), {"site"})]]

MCConfigurations == {Listed, Named}

Upload(name, pem, good, big) == [name |-> name, pem |-> pem, good |-> good, big |-> big]

MCUploads == {Upload("site", TRUE, TRUE, FALSE), Upload("site", TRUE, FALSE, FALSE),
              Upload("..", TRUE, TRUE, FALSE), Upload("site", FALSE, FALSE, TRUE)}
=============================================================================
