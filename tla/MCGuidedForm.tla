---------------------------- MODULE MCGuidedForm ----------------------------
(***************************************************************************)
(* An excerpt of the bundled specification: applications with a branch for *)
(* each of two types and objects inside, the telemetry settings, and the   *)
(* access log, which is a path or an object.  Every union of the excerpt   *)
(* is an anyOf.                                                            *)
(***************************************************************************)
EXTENDS GuidedForm

MCNodes == {"config", "applicationsRef", "applications", "applicationRef", "application",
            "phpRef", "pythonRef", "commonRef", "common", "type", "processes", "workers",
            "limits", "python", "pythonOwn", "path", "stringsRef", "strings", "php", "phpOwn", "settings",
            "telemetry", "accessLog", "accessLogRef", "accessLogObject",
            "string", "integer", "number", "boolean", "object"}

LOCAL Refs == [applicationsRef |-> "applications", applicationRef |-> "application",
               phpRef |-> "php", pythonRef |-> "python", commonRef |-> "common",
               stringsRef |-> "strings", accessLogRef |-> "accessLogObject"]
LOCAL Properties ==
    [config    |-> [applications |-> "applicationsRef", settings |-> "settings",
                   access_log |-> "accessLog"],
     accessLogObject |-> [path |-> "string", format |-> "string"],
     common    |-> [type |-> "type", processes |-> "processes", limits |-> "limits"],
     workers   |-> [max |-> "integer", idle |-> "integer"],
     limits    |-> [timeout |-> "integer", requests |-> "integer"],
     pythonOwn |-> [module |-> "string", path |-> "path", threads |-> "integer"],
     phpOwn    |-> [root |-> "string"],
     settings  |-> [telemetry |-> "telemetry"],
     telemetry |-> [sampling_ratio |-> "number", secure |-> "boolean", headers |-> "object"]]
LOCAL RequiredOf == [common |-> {"type"}, pythonOwn |-> {"module"}, phpOwn |-> {"root"}]
LOCAL Parts   == [python |-> <<"commonRef", "pythonOwn">>, php |-> <<"commonRef", "phpOwn">>]
LOCAL OneOf   == [application |-> {"phpRef", "pythonRef"}, processes |-> {"integer", "workers"},
                  path |-> {"string", "stringsRef"}, accessLog |-> {"string", "accessLogRef"}]
LOCAL TypedAs == [type |-> "string", strings |-> "array", telemetry |-> "object",
                  accessLogObject |-> "object", workers |-> "object", limits |-> "object"]

MCSpec ==
    [n \in MCNodes |->
        [ref        |-> (Refs @@ (n :> "none"))[n],
         props      |-> (Properties @@ (n :> << >>))[n],
         required   |-> (RequiredOf @@ (n :> {}))[n],
         allOf      |-> (Parts @@ (n :> << >>))[n],
         anyOf      |-> (OneOf @@ (n :> {}))[n],
         oneOf      |-> FALSE,
         additional |-> IF n = "applications" THEN "applicationRef" ELSE "none",
         type       |-> IF n \in {"string", "integer", "number", "boolean", "object"} THEN n
                        ELSE (TypedAs @@ (n :> ""))[n],
         enum       |-> IF n = "type" THEN {"python", "php"} ELSE {},
         text       |-> n = "applications"]]

MCAppSchemas == [python |-> "python", php |-> "php"]

LOCAL Str(w)  == Text(Words(<<w>>))
LOCAL Num(n)  == <<"integer", n>>
LOCAL Workers == Object([max |-> Num(1), idle |-> Num(1)])
LOCAL Limits(n) == Object([requests |-> n])

MCPaths == {<<"applications", "blog">>, <<"settings", "telemetry">>, <<"settings">>}

LOCAL Python == [type |-> Str("python"), module |-> Str("blog")]

MCStored ==
    <<"applications", "blog">> :>
        {Null, <<"array", 0>>,
         Object([Python EXCEPT !.type = Text(Words(<<"python", "3">>))]
                @@ [processes |-> Workers, limits |-> Limits(Num(2)), threads |-> Num(2), path |-> Str("srv")]),
         Object([Python EXCEPT !.module = Str("site")] @@ [threads |-> <<"float", 4>>, path |-> <<"array", 0>>, later |-> Num(1)]),
         Object([type |-> Str("php"), root |-> Text(<<"padded", <<"www">>>>), processes |-> Num(1)]),
         Object([type |-> Str("php"), root |-> Str("www"), limits |-> Limits(Str("many"))]),
         Object([type |-> Str("perl"), module |-> Str("blog"), threads |-> Str("many")])} @@
    <<"settings", "telemetry">> :>
        {Null, Object([sampling_ratio |-> <<"boolean", TRUE>>, secure |-> <<"boolean", TRUE>>]),
         Object([sampling_ratio |-> <<"float", 1>>, secure |-> Str("yes")]),
         Object([sampling_ratio |-> Num(1), headers |-> Object([a |-> Str("b")])])} @@
    <<"settings">> :>
        {Object([telemetry |-> Object([sampling_ratio |-> n, headers |-> Object([a |-> Str("b")])])])
            : n \in {Num(1), <<"float", 2>>, Num(0)}} \cup
        {Object([telemetry |-> Object(<< >>)]), Object([telemetry |-> Num(1)])}

MCLogPaths  == {<<"access_log">>}
MCLogStored ==
    <<"access_log">> :> {Str("log"), Object([path |-> Str("log")]),
                         Object([path |-> Str("log"), type |-> Str("php")])}

MCInputs ==
    [string |-> {Blank, <<"padded", <<"srv">>>>},
     integer |-> {<<"int", 3>>, <<"float", 3>>},
     number |-> {Blank, <<"int", 1>>}]

(* The document as far as the check can see: an object that the lookup has *)
(* no node for is as good as empty.                                        *)
Visible(v) ==
    LET seen[p \in Positions(v)] ==
            LET w == At(v, p) IN
            IF ~ IsObject(w) THEN w
            ELSE Object([m \in IF NodeAt(path \o p) = NoNode THEN {} ELSE Members(w)
                            |-> seen[Append(p, m)]])
    IN  seen[<< >>]

(* The advisory check misses no mistake in what it can see of an object    *)
(* that nests no deeper than it looks: when it has no objection, that much *)
(* is valid.  It cannot see into the objects inside an application (its    *)
(* limits, its processes), because the lookup goes down by the members of  *)
(* configApplication itself, a union that has none (schema._descend); the  *)
(* CHANGELOG (58) says "including inside nested objects" all the same, and *)
(* the documents of this run have such objects, with a mistake in one.     *)
(* The rest holds of the paths and documents of this run, where the check  *)
(* meets no union of objects but that of the applications: it does not     *)
(* look into the options of others, nor at members only                    *)
(* additionalProperties describes (validation._check).                     *)
NothingOverlooked ==
    page = None /\ IsObject(doc) /\ (\A f \in Findings(path, doc) : ~ Certain(f))
    => Valid(NodeAt(path), Visible(doc))
=============================================================================
