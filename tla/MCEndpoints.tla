---- MODULE MCEndpoints ----
(***************************************************************************)
(* Instance of Endpoints: files without an endpoint, with one and with two *)
(* or three that overlap, under three prefixes, and one whose prefix is that *)
(* of the writes; requests with and without a trailing slash, with a colon *)
(* in the resource and in the id, and with queries that differ after one.  *)
(***************************************************************************)
EXTENDS Endpoints

CONSTANTS f, g, a, b, c, q

FieldSays(class, volatility) == [class |-> class, volatility |-> volatility]

OneField == [x \in {f} |-> FieldSays("deferred", "high")]

TwoFields == [x \in {f, g} |-> IF x = f THEN FieldSays(Unset, "invariant")
                                        ELSE FieldSays("PROVISIONAL", Unset)]

Endpoint(path, volatility, maxStaleness, defaultClass, fields) ==
  [path |-> path, volatility |-> volatility, maxStaleness |-> maxStaleness,
   replaceThreshold |-> Unset, defaultClass |-> defaultClass, fields |-> fields]

Wild(fields) == Endpoint(<<Slash, a, Slash, Param>>, Unset, Unset, Unset, fields)

Exact(fields) == Endpoint(<<Slash, a, Slash, b>>, "high", 2500, "DEFERRED", fields)

Deep ==
  [Endpoint(<<Slash, a, Slash, c, Slash, b>>, "low", Unset, "invariant", <<>>)
     EXCEPT !.replaceThreshold = 20]

File(prefix, name, ttl, endpoints) ==
  [prefix |-> prefix, driver |-> name, ttl |-> ttl, timeout |-> Unset,
   endpoints |-> endpoints]

MCConfigs ==
  {File(Unset, Unset, Unset, endpoints) :
     endpoints \in {<<Deep, Wild(TwoFields), Exact(OneField)>>,
                    <<Exact(TwoFields), Wild(OneField)>>}}
    \cup {File(<<Slash, "antic">>, "redis", Unset, <<Exact(OneField)>>),
          File(<<Slash, "spec-write", Slash, "v1">>, "memory", 1000, <<Wild(TwoFields)>>),
          File(<<Slash, "spec-write">>, "redis", Unset, <<>>)}

SpecPath(p) == <<Slash, "spec">> \o p

AB == <<Slash, a, Slash, b>>

\* Two keys are shared: by /a/b and /a/b/, and by /a/b:c and /a:b/c.
MCPath ==
  {SpecPath(p) : p \in {<<>>, <<Slash>>, <<Slash, a>>, AB, AB \o <<Slash>>,
                        <<Slash, a, Slash, c, Slash, b>>, AB \o <<Colon, c>>,
                        <<Slash, a, Colon, b, Slash, c>>}}
    \cup {<<Slash, "antic">> \o AB, <<Slash, "spec-write", Slash, "v1">> \o AB}

Sends(method, path, query, identified) ==
  [method |-> method, path |-> path, query |-> query, identified |-> identified]

MCRequest ==
  {Sends("GET", path, <<>>, TRUE) : path \in MCPath}
    \cup {Sends("GET", SpecPath(AB), <<q>>, FALSE), Sends("GET", SpecPath(AB), <<q>>, TRUE),
          Sends("GET", SpecPath(AB), <<q, Colon, c>>, TRUE),
          Sends("OPTIONS", SpecPath(AB), <<>>, FALSE), Sends("POST", SpecPath(AB), <<>>, FALSE),
          Sends("GET", <<Slash, "antic", Slash, "signals">>, <<>>, TRUE),
          Sends("GET", <<Slash, "antic", Slash, "ping">>, <<>>, FALSE)}

====
