------------------------------ MODULE Endpoints ------------------------------
(***************************************************************************)
(* From the configuration file to the answer of a request (main.go,        *)
(* config/config.go, fields/classifier.go and the part of HandleSpec       *)
(* between the path and the vault): defaults, the choice of a vault        *)
(* driver, routes, the endpoint a path matches and, from that, which       *)
(* fields are withheld, which volatility is announced and how old a vault  *)
(* entry may be.                                                           *)
(*                                                                         *)
(* Paths and queries are sequences of tokens, and the vault's key is       *)
(* joined from them as the code joins its strings: a slash, a colon and a  *)
(* question mark are tokens like any other.  ServeMux has cleaned a path   *)
(* of dots and of empty parts but the last.  Ages and time limits are in   *)
(* milliseconds, thresholds in per cent.  Every document has all of the    *)
(* fields.                                                                 *)
(***************************************************************************)
EXTENDS Integers, FiniteSets, Sequences, SequencesExt

CONSTANTS
  Field,       (* fields of the documents                                   *)
  Request,     (* what clients send: [method, path, query, identified]      *)
  Configs,     (* what a configuration file may hold                        *)
  Slash,       (* "/"                                                       *)
  Colon,       (* ":" within a part                                         *)
  Question,    (* "?"                                                       *)
  Param,       (* a ":name" in an endpoint's path                           *)
  Unset,       (* a number or text the file leaves out, or gives as 0 or "" *)
  MaxTracks,   (* bound: how many Formal Tracks are under way at once       *)
  MaxEntries,  (* bound: how many keys the vault holds                      *)
  AgeStep,     (* entries age in steps of this                              *)
  MaxAge       (* bound: entries age no further                             *)

ASSUME EndpointsAssumption ==
  /\ Colon # Slash /\ Question \notin {Slash, Colon} /\ Param \notin {Slash, Colon, Question}
  /\ AgeStep \in Nat \ {0} /\ MaxAge \in Nat /\ MaxTracks \in Nat
  /\ MaxEntries \in Nat

\* What ServeMux lets through: a path begins with a slash and no part but the last is
\* empty.  Slashes and question marks in their percent-encoded form are left out.
ASSUME PathAssumption ==
  \A r \in Request :
    /\ r.path \in Seq(ToSet(r.path)) /\ r.query \in Seq(ToSet(r.query))
    /\ r.path # <<>> /\ Head(r.path) = Slash
    /\ \A i \in 2 .. Len(r.path) : r.path[i] = Slash => r.path[i - 1] # Slash
    /\ \A i \in DOMAIN r.path : r.path[i] # Question

\* What a file has room for: SpecLinkConfig, EndpointConfig and FieldConfig.  The prefix
\* and the paths of the endpoints begin with a slash.
ASSUME FileAssumption ==
  \A raw \in Configs :
    /\ DOMAIN raw = {"prefix", "driver", "ttl", "timeout", "endpoints"}
    /\ raw.prefix = Unset \/ (raw.prefix \in Seq(ToSet(raw.prefix)) /\ Head(raw.prefix) = Slash)
    /\ DOMAIN raw.endpoints \subseteq Nat \ {0}
    /\ \A i \in DOMAIN raw.endpoints :
         /\ DOMAIN raw.endpoints[i] = {"path", "volatility", "maxStaleness",
                                       "replaceThreshold", "defaultClass", "fields"}
         /\ Head(raw.endpoints[i].path) = Slash
         /\ \A f \in DOMAIN raw.endpoints[i].fields :
              DOMAIN raw.endpoints[i].fields[f] = {"class", "volatility"}

VARIABLES
  file,      (* the configuration as it was written                        *)
  config,    (* as Load returned it, or Unset before                       *)
  driver,    (* "memory", "redis", "failed" or, before the start, "none"   *)
  vault,     (* keys with an entry, each with its age and the resource     *)
             (*   path and query it was fetched for                        *)
  tracks,    (* requests with a Formal Track under way                      *)
  answer     (* the last answer, and what its request goes by              *)

vars == <<file, config, driver, vault, tracks, answer>>

NoAnswer ==
  [handler |-> "", path |-> <<>>, query |-> <<>>, status |-> 0, state |-> "",
   source |-> [age |-> 0, path |-> <<>>, query |-> <<>>],
   treatment |-> [deferred |-> {}, invariant |-> {}, volatility |-> <<>>,
                  maxStaleness |-> 0, replaceThreshold |-> 0]]

-----------------------------------------------------------------------------
(***************************************************************************)
(* config.Load.                                                            *)
(***************************************************************************)

Default(value, default) == IF value = Unset THEN default ELSE value

LoadEndpoint(ep) ==
  LET volatility == Default(ep.volatility, "low")
  IN  [ep EXCEPT !.volatility = volatility,
                 !.maxStaleness = Default(@, 5000),
                 !.replaceThreshold = Default(@, 50),
                 !.defaultClass = Default(@, "SPECULATIVE"),
                 !.fields = [f \in DOMAIN ep.fields |->
                   [ep.fields[f] EXCEPT !.volatility = Default(@, volatility)]]]

Loaded(raw) ==
  [raw EXCEPT !.prefix = Default(@, <<Slash, "spec">>),
              !.driver = Default(@, "memory"),
              !.ttl = Default(@, 30000),
              !.timeout = Default(@, 5000),
              !.endpoints = [i \in DOMAIN raw.endpoints |-> LoadEndpoint(raw.endpoints[i])]]

-----------------------------------------------------------------------------
(***************************************************************************)
(* The classifier.  NoEndpoint stands for nil.                             *)
(***************************************************************************)

NoEndpoint == 0

Slashes(path) == {i \in DOMAIN path : path[i] = Slash}

\* What is between a slash and the next one.
Part(path, s) ==
  LET later == {i \in Slashes(path) : i > s}
  IN  SubSeq(path, s + 1, IF later = {} THEN Len(path) ELSE Min(later) - 1)

\* The slash's number in its path.
Number(path, s) == Cardinality({i \in Slashes(path) : i <= s})

\* As many parts, and one by one the same, or ":name" and a part that is not empty.
\* There is no query left to strip.
PatternMatches(pattern, path) ==
  /\ Cardinality(Slashes(pattern)) = Cardinality(Slashes(path))
  /\ \A s \in Slashes(pattern), t \in Slashes(path) :
       Number(pattern, s) = Number(path, t) =>
         \/ Part(pattern, s) = Part(path, t)
         \/ Part(pattern, s) = <<Param>> /\ Part(path, t) # <<>>

Matching(path) ==
  {i \in DOMAIN config.endpoints : PatternMatches(config.endpoints[i].path, path)}

matchEndpoint(path) ==
  IF Matching(path) = {} THEN NoEndpoint
  ELSE CHOOSE i \in Matching(path) : \A j \in Matching(path) : i <= j

Matched(path) == config.endpoints[matchEndpoint(path)]

\* Upper case; what is not a class is SPECULATIVE.
normaliseClass(s) ==
  CASE s \in {"DEFERRED", "deferred"}       -> "DEFERRED"
    [] s \in {"INVARIANT", "invariant"}     -> "INVARIANT"
    [] s \in {"PROVISIONAL", "provisional"} -> "PROVISIONAL"
    [] OTHER                                -> "SPECULATIVE"

\* Mutant: an endpoint's default applies to listed fields only.
ClassOfListed(path, f) ==
  IF matchEndpoint(path) = NoEndpoint THEN "SPECULATIVE"
  ELSE LET ep == Matched(path) IN
    IF f \notin DOMAIN ep.fields THEN "SPECULATIVE"
    ELSE normaliseClass(Default(ep.fields[f].class, ep.defaultClass))

ClassOf(path, f) ==
  IF matchEndpoint(path) = NoEndpoint THEN "SPECULATIVE"
  ELSE LET ep == Matched(path) IN
    IF f \in DOMAIN ep.fields /\ ep.fields[f].class # Unset
      THEN normaliseClass(ep.fields[f].class)
      ELSE normaliseClass(ep.defaultClass)

VolatilityOf(path, f) ==
  IF matchEndpoint(path) = NoEndpoint THEN "low"
  ELSE LET ep == Matched(path) IN
    IF f \in DOMAIN ep.fields /\ ep.fields[f].volatility # Unset
      THEN ep.fields[f].volatility
      ELSE ep.volatility

VolatilityMap(path) == [f \in Field |-> VolatilityOf(path, f)]

DeferredFields(path) == {f \in Field : ClassOf(path, f) \in {"DEFERRED", "PROVISIONAL"}}

InvariantFields(path) == {f \in Field : ClassOf(path, f) = "INVARIANT"}

MaxStalenessMs(path) ==
  IF matchEndpoint(path) = NoEndpoint THEN 5000 ELSE Matched(path).maxStaleness

ReplaceThreshold(path) ==
  IF matchEndpoint(path) = NoEndpoint THEN 50 ELSE Matched(path).replaceThreshold

\* All that a request at a path is treated by.
Treatment(path) ==
  [deferred |-> DeferredFields(path), invariant |-> InvariantFields(path),
   volatility |-> VolatilityMap(path), maxStaleness |-> MaxStalenessMs(path),
   replaceThreshold |-> ReplaceThreshold(path)]

-----------------------------------------------------------------------------
(***************************************************************************)
(* The routes main registers, as ServeMux chooses among them: the longest  *)
(* pattern wins; a tree's root without its slash is redirected.            *)
(***************************************************************************)

Exactly(at, handler) == [at |-> at, tree |-> FALSE, handler |-> handler]

Tree(at, handler) == [at |-> at, tree |-> TRUE, handler |-> handler]

Routes ==
  {Exactly(<<Slash, "antic", Slash, "signals">>, "ServeSignals"),
   Exactly(<<Slash, "antic", Slash, "ping">>, "ping"),
   Tree(<<Slash, "spec-write">>, "HandleWrite"), Tree(config.prefix, "HandleSpec"),
   Tree(<<>>, "HandlePassthrough")}

RouteMatches(route, path) ==
  IF route.tree THEN IsPrefix(route.at \o <<Slash>>, path) ELSE path = route.at

Route(path) ==
  LET matching == {route \in Routes : RouteMatches(route, path)}
      longest == CHOOSE route \in matching :
                   \A other \in matching : Len(other.at) <= Len(route.at)
      root == \E route \in Routes : route.tree /\ route.at = path
  IN  IF longest.tree /\ root THEN "redirect" ELSE longest.handler

-----------------------------------------------------------------------------
Init ==
  /\ file \in Configs
  /\ config = Unset
  /\ driver = "none"
  /\ vault = <<>>
  /\ tracks = {}
  /\ answer = NoAnswer

\* The file cannot be read or parsed: log.Fatalf.
Load ==
  /\ config = Unset /\ driver = "none"
  /\ \/ config' = Loaded(file) /\ UNCHANGED driver
     \/ driver' = "failed" /\ UNCHANGED config
  /\ UNCHANGED <<file, vault, tracks, answer>>

\* A Redis server that cannot be reached is fatal, and so is a prefix whose tree is the
\* one of the writes: HandleFunc panics.  Any other driver means "memory".
Start ==
  /\ config # Unset /\ driver = "none"
  /\ driver' \in CASE config.prefix = <<Slash, "spec-write">> -> {"failed"}
                   [] config.driver = "redis"              -> {"redis", "failed"}
                   [] OTHER                                -> {"memory"}
  /\ UNCHANGED <<file, config, vault, tracks, answer>>

Serving == driver \in {"memory", "redis"}

-----------------------------------------------------------------------------
(***************************************************************************)
(* HandleSpec.                                                             *)
(***************************************************************************)

\* path.Clean of the path with a slash in front: only a trailing slash is left to remove.
Clean(path) ==
  LET rooted == IF path # <<>> /\ Head(path) = Slash THEN path ELSE <<Slash>> \o path
  IN  IF Len(rooted) > 1 /\ Last(rooted) = Slash THEN Front(rooted) ELSE rooted

\* strings.TrimPrefix.  A path routed here has a slash after the prefix.
resourcePath(r) == SubSeq(r.path, Len(config.prefix) + 1, Len(r.path))

LastSlash(path) == Max(Slashes(path))

parsePath(path) ==
  LET p == Clean(path)
      s == LastSlash(p)
  IN  [resource |-> SubSeq(p, 2, s - 1), id |-> SubSeq(p, s + 1, Len(p))]

\* A resource and an id: a second slash once the path is cleaned.
TwoParts(path) == LastSlash(Clean(path)) > 1

\* Mutant: the id without the query.
KeyOfPath(r) ==
  LET parsed == parsePath(resourcePath(r))
  IN  parsed.resource \o <<Colon>> \o parsed.id

\* fullID, and key of the memory vault or dataKey without its first words.
Key(r) ==
  LET parsed == parsePath(resourcePath(r))
      fullID == IF r.query = <<>> THEN parsed.id ELSE parsed.id \o <<Question>> \o r.query
  IN  parsed.resource \o <<Colon>> \o fullID

Answered(r, status, state) ==
  [NoAnswer EXCEPT !.handler = Route(r.path), !.path = r.path, !.query = r.query,
                   !.status = status, !.state = state]

Receive(r) == Serving /\ Route(r.path) = "HandleSpec"

\* A preflight, a method that is not GET, or a path of fewer than two parts.
HandleSpecRefused(r) ==
  /\ Receive(r)
  /\ \/ r.method = "OPTIONS" /\ answer' = Answered(r, 204, "")
     \/ r.method \notin {"OPTIONS", "GET"} /\ answer' = Answered(r, 405, "")
     \/ /\ r.method = "GET" /\ ~TwoParts(resourcePath(r))
        /\ answer' = Answered(r, 400, "")
  /\ UNCHANGED <<file, config, driver, vault, tracks>>

Accepted(r) == Receive(r) /\ r.method = "GET" /\ TwoParts(resourcePath(r))

Hot(r) ==
  /\ Key(r) \in DOMAIN vault
  /\ vault[Key(r)].age <= MaxStalenessMs(resourcePath(r))

Store(r) ==
  /\ Cardinality(DOMAIN vault \cup {Key(r)}) <= MaxEntries
  /\ vault' = [k \in DOMAIN vault \cup {Key(r)} |->
       IF k = Key(r) THEN [age |-> 0, path |-> resourcePath(r), query |-> r.query]
                    ELSE vault[k]]

\* The upstream's answer is stored if it is a JSON document with status 200.
serveConfirmed(r) ==
  /\ Accepted(r)
  /\ ~Hot(r) \/ ~r.identified
  /\ \/ Store(r) /\ answer' = Answered(r, 200, "confirmed")
     \/ answer' = Answered(r, 200, "confirmed") /\ UNCHANGED vault
     \/ answer' = Answered(r, 502, "") /\ UNCHANGED vault
  /\ UNCHANGED <<file, config, driver, tracks>>

HandleSpecHot(r) ==
  /\ Accepted(r)
  /\ Hot(r) /\ r.identified
  /\ answer' = [Answered(r, 200, "speculative") EXCEPT
       !.source = vault[Key(r)], !.treatment = Treatment(resourcePath(r))]
  /\ tracks' = tracks \cup {r} /\ Cardinality(tracks') <= MaxTracks
  /\ UNCHANGED <<file, config, driver, vault>>

\* The Formal Track ends, with a document or without.
runFormalTrack(r) ==
  /\ r \in tracks
  /\ tracks' = tracks \ {r}
  /\ Store(r) \/ UNCHANGED vault
  /\ UNCHANGED <<file, config, driver, answer>>

\* Any other route: ServeSignals, HandleWrite and ping are other modules' or no
\* one's business; HandlePassthrough forwards whatever it gets.
ServeOther(r) ==
  /\ Serving /\ Route(r.path) # "HandleSpec"
  /\ \E status \in IF Route(r.path) = "HandlePassthrough" THEN {200, 502} ELSE {200} :
       answer' = Answered(r, status, "")
  /\ UNCHANGED <<file, config, driver, vault, tracks>>

\* Time passes.
Age ==
  /\ vault' = [k \in DOMAIN vault |->
       [vault[k] EXCEPT !.age = IF @ + AgeStep <= MaxAge THEN @ + AgeStep ELSE @]]
  /\ UNCHANGED <<file, config, driver, tracks, answer>>

Next ==
  \/ Load \/ Start
  \/ \E r \in Request :
       HandleSpecRefused(r) \/ serveConfirmed(r) \/ HandleSpecHot(r) \/ ServeOther(r)
         \/ runFormalTrack(r)
  \/ Age

Spec == Init /\ [][Next]_vars

-----------------------------------------------------------------------------
(***************************************************************************)
(* Properties.                                                             *)
(***************************************************************************)

Speculative == answer.state = "speculative"

\* The part of a cleaned path that parsePath takes for the id.
Id(path) == parsePath(path).id

\* A document is served only for the resource and the query it was fetched for, although
\* resource, id and query are joined into one string and "/" , ":" and "?" may occur in
\* them: the key tells them apart unless an id has a ":", and with or without a trailing
\* slash the resource is the same.
EntryIsOwn ==
  Speculative =>
    LET path == SubSeq(answer.path, Len(config.prefix) + 1, Len(answer.path))
        source == answer.source
    IN  (\A p \in {path, source.path} : Colon \notin ToSet(Id(p))) =>
          Clean(source.path) = Clean(path) /\ source.query = answer.query

\* The endpoint of the file that a path belongs to: the first that matches, or one with
\* nothing in it.
Written(path) ==
  LET matching == {i \in DOMAIN file.endpoints : PatternMatches(file.endpoints[i].path, path)}
      nothing == [path |-> path, volatility |-> Unset, maxStaleness |-> Unset,
                  replaceThreshold |-> Unset, defaultClass |-> Unset, fields |-> <<>>]
  IN  IF matching = {} THEN nothing
      ELSE file.endpoints[CHOOSE i \in matching : \A j \in matching : i <= j]

FirstSet(values, default) ==
  LET set == {i \in DOMAIN values : values[i] # Unset}
  IN  IF set = {} THEN default ELSE values[CHOOSE i \in set : \A j \in set : i <= j]

Says(ep, f, what) == IF f \in DOMAIN ep.fields THEN ep.fields[f][what] ELSE Unset

\* What the first matching endpoint of the file writes about a field goes before what it
\* writes about all, and that before the default, although Load fills in some of it, the
\* classifier looks up the rest and has defaults of its own for a path no endpoint
\* matches: for the fields withheld and those that may not change, the volatility
\* announced, the age of the entry served and the share of changes that makes a REPLACE.
AnsweredAsWritten ==
  Speculative =>
    LET ep == Written(SubSeq(answer.path, Len(config.prefix) + 1, Len(answer.path)))
        treatment == answer.treatment
    IN
      /\ answer.source.age <= FirstSet(<<ep.maxStaleness>>, 5000)
      /\ treatment.replaceThreshold = FirstSet(<<ep.replaceThreshold>>, 50)
      /\ \A f \in Field :
           LET class == normaliseClass(FirstSet(<<Says(ep, f, "class"), ep.defaultClass>>,
                                                "SPECULATIVE"))
           IN
             /\ treatment.volatility[f] =
                  FirstSet(<<Says(ep, f, "volatility"), ep.volatility>>, "low")
             /\ f \in treatment.deferred <=> class \in {"DEFERRED", "PROVISIONAL"}
             /\ f \in treatment.invariant <=> class = "INVARIANT"

=============================================================================
