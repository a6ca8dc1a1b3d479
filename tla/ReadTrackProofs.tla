--------------------------- MODULE ReadTrackProofs ---------------------------
(***************************************************************************)
(* Theorems about ReadTrack for any set of requests, resources and         *)
(* documents, any classification and any number of upstream changes, after *)
(* lemmas about the operators of Reconciliation they rest on.              *)
(***************************************************************************)
EXTENDS ReadTrack, TLAPS

-----------------------------------------------------------------------------
(***************************************************************************)
(* Documents, classes and signals: what the Fast Track withholds and the   *)
(* Formal Track publishes add up to the authoritative document.            *)
(***************************************************************************)

\* A document is a function from some of the fields to values.
LEMMA DocIntro ==
  ASSUME NEW S \in SUBSET Field, NEW d \in [S -> Value]
  PROVE  d \in Doc /\ DOMAIN d = S
BY DEF Doc

\* The domain of a document is a set of fields and its values are values.
LEMMA DocElim ==
  ASSUME NEW d \in Doc
  PROVE  /\ DOMAIN d \in SUBSET Field
         /\ d \in [DOMAIN d -> Value]
<1>1. PICK S \in SUBSET Field : d \in [S -> Value]
  BY DEF Doc
<1>2. DOMAIN d = S
  BY <1>1
<1> QED
  BY <1>1, <1>2

\* Every field has exactly one of the four classes, whatever is configured.
LEMMA ClassOfType ==
  ASSUME NEW f
  PROVE  ClassOf(f) \in ClassName
BY DEF ClassOf, normaliseClass, ClassName

\* The empty object is a document.
LEMMA EmptyDocType == EmptyDoc \in Doc
<1>1. EmptyDoc \in [{} -> Value]
  BY DEF EmptyDoc
<1> QED
  BY <1>1, DocIntro

\* Merging two documents yields a document over the union of their fields.
LEMMA MergeType ==
  ASSUME NEW d \in Doc, NEW e \in Doc
  PROVE  /\ Merge(d, e) \in Doc
         /\ DOMAIN Merge(d, e) = DOMAIN d \cup DOMAIN e
         /\ \A f \in DOMAIN e : Merge(d, e)[f] = e[f]
         /\ \A f \in DOMAIN d \ DOMAIN e : Merge(d, e)[f] = d[f]
<1>1. /\ DOMAIN d \in SUBSET Field /\ d \in [DOMAIN d -> Value]
      /\ DOMAIN e \in SUBSET Field /\ e \in [DOMAIN e -> Value]
  BY DocElim
<1>2. Merge(d, e) \in [DOMAIN d \cup DOMAIN e -> Value]
  BY <1>1 DEF Merge
<1>3. Merge(d, e) \in Doc
  BY <1>1, <1>2, DocIntro
<1> QED
  BY <1>2, <1>3 DEF Merge

\* Restricting a document to some fields yields a document.
LEMMA ProjectType ==
  ASSUME NEW d \in Doc, NEW S
  PROVE  /\ Project(d, S) \in Doc
         /\ DOMAIN Project(d, S) = DOMAIN d \cap S
         /\ \A f \in DOMAIN d \cap S : Project(d, S)[f] = d[f]
<1>1. DOMAIN d \in SUBSET Field /\ d \in [DOMAIN d -> Value]
  BY DocElim
<1>2. Project(d, S) \in [DOMAIN d \cap S -> Value]
  BY <1>1 DEF Project
<1> QED
  BY <1>1, <1>2, DocIntro DEF Project

\* The speculative body has the fields of the vault's document, null where they
\* are deferred and the vault's value elsewhere.
LEMMA PayloadType ==
  ASSUME NEW d \in Doc
  PROVE  /\ Payload(d) \in Doc
         /\ DOMAIN Payload(d) = DOMAIN d
         /\ \A f \in DeferredFields(d) : Payload(d)[f] = Null
         /\ \A f \in DOMAIN d \ DeferredFields(d) : Payload(d)[f] = d[f]
<1>1. DOMAIN d \in SUBSET Field /\ d \in [DOMAIN d -> Value]
  BY DocElim
<1>2. Payload(d) \in [DOMAIN d -> Value]
  BY <1>1, ValueAssumption DEF Payload
<1> QED
  BY <1>1, <1>2, DocIntro DEF Payload, DeferredFields

\* Applying a signal to a document yields a document.
LEMMA ApplyType ==
  ASSUME NEW shown \in Doc, NEW sig \in Signal
  PROVE  Apply(shown, sig) \in Doc
<1>1. sig.data \in Doc
  BY DEF Signal
<1> QED
  BY <1>1, MergeType DEF Apply

-----------------------------------------------------------------------------
\* When neither an INVARIANT nor the structure has changed, the fields of a
\* document are those the body shows unchanged, those the PATCH corrects and
\* those the FILL delivers.
LEMMA FieldSplit ==
  ASSUME NEW snap \in Doc, NEW latest \in Doc,
         ~InvariantViolated(snap, latest), ~structuralChange(snap, latest)
  PROVE  /\ DOMAIN latest = DOMAIN snap
         /\ \A f \in DOMAIN snap :
              \/ f \in DeferredFields(snap)
              \/ f \in ChangedSpeculative(snap, latest)
              \/ f \notin DeferredFields(snap) /\ snap[f] = latest[f]
<1>1. DOMAIN latest = DOMAIN snap
  BY DEF structuralChange
<1>2. ASSUME NEW f \in DOMAIN snap, f \notin DeferredFields(snap),
             f \notin ChangedSpeculative(snap, latest)
      PROVE  snap[f] = latest[f]
  <2>1. At(latest, f) = latest[f]
    BY <1>1 DEF At
  <2>2. ClassOf(f) \in {"INVARIANT", "SPECULATIVE"}
    BY <1>2, ClassOfType DEF ClassName, DeferredFields
  <2>3. CASE ClassOf(f) = "INVARIANT"
    BY <2>1, <2>3 DEF InvariantViolated, InvariantFields
  <2>4. CASE ClassOf(f) = "SPECULATIVE"
    BY <1>2, <2>1, <2>4 DEF ChangedSpeculative, SpeculativeFields
  <2> QED
    BY <2>2, <2>3, <2>4
<1> QED
  BY <1>1, <1>2

\* PATCH and FILL applied to the speculative body give the latest document.
LEMMA PatchFillRestores ==
  ASSUME NEW snap \in Doc, NEW latest \in Doc,
         ~InvariantViolated(snap, latest), ~structuralChange(snap, latest)
  PROVE  Merge(Merge(Payload(snap), PatchOps(snap, latest)),
               DeferredValues(snap, latest)) = latest
<1> DEFINE ops    == PatchOps(snap, latest)
           fields == DeferredValues(snap, latest)
           shown  == Merge(Payload(snap), ops)
           final  == Merge(shown, fields)
<1>1. /\ DOMAIN latest = DOMAIN snap
      /\ \A f \in DOMAIN snap :
           \/ f \in DeferredFields(snap)
           \/ f \in ChangedSpeculative(snap, latest)
           \/ f \notin DeferredFields(snap) /\ snap[f] = latest[f]
  BY FieldSplit
<1>2. /\ ops \in Doc
      /\ DOMAIN ops = DOMAIN latest \cap ChangedSpeculative(snap, latest)
      /\ \A f \in DOMAIN ops : ops[f] = latest[f]
  BY ProjectType DEF PatchOps
<1>3. /\ fields \in Doc
      /\ DOMAIN fields = DOMAIN latest \cap DeferredFields(snap)
      /\ \A f \in DOMAIN fields : fields[f] = latest[f]
  BY ProjectType DEF DeferredValues
<1>4. /\ Payload(snap) \in Doc
      /\ DOMAIN Payload(snap) = DOMAIN snap
      /\ \A f \in DOMAIN snap \ DeferredFields(snap) : Payload(snap)[f] = snap[f]
  BY PayloadType
<1>5. /\ shown \in Doc
      /\ DOMAIN shown = DOMAIN snap
      /\ \A f \in DOMAIN ops : shown[f] = latest[f]
      /\ \A f \in DOMAIN snap \ DOMAIN ops : shown[f] = Payload(snap)[f]
  <2>1. DOMAIN Payload(snap) \cup DOMAIN ops = DOMAIN snap
    BY <1>1, <1>2, <1>4
  <2> HIDE DEF ops
  <2>2. /\ shown \in Doc
        /\ DOMAIN shown = DOMAIN Payload(snap) \cup DOMAIN ops
        /\ \A f \in DOMAIN ops : shown[f] = ops[f]
        /\ \A f \in DOMAIN Payload(snap) \ DOMAIN ops : shown[f] = Payload(snap)[f]
    BY <1>2, <1>4, MergeType
  <2> HIDE DEF shown
  <2> QED
    BY <1>2, <1>4, <2>1, <2>2
<1>6. /\ final \in Doc
      /\ DOMAIN final = DOMAIN latest
      /\ \A f \in DOMAIN fields : final[f] = latest[f]
      /\ \A f \in DOMAIN snap \ DOMAIN fields : final[f] = shown[f]
  <2>1. DOMAIN shown \cup DOMAIN fields = DOMAIN latest
    BY <1>1, <1>3, <1>5
  <2> HIDE DEF shown, fields
  <2>2. /\ final \in Doc
        /\ DOMAIN final = DOMAIN shown \cup DOMAIN fields
        /\ \A f \in DOMAIN fields : final[f] = fields[f]
        /\ \A f \in DOMAIN shown \ DOMAIN fields : final[f] = shown[f]
    BY <1>3, <1>5, MergeType
  <2> HIDE DEF final
  <2> QED
    BY <1>1, <1>3, <1>5, <2>1, <2>2
<1>7. ASSUME NEW f \in DOMAIN latest
      PROVE  final[f] = latest[f]
  <2> HIDE DEF final, shown, ops, fields
  <2>1. CASE f \in DOMAIN fields
    BY <1>6, <2>1
  <2>2. CASE f \notin DOMAIN fields /\ f \in DOMAIN ops
    BY <1>1, <1>5, <1>6, <2>2
  <2>3. CASE f \notin DOMAIN fields /\ f \notin DOMAIN ops
    BY <1>1, <1>2, <1>3, <1>4, <1>5, <1>6, <2>3
  <2> QED
    BY <2>1, <2>2, <2>3
<1>8. final = latest
  <2> HIDE DEF final
  <2>1. final \in [DOMAIN latest -> Value] /\ latest \in [DOMAIN latest -> Value]
    BY <1>6, DocElim
  <2> QED
    BY <1>7, <2>1
<1> QED
  BY <1>8

\* Merging a document without fields changes nothing.
LEMMA MergeNothing ==
  ASSUME NEW d \in Doc, NEW e \in Doc, DOMAIN e = {}
  PROVE  Merge(d, e) = d
<1>1. d \in [DOMAIN d -> Value] /\ Merge(d, e) \in [DOMAIN d -> Value]
  BY MergeType, DocElim
<1>2. \A f \in DOMAIN d : Merge(d, e)[f] = d[f]
  BY MergeType
<1> QED
  BY <1>1, <1>2

\* Without deferred fields, the PATCH alone gives the latest document ...
LEMMA PatchRestores ==
  ASSUME NEW snap \in Doc, NEW latest \in Doc,
         ~InvariantViolated(snap, latest), ~structuralChange(snap, latest),
         DeferredFields(snap) \cap DOMAIN latest = {}
  PROVE  Merge(Payload(snap), PatchOps(snap, latest)) = latest
<1> DEFINE shown == Merge(Payload(snap), PatchOps(snap, latest))
<1>1. Payload(snap) \in Doc /\ PatchOps(snap, latest) \in Doc
  BY PayloadType, ProjectType DEF PatchOps
<1>2. shown \in Doc
  BY <1>1, MergeType
<1>3. DeferredValues(snap, latest) \in Doc /\ DOMAIN DeferredValues(snap, latest) = {}
  <2>1. /\ DeferredValues(snap, latest) \in Doc
        /\ DOMAIN DeferredValues(snap, latest) = DOMAIN latest \cap DeferredFields(snap)
    BY ProjectType DEF DeferredValues
  <2> QED
    BY <2>1
<1>4. Merge(shown, DeferredValues(snap, latest)) = shown
  <2> HIDE DEF shown
  <2> QED
    BY <1>2, <1>3, MergeNothing
<1> QED
  BY <1>4, PatchFillRestores

\* ... without a changed SPECULATIVE field, the FILL alone does ...
LEMMA FillRestores ==
  ASSUME NEW snap \in Doc, NEW latest \in Doc,
         ~InvariantViolated(snap, latest), ~structuralChange(snap, latest),
         ChangedSpeculative(snap, latest) = {}
  PROVE  Merge(Payload(snap), DeferredValues(snap, latest)) = latest
<1>1. Payload(snap) \in Doc /\ PatchOps(snap, latest) \in Doc
  BY PayloadType, ProjectType DEF PatchOps
<1>2. DOMAIN PatchOps(snap, latest) = {}
  <2>1. DOMAIN PatchOps(snap, latest) = DOMAIN latest \cap ChangedSpeculative(snap, latest)
    BY ProjectType DEF PatchOps
  <2> QED
    BY <2>1
<1>3. Merge(Payload(snap), PatchOps(snap, latest)) = Payload(snap)
  BY <1>1, <1>2, MergeNothing
<1> QED
  BY <1>3, PatchFillRestores

\* ... and without either, the speculative body was right: CONFIRM.
LEMMA ConfirmRestores ==
  ASSUME NEW snap \in Doc, NEW latest \in Doc,
         ~InvariantViolated(snap, latest), ~structuralChange(snap, latest),
         ChangedSpeculative(snap, latest) = {},
         DeferredFields(snap) \cap DOMAIN latest = {}
  PROVE  Payload(snap) = latest
<1>1. Payload(snap) \in Doc /\ DeferredValues(snap, latest) \in Doc
  BY PayloadType, ProjectType DEF DeferredValues
<1>2. DOMAIN DeferredValues(snap, latest) = {}
  <2>1. DOMAIN DeferredValues(snap, latest) = DOMAIN latest \cap DeferredFields(snap)
    BY ProjectType DEF DeferredValues
  <2> QED
    BY <2>1
<1>3. Merge(Payload(snap), DeferredValues(snap, latest)) = Payload(snap)
  BY <1>1, <1>2, MergeNothing
<1> QED
  BY <1>3, FillRestores

\* A PATCH carries no null: a value that became null has changed its type.
LEMMA PatchHasValues ==
  ASSUME NEW snap \in Doc, NEW latest \in Doc, ~structuralChange(snap, latest),
         NEW f \in DOMAIN PatchOps(snap, latest)
  PROVE  PatchOps(snap, latest)[f] # Null
<1>1. /\ f \in DOMAIN latest /\ f \in ChangedSpeculative(snap, latest)
      /\ PatchOps(snap, latest)[f] = latest[f]
  BY ProjectType DEF PatchOps
<1>2. f \in DOMAIN snap /\ snap[f] # latest[f] /\ snap[f] \in Value
  BY <1>1, DocElim DEF ChangedSpeculative, SpeculativeFields, At
<1>3. TypeOf[snap[f]] = TypeOf[latest[f]]
  BY <1>1, <1>2 DEF structuralChange, TypeChanged, At
<1> QED
  BY <1>1, <1>2, <1>3, ValueAssumption

-----------------------------------------------------------------------------
(***************************************************************************)
(* The read path: shapes and types.                                        *)
(***************************************************************************)

\* The Formal Track of q has been launched and has not run its deferred calls.
InTrack(q) == pc[q] \in {"formal", "answered", "violated", "stored", "patched",
                         "returning"}

\* What the location of a request says about its documents.
Shape(q) ==
  /\ InTrack(q) => /\ snapshots[q] \in Doc
                   /\ body[q] = Payload(snapshots[q])
                   /\ view[q] \in Doc
  /\ pc[q] \in {"idle", "confirming", "storing"} => view[q] = NoDoc
  /\ view[q] = NoDoc => published[q] = <<>>
  /\ view[q] \in Doc => body[q] \in Doc
  /\ pc[q] \in {"formal", "answered", "stored"} =>
       published[q] = <<>> /\ view[q] = body[q]
  /\ pc[q] \in {"storing", "answered", "violated", "stored", "patched"} =>
       fresh[q] \in Doc

ShapeInv == TypeOK /\ \A q \in Request : Shape(q)

USE DEF DocOrNone

-----------------------------------------------------------------------------
\* Constants are as declared: the upstream's documents are documents.
LEMMA UpstreamDocsType == UpstreamDocs \subseteq Doc /\ NoDoc \notin Doc
BY DocAssumption

\* A PATCH, FILL, REPLACE or CONFIRM about a document is a well-formed signal.
LEMMA DataSignalType ==
  ASSUME NEW d \in Doc, NEW name \in {"PATCH", "FILL", "REPLACE", "CONFIRM"}
  PROVE  DataSignal(name, d) \in Signal
BY DEF DataSignal, Signal, SignalName, AbortReason

\* An ABORT with a reason is a well-formed signal.
LEMMA AbortSignalType ==
  ASSUME NEW why \in AbortReason
  PROVE  AbortSignal(why) \in Signal
BY EmptyDocType DEF AbortSignal, Signal, SignalName

\* The invariant holds when the proxy starts, seeded or not.
LEMMA InitShape == Init => ShapeInv
<1> SUFFICES ASSUME Init
             PROVE  ShapeInv
  OBVIOUS
<1>1. PICK seeded \in SUBSET Resource :
        vault = [r \in Resource |-> IF r \in seeded THEN upstream[r] ELSE NoDoc]
  BY DEF Init, SeededVault
<1>2. vault \in [Resource -> DocOrNone]
  BY <1>1, DocAssumption DEF Init
<1>3. TypeOK
  <2>1. pc \in [Request -> Location]
    BY DEF Init, Location
  <2>2. published \in [Request -> Seq(Signal)]
    BY DEF Init
  <2> QED
    BY <1>2, <2>1, <2>2 DEF Init, TypeOK
<1>4. \A q \in Request : Shape(q)
  BY DocAssumption DEF Init, Shape, InTrack
<1> QED
  BY <1>3, <1>4 DEF ShapeInv

\* A step that leaves the record of a request alone keeps its shape.
LEMMA SameShape ==
  ASSUME NEW q, Shape(q),
         /\ snapshots'[q] = snapshots[q] /\ pc'[q] = pc[q]
         /\ body'[q] = body[q] /\ fresh'[q] = fresh[q]
         /\ published'[q] = published[q] /\ view'[q] = view[q]
  PROVE  Shape(q)'
BY DEF Shape, InTrack

\* Publishing a signal for a request whose client has a document leaves it one.
LEMMA PublishType ==
  ASSUME TypeOK, NEW q \in Request, view[q] \in Doc, NEW sig \in Signal,
         Publish(q, sig)
  PROVE  /\ published' \in [Request -> Seq(Signal)]
         /\ view' \in [Request -> DocOrNone]
         /\ view'[q] = Apply(view[q], sig) /\ view'[q] \in Doc
         /\ published'[q] = Append(published[q], sig)
         /\ \A p \in Request \ {q} : view'[p] = view[p] /\ published'[p] = published[p]
<1>1. Apply(view[q], sig) \in Doc
  BY ApplyType
<1> QED
  BY <1>1 DEF TypeOK, Publish

\* Signals that are derived from two documents are signals.
LEMMA TrackSignals ==
  ASSUME NEW snap \in Doc, NEW doc \in Doc
  PROVE  /\ DataSignal("REPLACE", doc) \in Signal
         /\ DataSignal("PATCH", PatchOps(snap, doc)) \in Signal
         /\ DataSignal("FILL", DeferredValues(snap, doc)) \in Signal
         /\ ConfirmSignal \in Signal
<1>1. PatchOps(snap, doc) \in Doc /\ DeferredValues(snap, doc) \in Doc
  BY ProjectType DEF PatchOps, DeferredValues
<1> QED
  BY <1>1, EmptyDocType, DataSignalType DEF ConfirmSignal

-----------------------------------------------------------------------------
(***************************************************************************)
(* Every action preserves ShapeInv: types first, then the request that     *)
(* acts, then the others by SameShape.                                     *)
(***************************************************************************)

\* What happens outside the proxy touches no request.
LEMMA EnvironmentShape ==
  ASSUME ShapeInv, Environment
  PROVE  ShapeInv'
<1>1. PICK r \in Resource : UpstreamChange(r) \/ Age(r) \/ Evict(r)
  BY DEF Environment
<1>2. TypeOK'
  <2>1. CASE UpstreamChange(r)
    BY <2>1 DEF ShapeInv, TypeOK, UpstreamChange
  <2>2. CASE Age(r)
    BY <2>2 DEF ShapeInv, TypeOK, Age
  <2>3. CASE Evict(r)
    BY <2>3 DEF ShapeInv, TypeOK, Evict
  <2> QED
    BY <1>1, <2>1, <2>2, <2>3
<1>3. \A p \in Request : Shape(p)'
  BY <1>1, SameShape DEF ShapeInv, UpstreamChange, Age, Evict
<1> QED
  BY <1>2, <1>3 DEF ShapeInv

\* The three ways HandleSpec answers keep the shape.
LEMMA HandleSpecShape ==
  ASSUME ShapeInv, NEW q \in Request, HandleSpec(q)
  PROVE  ShapeInv'
<1> USE DEF Goto
<1>1. Hot(Target[q]) => vault[Target[q]] \in Doc
  BY RequestAssumption DEF ShapeInv, TypeOK, Hot
<1>2. TypeOK'
  <2>1. CASE ServeCold(q)
    BY <2>1 DEF ShapeInv, TypeOK, Location, ServeCold
  <2>2. CASE ServeAnonymous(q)
    BY <1>1, <2>2 DEF ShapeInv, TypeOK, Location, ServeAnonymous
  <2>3. CASE ServeSpeculative(q)
    BY <1>1, <2>3, PayloadType DEF ShapeInv, TypeOK, Location, ServeSpeculative
  <2> QED
    BY <2>1, <2>2, <2>3 DEF HandleSpec
<1>3. Shape(q)'
  BY <1>1, PayloadType, DocAssumption
     DEF ShapeInv, TypeOK, ServeCold, ServeAnonymous, ServeSpeculative,
         HandleSpec, Shape, InTrack
<1>4. ASSUME NEW p \in Request, p # q
      PROVE  Shape(p)'
  BY <1>4, SameShape
     DEF ShapeInv, TypeOK, HandleSpec, ServeCold, ServeAnonymous,
         ServeSpeculative
<1> QED
  BY <1>2, <1>3, <1>4 DEF ShapeInv

\* The confirmed path keeps the shape; it never gives a client a signal target.
LEMMA serveConfirmedShape ==
  ASSUME ShapeInv, NEW q \in Request, serveConfirmed(q)
  PROVE  ShapeInv'
<1> USE DEF Goto
<1>1. upstream[Target[q]] \in Doc
  BY RequestAssumption, DocAssumption DEF ShapeInv, TypeOK
<1>2. TypeOK'
  BY <1>1, DocAssumption
     DEF ShapeInv, TypeOK, Location, Shape, serveConfirmed, ConfirmedAnswer,
         ConfirmedUnstored, StoreConfirmed, VaultSet
<1>3. Shape(q)'
  BY <1>1, DocAssumption
     DEF ShapeInv, TypeOK, serveConfirmed, ConfirmedAnswer, ConfirmedUnstored,
         StoreConfirmed, Shape, InTrack
<1>4. ASSUME NEW p \in Request, p # q
      PROVE  Shape(p)'
  BY <1>4, SameShape
     DEF ShapeInv, TypeOK, serveConfirmed, ConfirmedAnswer, ConfirmedUnstored,
         StoreConfirmed
<1> QED
  BY <1>2, <1>3, <1>4 DEF ShapeInv

\* The answer of the upstream is a document.
LEMMA UpstreamAnswerShape ==
  ASSUME ShapeInv, NEW q \in Request, UpstreamAnswer(q)
  PROVE  ShapeInv'
<1> USE DEF Goto
<1>1. upstream[Target[q]] \in Doc
  BY RequestAssumption, DocAssumption DEF ShapeInv, TypeOK
<1>2. TypeOK'
  BY <1>1 DEF ShapeInv, TypeOK, Location, UpstreamAnswer
<1>3. Shape(q)'
  BY <1>1, DocAssumption DEF ShapeInv, TypeOK, UpstreamAnswer, Shape, InTrack
<1>4. ASSUME NEW p \in Request, p # q
      PROVE  Shape(p)'
  BY <1>4, SameShape DEF ShapeInv, TypeOK, UpstreamAnswer
<1> QED
  BY <1>2, <1>3, <1>4 DEF ShapeInv

\* Writing the vault keeps the shape.
LEMMA StoreShape ==
  ASSUME ShapeInv, NEW q \in Request, StoreFresh(q) \/ StoreViolating(q)
  PROVE  ShapeInv'
<1> USE DEF Goto
<1>2. TypeOK'
  BY DEF ShapeInv, TypeOK, Location, Shape, StoreFresh, StoreViolating, VaultSet
<1>3. Shape(q)'
  BY DEF ShapeInv, TypeOK, StoreFresh, StoreViolating, Shape, InTrack
<1>4. ASSUME NEW p \in Request, p # q
      PROVE  Shape(p)'
  BY <1>4, SameShape DEF ShapeInv, TypeOK, StoreFresh, StoreViolating
<1> QED
  BY <1>2, <1>3, <1>4 DEF ShapeInv

\* Releasing a snapshot keeps the shape: the track is over.
LEMMA ReleaseShape ==
  ASSUME ShapeInv, NEW q \in Request, Release(q)
  PROVE  ShapeInv'
<1> USE DEF Goto
<1>2. TypeOK'
  BY DEF ShapeInv, TypeOK, Location, Shape, Release
<1>3. Shape(q)'
  BY DEF ShapeInv, TypeOK, Release, Shape, InTrack
<1>4. ASSUME NEW p \in Request, p # q
      PROVE  Shape(p)'
  BY <1>4, SameShape DEF ShapeInv, TypeOK, Release
<1> QED
  BY <1>2, <1>3, <1>4 DEF ShapeInv

\* All the publishing steps of a Formal Track at once.
LEMMA PublishingShape ==
  ASSUME ShapeInv, NEW q \in Request, InTrack(q), NEW sig \in Signal,
         Publish(q, sig),
         NEW l \in {"violated", "patched", "returning"}, Goto(q, l),
         l \in {"violated", "patched"} => fresh[q] \in Doc,
         UNCHANGED <<upstream, changes, vault, stale, snapshots, body, fresh>>
  PROVE  ShapeInv'
<1> USE DEF Goto
<1>1. view[q] \in Doc
  BY DEF ShapeInv, Shape
<1>2. /\ published' \in [Request -> Seq(Signal)]
      /\ view' \in [Request -> DocOrNone]
      /\ view'[q] \in Doc
      /\ \A p \in Request \ {q} : view'[p] = view[p] /\ published'[p] = published[p]
  BY <1>1, PublishType DEF ShapeInv
<1>3. TypeOK'
  BY <1>2 DEF ShapeInv, TypeOK, Location
<1>4. Shape(q)'
  BY <1>2, DocAssumption DEF ShapeInv, TypeOK, Shape, InTrack
<1>5. ASSUME NEW p \in Request, p # q
      PROVE  Shape(p)'
  BY <1>2, <1>5, SameShape DEF ShapeInv, TypeOK
<1> QED
  BY <1>3, <1>4, <1>5 DEF ShapeInv

\* So does every publishing step, whose signals are all well-formed.
LEMMA PublishShape ==
  ASSUME ShapeInv, NEW q \in Request,
         \/ UpstreamFailure(q) \/ AbortViolation(q)
         \/ PublishReplace(q) \/ PublishPatch(q) \/ PublishFill(q) \/ PublishConfirm(q)
  PROVE  ShapeInv'
<1> USE DEF Baseline
<1>1. CASE UpstreamFailure(q)
  <2>1. PICK why \in FailureReason : Publish(q, AbortSignal(why))
    BY <1>1 DEF UpstreamFailure
  <2>2. AbortSignal(why) \in Signal
    BY AbortSignalType DEF AbortReason
  <2> QED
    BY <1>1, <2>1, <2>2, PublishingShape DEF UpstreamFailure, InTrack
<1>2. CASE AbortViolation(q)
  <2>1. AbortSignal("invariant_violation") \in Signal
    BY AbortSignalType DEF AbortReason
  <2>2. fresh[q] \in Doc
    BY <1>2 DEF AbortViolation, ShapeInv, Shape
  <2> QED
    BY <1>2, <2>1, <2>2, PublishingShape DEF AbortViolation, InTrack
<1>3. ASSUME pc[q] \in {"stored", "patched"}
      PROVE  /\ snapshots[q] \in Doc /\ fresh[q] \in Doc
             /\ DataSignal("REPLACE", fresh[q]) \in Signal
             /\ DataSignal("PATCH", PatchOps(Baseline(q), fresh[q])) \in Signal
             /\ DataSignal("FILL", DeferredValues(Baseline(q), fresh[q])) \in Signal
             /\ ConfirmSignal \in Signal
  <2>1. snapshots[q] \in Doc /\ fresh[q] \in Doc
    BY <1>3 DEF ShapeInv, Shape, InTrack
  <2> QED
    BY <2>1, TrackSignals
<1>4. CASE PublishReplace(q)
  BY <1>3, <1>4, PublishingShape DEF PublishReplace, InTrack
<1>5. CASE PublishPatch(q)
  <2> DEFINE l == IF HasFill(q) THEN "patched" ELSE "returning"
  <2>1. l \in {"violated", "patched", "returning"}
    OBVIOUS
  <2> HIDE DEF l
  <2>2. Goto(q, l)
    BY <1>5 DEF PublishPatch, l
  <2> QED
    BY <1>3, <1>5, <2>1, <2>2, PublishingShape DEF PublishPatch, Unpatched, InTrack
<1>6. CASE PublishFill(q)
  BY <1>3, <1>6, PublishingShape DEF PublishFill, Unpatched, InTrack
<1>7. CASE PublishConfirm(q)
  BY <1>3, <1>7, PublishingShape DEF PublishConfirm, Unpatched, InTrack
<1> QED
  BY <1>1, <1>2, <1>4, <1>5, <1>6, <1>7

\* Nothing changes in a stuttering step.
LEMMA StutterShape ==
  ASSUME ShapeInv, UNCHANGED vars
  PROVE  ShapeInv'
BY DEF ShapeInv, Shape, InTrack, TypeOK, vars

\* Types and shapes are inductive.
LEMMA NextShape == ShapeInv /\ [Next]_vars => ShapeInv'
<1> SUFFICES ASSUME ShapeInv, [Next]_vars
             PROVE  ShapeInv'
  OBVIOUS
<1>1. CASE Environment
  BY <1>1, EnvironmentShape
<1>2. ASSUME NEW q \in Request, HandleSpec(q)
      PROVE  ShapeInv'
  BY <1>2, HandleSpecShape
<1>3. ASSUME NEW q \in Request, serveConfirmed(q)
      PROVE  ShapeInv'
  BY <1>3, serveConfirmedShape
<1>4. ASSUME NEW q \in Request, runFormalTrack(q)
      PROVE  ShapeInv'
  BY <1>4, UpstreamAnswerShape, StoreShape, PublishShape, ReleaseShape
     DEF runFormalTrack
<1>5. CASE UNCHANGED vars
  BY <1>5, StutterShape
<1> QED
  BY <1>1, <1>2, <1>3, <1>4, <1>5 DEF Next

\* The variables of the read path hold what their declarations say, and only
\* requests with a speculative body ever publish.
THEOREM TypeCorrect == Spec => []TypeOK
<1>1. Init => ShapeInv
  BY InitShape
<1>2. ShapeInv /\ [Next]_vars => ShapeInv'
  BY NextShape
<1>3. ShapeInv => TypeOK
  BY DEF ShapeInv
<1> QED
  BY <1>1, <1>2, <1>3, PTL DEF Spec

-----------------------------------------------------------------------------
(***************************************************************************)
(* The inductive invariant behind ReconciledToFresh.  A track that is      *)
(* between its PATCH and its FILL, or between its ABORT and its store, is  *)
(* half way: Progress says what it still owes.                             *)
(***************************************************************************)

Progress(q) ==
  /\ pc[q] \in {"stored", "patched"} => ~InvariantViolated(snapshots[q], fresh[q])
  /\ pc[q] = "patched" =>
       /\ ~structuralChange(snapshots[q], fresh[q])
       /\ published[q] = <<DataSignal("PATCH", PatchOps(snapshots[q], fresh[q]))>>
       /\ view[q] = Merge(Payload(snapshots[q]), PatchOps(snapshots[q], fresh[q]))
  /\ pc[q] = "violated" => Aborted(q)
  /\ Reconciled(q) /\ ~Aborted(q) => view[q] = fresh[q]

IInv == ShapeInv /\ \A q \in Request : Progress(q)

\* A step that leaves the record of a request alone keeps what it owes.
LEMMA SameProgress ==
  ASSUME NEW q, Progress(q),
         /\ snapshots'[q] = snapshots[q] /\ pc'[q] = pc[q]
         /\ body'[q] = body[q] /\ fresh'[q] = fresh[q]
         /\ published'[q] = published[q] /\ view'[q] = view[q]
  PROVE  Progress(q)'
BY DEF Progress, Reconciled, Speculative, Aborted, Published

\* Publishing an ABORT is the only way to become aborted.
LEMMA AbortedAppend ==
  ASSUME NEW q, NEW sig, published[q] \in Seq(Signal), sig \in Signal,
         published'[q] = Append(published[q], sig)
  PROVE  Aborted(q)' <=> Aborted(q) \/ sig.signal = "ABORT"
<1>1. /\ DOMAIN published[q] = 1 .. Len(published[q])
      /\ DOMAIN published'[q] = 1 .. Len(published[q]) + 1
      /\ Len(published[q]) \in Nat
  OBVIOUS
<1>2. /\ published'[q][Len(published[q]) + 1] = sig
      /\ \A i \in 1 .. Len(published[q]) : published'[q][i] = published[q][i]
  OBVIOUS
<1>3. ASSUME Aborted(q)' PROVE Aborted(q) \/ sig.signal = "ABORT"
  BY <1>1, <1>2, <1>3 DEF Aborted, Published
<1>4. ASSUME Aborted(q) PROVE Aborted(q)'
  BY <1>1, <1>2, <1>4 DEF Aborted, Published
<1>5. ASSUME sig.signal = "ABORT" PROVE Aborted(q)'
  BY <1>1, <1>2, <1>5 DEF Aborted, Published
<1> QED
  BY <1>3, <1>4, <1>5

\* What a step of one request does not touch stays as it is for the others.
LEMMA OthersUntouched ==
  ASSUME ShapeInv, NEW q \in Request, NEW p \in Request, p # q,
         HandleSpec(q) \/ serveConfirmed(q) \/ runFormalTrack(q)
  PROVE  /\ snapshots'[p] = snapshots[p] /\ pc'[p] = pc[p]
         /\ body'[p] = body[p] /\ fresh'[p] = fresh[p]
         /\ published'[p] = published[p] /\ view'[p] = view[p]
<1> USE DEF ShapeInv, TypeOK, Goto, Publish
<1>1. CASE HandleSpec(q)
  BY <1>1 DEF HandleSpec, ServeCold, ServeAnonymous, ServeSpeculative
<1>2. CASE serveConfirmed(q)
  BY <1>2 DEF serveConfirmed, ConfirmedAnswer, ConfirmedUnstored, StoreConfirmed
<1>3. CASE runFormalTrack(q)
  BY <1>3 DEF runFormalTrack, UpstreamAnswer, UpstreamFailure, AbortViolation,
     StoreViolating, StoreFresh, PublishReplace, PublishPatch, PublishFill,
     PublishConfirm, Release
<1> QED
  BY <1>1, <1>2, <1>3

\* A signal that is published for a track: what the step does to its record.
LEMMA PublishEffect ==
  ASSUME ShapeInv, NEW q \in Request, InTrack(q), NEW sig \in Signal,
         Publish(q, sig)
  PROVE  /\ view'[q] = Apply(view[q], sig)
         /\ published'[q] = Append(published[q], sig)
         /\ Aborted(q)' <=> Aborted(q) \/ sig.signal = "ABORT"
<1>1. view[q] \in Doc /\ published[q] \in Seq(Signal) /\ TypeOK
  BY DEF ShapeInv, Shape, TypeOK
<1>2. view'[q] = Apply(view[q], sig) /\ published'[q] = Append(published[q], sig)
  BY <1>1, PublishType
<1> QED
  BY <1>1, <1>2, AbortedAppend

\* A request that was just served owes nothing yet.
LEMMA ServeProgress ==
  ASSUME IInv, NEW q \in Request, HandleSpec(q) \/ serveConfirmed(q)
  PROVE  Progress(q)'
<1>1. pc'[q] \in {"confirming", "storing", "done", "formal"}
      /\ (pc'[q] # "formal" => view'[q] = NoDoc)
  BY DEF IInv, ShapeInv, TypeOK, Shape, Goto, HandleSpec, ServeCold,
     ServeAnonymous, ServeSpeculative, serveConfirmed, ConfirmedAnswer,
     ConfirmedUnstored, StoreConfirmed
<1> QED
  BY <1>1 DEF Progress, Reconciled, Speculative

\* Steps that publish nothing carry what is owed along.
LEMMA QuietProgress ==
  ASSUME IInv, NEW q \in Request,
         UpstreamAnswer(q) \/ StoreFresh(q) \/ StoreViolating(q) \/ Release(q)
  PROVE  Progress(q)'
<1> USE DEF IInv, ShapeInv, TypeOK, Goto, Progress, Reconciled, Speculative,
            Aborted, Published, Baseline
<1>1. CASE UpstreamAnswer(q)
  BY <1>1 DEF UpstreamAnswer
<1>2. CASE StoreFresh(q)
  BY <1>2 DEF StoreFresh
<1>3. CASE StoreViolating(q)
  BY <1>3 DEF StoreViolating
<1>4. CASE Release(q)
  BY <1>4 DEF Release
<1> QED
  BY <1>1, <1>2, <1>3, <1>4

\* An ABORT settles the account.
LEMMA AbortProgress ==
  ASSUME IInv, NEW q \in Request, UpstreamFailure(q) \/ AbortViolation(q)
  PROVE  Progress(q)'
<1>1. PICK why \in AbortReason : Publish(q, AbortSignal(why))
  BY DEF UpstreamFailure, AbortViolation, AbortReason
<1>2. InTrack(q)
  BY DEF UpstreamFailure, AbortViolation, InTrack
<1>3. AbortSignal(why) \in Signal /\ AbortSignal(why).signal = "ABORT"
  BY AbortSignalType DEF AbortSignal
<1>4. Aborted(q)'
  BY <1>1, <1>2, <1>3, PublishEffect DEF IInv
<1>5. pc'[q] \in {"violated", "returning"}
  BY DEF IInv, ShapeInv, TypeOK, UpstreamFailure, AbortViolation, Goto
<1> QED
  BY <1>4, <1>5 DEF Progress

\* A track that is about to publish knows its two documents, has found no
\* violation, and has published nothing or the PATCH it owes a FILL after.
LEMMA ReadyToPublish ==
  ASSUME IInv, NEW q \in Request, pc[q] \in {"stored", "patched"}
  PROVE  /\ snapshots[q] \in Doc /\ fresh[q] \in Doc
         /\ ~InvariantViolated(snapshots[q], fresh[q])
         /\ InTrack(q)
         /\ ~Aborted(q)
         /\ pc[q] = "stored" => view[q] = Payload(snapshots[q])
<1>1. /\ snapshots[q] \in Doc /\ fresh[q] \in Doc
      /\ ~InvariantViolated(snapshots[q], fresh[q])
      /\ InTrack(q)
      /\ pc[q] = "stored" => view[q] = Payload(snapshots[q])
  BY DEF IInv, ShapeInv, Shape, InTrack, Progress
<1>2. CASE pc[q] = "stored"
  <2>1. published[q] = <<>>
    BY <1>2 DEF IInv, ShapeInv, Shape
  <2> QED
    BY <1>1, <2>1 DEF Aborted, Published
<1>3. CASE pc[q] = "patched"
  <2>1. published[q] = <<DataSignal("PATCH", PatchOps(snapshots[q], fresh[q]))>>
    BY <1>3 DEF IInv, Progress
  <2>2. DataSignal("PATCH", PatchOps(snapshots[q], fresh[q])).signal = "PATCH"
    BY DEF DataSignal
  <2> QED
    BY <1>1, <2>1, <2>2 DEF Aborted, Published
<1> QED
  BY <1>1, <1>2, <1>3

\* The arithmetic of reconciliation: a REPLACE, a FILL that completes a PATCH, a
\* PATCH or FILL on its own, or a CONFIRM leaves the client with the fresh document.
LEMMA PublishProgress ==
  ASSUME IInv, NEW q \in Request,
         \/ PublishReplace(q) \/ PublishPatch(q) \/ PublishFill(q) \/ PublishConfirm(q)
  PROVE  Progress(q)'
<1> DEFINE snap == snapshots[q]
           doc  == fresh[q]
<1>1. pc[q] \in {"stored", "patched"}
  BY DEF PublishReplace, PublishPatch, PublishFill, PublishConfirm, Unpatched
<1>2. /\ snap \in Doc /\ doc \in Doc
      /\ ~InvariantViolated(snap, doc)
      /\ InTrack(q)
      /\ ~Aborted(q)
      /\ pc[q] = "stored" => view[q] = Payload(snap)
  BY <1>1, ReadyToPublish
<1>3. /\ DataSignal("REPLACE", doc) \in Signal
      /\ DataSignal("PATCH", PatchOps(snap, doc)) \in Signal
      /\ DataSignal("FILL", DeferredValues(snap, doc)) \in Signal
      /\ ConfirmSignal \in Signal
  BY <1>2, TrackSignals
<1>4. snapshots' = snapshots /\ fresh' = fresh
  BY DEF PublishReplace, PublishPatch, PublishFill, PublishConfirm
<1>5. ShapeInv
  BY DEF IInv
<1>6. CASE PublishReplace(q)
  <2>1. view'[q] = Apply(view[q], DataSignal("REPLACE", doc))
    BY <1>2, <1>3, <1>5, <1>6, PublishEffect DEF PublishReplace
  <2>2. view'[q] = doc
    BY <2>1 DEF Apply, DataSignal
  <2>3. pc'[q] = "returning"
    BY <1>5, <1>6 DEF PublishReplace, Goto, ShapeInv, TypeOK
  <2> QED
    BY <1>4, <2>2, <2>3 DEF Progress
<1>7. CASE PublishPatch(q)
  <2> DEFINE sig == DataSignal("PATCH", PatchOps(snap, doc))
  <2>1. Publish(q, sig) /\ pc[q] = "stored" /\ ~ReplaceDue(snap, doc)
    BY <1>7 DEF PublishPatch, Unpatched, Baseline
  <2>2. /\ view'[q] = Apply(view[q], sig)
        /\ published'[q] = Append(published[q], sig)
    BY <1>2, <1>3, <1>5, <2>1, PublishEffect
  <2>3. view'[q] = Merge(Payload(snap), PatchOps(snap, doc))
    BY <1>2, <2>1, <2>2 DEF Apply, DataSignal
  <2>4. published'[q] = <<sig>>
    <3>1. published[q] = <<>>
      BY <1>5, <2>1 DEF ShapeInv, Shape
    <3> HIDE DEF sig
    <3> QED
      BY <2>2, <3>1
  <2>5. ~structuralChange(snap, doc)
    BY <2>1 DEF ReplaceDue
  <2>6. CASE HasFill(q)
    <3>1. pc'[q] = "patched"
      BY <1>5, <1>7, <2>6 DEF PublishPatch, Goto, ShapeInv, TypeOK
    <3> QED
      BY <1>2, <1>4, <2>3, <2>4, <2>5, <3>1 DEF Progress, Reconciled
  <2>7. CASE ~HasFill(q)
    <3>1. pc'[q] = "returning"
      BY <1>5, <1>7, <2>7 DEF PublishPatch, Goto, ShapeInv, TypeOK
    <3>2. DeferredFields(snap) \cap DOMAIN doc = {}
      BY <2>7 DEF HasFill, Baseline
    <3>3. view'[q] = doc
      BY <1>2, <2>3, <2>5, <3>2, PatchRestores
    <3> QED
      BY <1>4, <3>1, <3>3 DEF Progress
  <2> QED
    BY <2>6, <2>7
<1>8. CASE PublishFill(q)
  <2> DEFINE sig == DataSignal("FILL", DeferredValues(snap, doc))
  <2>1. Publish(q, sig)
    BY <1>8 DEF PublishFill, Baseline
  <2>2. view'[q] = Apply(view[q], sig)
    BY <1>2, <1>3, <1>5, <2>1, PublishEffect
  <2>3. view'[q] = Merge(view[q], DeferredValues(snap, doc))
    BY <2>2 DEF Apply, DataSignal
  <2>4. pc'[q] = "returning"
    BY <1>5, <1>8 DEF PublishFill, Goto, ShapeInv, TypeOK
  <2>5. CASE pc[q] = "patched"
    <3>1. /\ ~structuralChange(snap, doc)
          /\ view[q] = Merge(Payload(snap), PatchOps(snap, doc))
      BY <2>5 DEF IInv, Progress
    <3>2. view'[q] = doc
      BY <1>2, <2>3, <3>1, PatchFillRestores
    <3> QED
      BY <1>4, <2>4, <3>2 DEF Progress
  <2>6. CASE Unpatched(q) /\ ~HasPatch(q)
    <3>1. /\ ~structuralChange(snap, doc)
          /\ ChangedSpeculative(snap, doc) = {}
          /\ view[q] = Payload(snap)
      BY <1>2, <2>6 DEF Unpatched, HasPatch, ReplaceDue, Baseline
    <3>2. view'[q] = doc
      BY <1>2, <2>3, <3>1, FillRestores
    <3> QED
      BY <1>4, <2>4, <3>2 DEF Progress
  <2> QED
    BY <1>8, <2>5, <2>6 DEF PublishFill
<1>9. CASE PublishConfirm(q)
  <2>1. view'[q] = Apply(view[q], ConfirmSignal)
    BY <1>2, <1>3, <1>5, <1>9, PublishEffect DEF PublishConfirm
  <2>2. view'[q] = view[q]
    BY <2>1 DEF Apply, ConfirmSignal, DataSignal
  <2>3. pc'[q] = "returning"
    BY <1>5, <1>9 DEF PublishConfirm, Goto, ShapeInv, TypeOK
  <2>4. /\ ~structuralChange(snap, doc)
        /\ ChangedSpeculative(snap, doc) = {}
        /\ DeferredFields(snap) \cap DOMAIN doc = {}
        /\ view[q] = Payload(snap)
    BY <1>2, <1>9
       DEF PublishConfirm, Unpatched, HasPatch, HasFill, ReplaceDue, Baseline
  <2>5. view'[q] = doc
    BY <1>2, <2>2, <2>4, ConfirmRestores
  <2> QED
    BY <1>4, <2>3, <2>5 DEF Progress
<1> QED
  BY <1>6, <1>7, <1>8, <1>9

\* At the start no request owes anything.
LEMMA InitIInv == Init => IInv
<1> SUFFICES ASSUME Init
             PROVE  IInv
  OBVIOUS
<1>1. ShapeInv
  BY InitShape
<1>2. \A q \in Request : Progress(q)
  BY DEF Init, Progress, Reconciled, Speculative
<1> QED
  BY <1>1, <1>2 DEF IInv

\* IInv is inductive.
LEMMA NextIInv == IInv /\ [Next]_vars => IInv'
<1> SUFFICES ASSUME IInv, [Next]_vars
             PROVE  IInv'
  OBVIOUS
<1>1. ShapeInv'
  BY NextShape DEF IInv
<1>2. CASE Environment \/ UNCHANGED vars
  <2>1. UNCHANGED <<snapshots, pc, body, fresh, published, view>>
    BY <1>2 DEF Environment, UpstreamChange, Age, Evict, vars
  <2>2. \A p \in Request : Progress(p)'
    BY <2>1, SameProgress DEF IInv
  <2> QED
    BY <1>1, <2>2 DEF IInv
<1>3. ASSUME NEW q \in Request,
             HandleSpec(q) \/ serveConfirmed(q) \/ runFormalTrack(q)
      PROVE  IInv'
  <2>1. Progress(q)'
    BY <1>3, ServeProgress, QuietProgress, AbortProgress, PublishProgress
       DEF runFormalTrack
  <2>2. ASSUME NEW p \in Request, p # q
        PROVE  Progress(p)'
    BY <1>3, <2>2, OthersUntouched, SameProgress DEF IInv
  <2> QED
    BY <1>1, <2>1, <2>2 DEF IInv
<1> QED
  BY <1>2, <1>3 DEF Next

\* "Each request receives a correct per-request reconciliation regardless of
\* interleaving", for any number of concurrent requests: the signals of a track
\* that did not abort turn the speculative body into the document it fetched.
THEOREM ReconciliationCorrect == Spec => []ReconciledToFresh
<1>1. IInv => ReconciledToFresh
  BY DEF IInv, Progress, ReconciledToFresh
<1> QED
  BY <1>1, InitIInv, NextIInv, PTL DEF Spec

-----------------------------------------------------------------------------
(***************************************************************************)
(* DeferredNeverSpeculated and InvariantNeverRevised follow, one request   *)
(* at a time, from IInv and what a published signal may carry.             *)
(***************************************************************************)

Withheld(q) ==
  Speculative(q) => \A f \in DeferredFields(view[q]) :
    \/ view[q][f] = Null
    \/ fresh[q] # NoDoc /\ view[q][f] = At(fresh[q], f)

Kept(q) ==
  Speculative(q) => \A f \in InvariantFields(body[q]) : At(view[q], f) = body[q][f]

FieldInv == IInv /\ \A q \in Request : Withheld(q) /\ Kept(q)

\* A step that leaves the record of a request alone keeps its fields.
LEMMA SameFields ==
  ASSUME NEW q, Withheld(q), Kept(q),
         body'[q] = body[q] /\ fresh'[q] = fresh[q] /\ view'[q] = view[q]
  PROVE  Withheld(q)' /\ Kept(q)'
BY DEF Withheld, Kept, Speculative

\* The speculative body withholds every deferred field and shows every INVARIANT
\* field as the snapshot has it.
LEMMA PayloadFields ==
  ASSUME NEW d \in Doc
  PROVE  /\ \A f \in DeferredFields(Payload(d)) : Payload(d)[f] = Null
         /\ \A f \in InvariantFields(Payload(d)) :
              f \in InvariantFields(d) /\ Payload(d)[f] = d[f]
BY PayloadType DEF DeferredFields, InvariantFields

\* The body as it is sent shows no deferred value and every INVARIANT.
LEMMA ServeFields ==
  ASSUME FieldInv, NEW q \in Request, HandleSpec(q) \/ serveConfirmed(q)
  PROVE  Withheld(q)' /\ Kept(q)'
<1>1. CASE ServeSpeculative(q)
  <2>1. vault[Target[q]] \in Doc
    BY <1>1, RequestAssumption
       DEF ServeSpeculative, Hot, FieldInv, IInv, ShapeInv, TypeOK
  <2>2. /\ view'[q] = Payload(vault[Target[q]])
        /\ body'[q] = Payload(vault[Target[q]])
    BY <1>1 DEF ServeSpeculative, FieldInv, IInv, ShapeInv, TypeOK
  <2>3. Withheld(q)'
    BY <2>1, <2>2, PayloadFields DEF Withheld
  <2>4. Kept(q)'
    BY <2>2 DEF Kept, At, InvariantFields
  <2> QED
    BY <2>3, <2>4
<1>2. CASE ServeCold(q) \/ ServeAnonymous(q) \/ serveConfirmed(q)
  <2>1. view'[q] = NoDoc
    BY <1>2 DEF FieldInv, IInv, ShapeInv, TypeOK, Shape, ServeCold,
       ServeAnonymous, serveConfirmed, ConfirmedAnswer, ConfirmedUnstored,
       StoreConfirmed
  <2> QED
    BY <2>1 DEF Withheld, Kept, Speculative
<1> QED
  BY <1>1, <1>2 DEF HandleSpec

\* Steps that publish nothing leave the client with what it had.
LEMMA QuietFields ==
  ASSUME FieldInv, NEW q \in Request,
         UpstreamAnswer(q) \/ StoreFresh(q) \/ StoreViolating(q) \/ Release(q)
  PROVE  Withheld(q)' /\ Kept(q)'
<1>1. CASE UpstreamAnswer(q)
  <2>1. snapshots[q] \in Doc /\ view[q] = Payload(snapshots[q])
    BY <1>1 DEF UpstreamAnswer, FieldInv, IInv, ShapeInv, Shape, InTrack
  <2>2. view' = view /\ body' = body
    BY <1>1 DEF UpstreamAnswer
  <2>3. Withheld(q)'
    BY <2>1, <2>2, PayloadFields DEF Withheld
  <2> QED
    BY <2>2, <2>3 DEF FieldInv, Kept, Speculative
<1>2. CASE StoreFresh(q) \/ StoreViolating(q) \/ Release(q)
  BY <1>2, SameFields DEF FieldInv, StoreFresh, StoreViolating, Release
<1> QED
  BY <1>1, <1>2

\* A PATCH or FILL without INVARIANT fields leaves those of the view alone.
LEMMA MergeKeepsInvariants ==
  ASSUME NEW d \in Doc, NEW e \in Doc, NEW f, ClassOf(f) = "INVARIANT",
         \A g \in DOMAIN e : ClassOf(g) # "INVARIANT"
  PROVE  At(Merge(d, e), f) = At(d, f)
<1>1. f \notin DOMAIN e
  OBVIOUS
<1>2. /\ DOMAIN Merge(d, e) = DOMAIN d \cup DOMAIN e
      /\ \A g \in DOMAIN d \ DOMAIN e : Merge(d, e)[g] = d[g]
  BY MergeType
<1> QED
  BY <1>1, <1>2 DEF At

\* What a signal brings is what the track fetched, and no INVARIANT among it differs.
LEMMA PublishFields ==
  ASSUME FieldInv, NEW q \in Request,
         \/ PublishReplace(q) \/ PublishPatch(q) \/ PublishFill(q) \/ PublishConfirm(q)
  PROVE  Withheld(q)' /\ Kept(q)'
<1> DEFINE snap == snapshots[q]
           doc  == fresh[q]
<1>1. IInv /\ ShapeInv
  BY DEF FieldInv, IInv
<1>2. pc[q] \in {"stored", "patched"}
  BY DEF PublishReplace, PublishPatch, PublishFill, PublishConfirm, Unpatched
<1>3. /\ snap \in Doc /\ doc \in Doc
      /\ ~InvariantViolated(snap, doc)
      /\ InTrack(q)
  BY <1>1, <1>2, ReadyToPublish
<1>4. view[q] \in Doc /\ body[q] = Payload(snap) /\ Speculative(q)
  BY <1>1, <1>3, DocAssumption DEF ShapeInv, Shape, Speculative
<1>5. body' = body /\ fresh' = fresh
  BY DEF PublishReplace, PublishPatch, PublishFill, PublishConfirm
<1>6. /\ DataSignal("REPLACE", doc) \in Signal
      /\ DataSignal("PATCH", PatchOps(snap, doc)) \in Signal
      /\ DataSignal("FILL", DeferredValues(snap, doc)) \in Signal
      /\ ConfirmSignal \in Signal
  BY <1>3, TrackSignals
<1>7. /\ \A f \in DeferredFields(view[q]) :
           view[q][f] = Null \/ view[q][f] = At(doc, f)
      /\ \A f \in InvariantFields(body[q]) : At(view[q], f) = body[q][f]
  BY <1>4 DEF FieldInv, Withheld, Kept
<1>8. doc # NoDoc
  BY <1>3, DocAssumption
<1>9. CASE PublishReplace(q)
  <2>1. view'[q] = doc
    BY <1>1, <1>3, <1>6, <1>9, PublishEffect DEF PublishReplace, Apply, DataSignal
  <2>2. Withheld(q)'
    BY <1>5, <1>8, <2>1 DEF Withheld, DeferredFields, At
  <2>3. \A f \in InvariantFields(body[q]) : At(doc, f) = body[q][f]
    BY <1>3, <1>4, PayloadFields DEF InvariantViolated
  <2> QED
    BY <1>5, <2>1, <2>2, <2>3 DEF Kept
<1>10. CASE PublishPatch(q) \/ PublishFill(q)
  <2> DEFINE ops    == PatchOps(snap, doc)
             fields == DeferredValues(snap, doc)
  <2>1. /\ ops \in Doc
        /\ \A f \in DOMAIN ops : ClassOf(f) = "SPECULATIVE" /\ ops[f] = At(doc, f)
    <3>1. /\ ops \in Doc
          /\ DOMAIN ops = DOMAIN doc \cap ChangedSpeculative(snap, doc)
          /\ \A f \in DOMAIN doc \cap ChangedSpeculative(snap, doc) : ops[f] = doc[f]
      BY <1>3, ProjectType DEF PatchOps
    <3> HIDE DEF ops
    <3> QED
      BY <3>1 DEF ChangedSpeculative, SpeculativeFields, At
  <2>2. /\ fields \in Doc
        /\ \A f \in DOMAIN fields :
             ClassOf(f) \in {"DEFERRED", "PROVISIONAL"} /\ fields[f] = At(doc, f)
    <3>1. /\ fields \in Doc
          /\ DOMAIN fields = DOMAIN doc \cap DeferredFields(snap)
          /\ \A f \in DOMAIN doc \cap DeferredFields(snap) : fields[f] = doc[f]
      BY <1>3, ProjectType DEF DeferredValues
    <3> HIDE DEF fields
    <3> QED
      BY <3>1 DEF DeferredFields, At
  <2>3. PICK e \in {ops, fields} : view'[q] = Merge(view[q], e)
    <3>1. CASE PublishPatch(q)
      <4>1. view'[q] = Apply(view[q], DataSignal("PATCH", ops))
        BY <1>1, <1>3, <1>6, <3>1, PublishEffect DEF PublishPatch, Baseline
      <4> QED
        BY <4>1 DEF Apply, DataSignal
    <3>2. CASE PublishFill(q)
      <4>1. view'[q] = Apply(view[q], DataSignal("FILL", fields))
        BY <1>1, <1>3, <1>6, <3>2, PublishEffect DEF PublishFill, Baseline
      <4> QED
        BY <4>1 DEF Apply, DataSignal
    <3> QED
      BY <1>10, <3>1, <3>2
  <2>4. /\ e \in Doc
        /\ \A f \in DOMAIN e : ClassOf(f) # "INVARIANT" /\ e[f] = At(doc, f)
    BY <2>1, <2>2
  <2>5. Withheld(q)'
    <3>1. /\ DOMAIN Merge(view[q], e) = DOMAIN view[q] \cup DOMAIN e
          /\ \A f \in DOMAIN e : Merge(view[q], e)[f] = e[f]
          /\ \A f \in DOMAIN view[q] \ DOMAIN e : Merge(view[q], e)[f] = view[q][f]
      BY <1>4, <2>4, MergeType
    <3>2. ASSUME NEW f \in DeferredFields(Merge(view[q], e))
          PROVE  \/ Merge(view[q], e)[f] = Null
                 \/ Merge(view[q], e)[f] = At(doc, f)
      BY <1>7, <2>4, <3>1, <3>2 DEF DeferredFields
    <3> QED
      BY <1>5, <1>8, <2>3, <3>2 DEF Withheld
  <2>6. Kept(q)'
    <3>1. ASSUME NEW f \in InvariantFields(body[q])
          PROVE  At(Merge(view[q], e), f) = body[q][f]
      <4>1. ClassOf(f) = "INVARIANT"
        BY <3>1 DEF InvariantFields
      <4> QED
        BY <1>4, <1>7, <2>4, <4>1, MergeKeepsInvariants
    <3> QED
      BY <1>5, <2>3, <3>1 DEF Kept
  <2> QED
    BY <2>5, <2>6
<1>11. CASE PublishConfirm(q)
  <2>1. view'[q] = view[q]
    BY <1>1, <1>3, <1>6, <1>11, PublishEffect
       DEF PublishConfirm, ConfirmSignal, Apply, DataSignal
  <2> QED
    BY <1>5, <2>1, SameFields DEF FieldInv
<1> QED
  BY <1>9, <1>10, <1>11

\* An ABORT changes nothing the client holds.
LEMMA AbortFields ==
  ASSUME FieldInv, NEW q \in Request, UpstreamFailure(q) \/ AbortViolation(q)
  PROVE  Withheld(q)' /\ Kept(q)'
<1>1. PICK why \in AbortReason : Publish(q, AbortSignal(why))
  BY DEF UpstreamFailure, AbortViolation, AbortReason
<1>2. InTrack(q) /\ ShapeInv
  BY DEF UpstreamFailure, AbortViolation, InTrack, FieldInv, IInv
<1>3. view'[q] = Apply(view[q], AbortSignal(why))
  BY <1>1, <1>2, AbortSignalType, PublishEffect
<1>4. view'[q] = view[q]
  BY <1>3 DEF Apply, AbortSignal
<1> QED
  BY <1>4, SameFields DEF FieldInv, UpstreamFailure, AbortViolation

\* FieldInv is inductive.
LEMMA NextFieldInv == FieldInv /\ [Next]_vars => FieldInv'
<1> SUFFICES ASSUME FieldInv, [Next]_vars
             PROVE  FieldInv'
  OBVIOUS
<1>1. IInv'
  BY NextIInv DEF FieldInv
<1>2. CASE Environment \/ UNCHANGED vars
  <2>1. UNCHANGED <<body, fresh, view>>
    BY <1>2 DEF Environment, UpstreamChange, Age, Evict, vars
  <2>2. \A p \in Request : Withheld(p)' /\ Kept(p)'
    BY <2>1, SameFields DEF FieldInv
  <2> QED
    BY <1>1, <2>2 DEF FieldInv
<1>3. ASSUME NEW q \in Request,
             HandleSpec(q) \/ serveConfirmed(q) \/ runFormalTrack(q)
      PROVE  FieldInv'
  <2>1. Withheld(q)' /\ Kept(q)'
    BY <1>3, ServeFields, QuietFields, AbortFields, PublishFields
       DEF runFormalTrack
  <2>2. ASSUME NEW p \in Request, p # q
        PROVE  Withheld(p)' /\ Kept(p)'
    BY <1>3, <2>2, OthersUntouched, SameFields DEF FieldInv, IInv
  <2> QED
    BY <1>1, <2>1, <2>2 DEF FieldInv
<1> QED
  BY <1>2, <1>3 DEF Next

\* FieldInv always holds.
LEMMA SpecFieldInv == Spec => []FieldInv
<1>1. Init => FieldInv
  <2>1. Init => \A q \in Request : Withheld(q) /\ Kept(q)
    BY DEF Init, Withheld, Kept, Speculative
  <2> QED
    BY <2>1, InitIInv DEF FieldInv
<1> QED
  BY <1>1, NextFieldInv, PTL DEF Spec

\* A client never holds a vault value of a DEFERRED or PROVISIONAL field.
THEOREM DeferredSafe == Spec => []DeferredNeverSpeculated
<1>1. FieldInv => DeferredNeverSpeculated
  BY DEF FieldInv, Withheld, DeferredNeverSpeculated
<1> QED
  BY <1>1, SpecFieldInv, PTL

\* No signal revises an INVARIANT field of a speculative body.
THEOREM InvariantSafe == Spec => []InvariantNeverRevised
<1>1. FieldInv => InvariantNeverRevised
  BY DEF FieldInv, Kept, InvariantNeverRevised
<1> QED
  BY <1>1, SpecFieldInv, PTL

-----------------------------------------------------------------------------
(***************************************************************************)
(* PatchNeverNull: a signal is published once and never changed, so it is  *)
(* enough that no new PATCH carries null.                                  *)
(***************************************************************************)

\* A signal that an op without a value cannot spoil.
HasValues(sig) ==
  sig.signal = "PATCH" => \A f \in DOMAIN sig.data : sig.data[f] # Null

AllHaveValues(q) == \A i \in DOMAIN published[q] : HasValues(published[q][i])

\* Appending a signal that has its values to signals that have theirs.
LEMMA AppendHasValues ==
  ASSUME ShapeInv, NEW q \in Request, InTrack(q), AllHaveValues(q),
         NEW sig \in Signal, HasValues(sig), Publish(q, sig)
  PROVE  AllHaveValues(q)'
<1>1. published[q] \in Seq(Signal) /\ published'[q] = Append(published[q], sig)
  BY PublishEffect DEF ShapeInv, TypeOK
<1>2. /\ DOMAIN published'[q] = 1 .. Len(published[q]) + 1
      /\ Len(published[q]) \in Nat /\ DOMAIN published[q] = 1 .. Len(published[q])
      /\ published'[q][Len(published[q]) + 1] = sig
      /\ \A i \in 1 .. Len(published[q]) : published'[q][i] = published[q][i]
  BY <1>1
<1> QED
  BY <1>2 DEF AllHaveValues, HasValues

\* No step of a track publishes a PATCH with a null.
LEMMA TrackHasValues ==
  ASSUME IInv, NEW q \in Request, AllHaveValues(q),
         HandleSpec(q) \/ serveConfirmed(q) \/ runFormalTrack(q)
  PROVE  AllHaveValues(q)'
<1>1. CASE UNCHANGED published
  BY <1>1 DEF AllHaveValues
<1>2. CASE UpstreamFailure(q) \/ AbortViolation(q)
  <2>1. PICK why \in AbortReason : Publish(q, AbortSignal(why))
    BY <1>2 DEF UpstreamFailure, AbortViolation, AbortReason
  <2>2. AbortSignal(why) \in Signal /\ HasValues(AbortSignal(why)) /\ InTrack(q)
    BY <1>2, AbortSignalType
       DEF AbortSignal, HasValues, UpstreamFailure, AbortViolation, InTrack
  <2> QED
    BY <2>1, <2>2, AppendHasValues DEF IInv
<1>3. CASE PublishReplace(q) \/ PublishPatch(q) \/ PublishFill(q) \/ PublishConfirm(q)
  <2>1. /\ snapshots[q] \in Doc /\ fresh[q] \in Doc /\ InTrack(q)
    BY <1>3, ReadyToPublish
       DEF PublishReplace, PublishPatch, PublishFill, PublishConfirm, Unpatched
  <2>2. ASSUME NEW name \in {"REPLACE", "FILL", "CONFIRM"}, NEW d \in Doc,
               Publish(q, DataSignal(name, d))
        PROVE  AllHaveValues(q)'
    <3>1. DataSignal(name, d) \in Signal /\ HasValues(DataSignal(name, d))
      BY DataSignalType DEF DataSignal, HasValues
    <3> QED
      BY <2>1, <2>2, <3>1, AppendHasValues DEF IInv
  <2>3. CASE PublishPatch(q)
    <3> DEFINE sig == DataSignal("PATCH", PatchOps(snapshots[q], fresh[q]))
    <3>1. Publish(q, sig) /\ ~structuralChange(snapshots[q], fresh[q])
      BY <2>3 DEF PublishPatch, Unpatched, ReplaceDue, Baseline
    <3>2. sig \in Signal
      BY <2>1, TrackSignals
    <3>3. HasValues(sig)
      BY <2>1, <3>1, PatchHasValues DEF HasValues, DataSignal
    <3> QED
      BY <2>1, <3>1, <3>2, <3>3, AppendHasValues DEF IInv
  <2>4. DeferredValues(snapshots[q], fresh[q]) \in Doc /\ EmptyDoc \in Doc
    BY <2>1, ProjectType, EmptyDocType DEF DeferredValues
  <2> QED
    BY <1>3, <2>1, <2>2, <2>3, <2>4
       DEF PublishReplace, PublishFill, PublishConfirm, ConfirmSignal, Baseline
<1> QED
  BY <1>1, <1>2, <1>3
     DEF HandleSpec, ServeCold, ServeAnonymous, ServeSpeculative, serveConfirmed,
         ConfirmedAnswer, ConfirmedUnstored, StoreConfirmed, runFormalTrack,
         UpstreamAnswer, StoreFresh, StoreViolating, Release

\* A PATCH always says what the new value is, although the code would leave a
\* null out of it.
THEOREM PatchesHaveValues == Spec => []PatchNeverNull
<1> DEFINE Inv == IInv /\ \A q \in Request : AllHaveValues(q)
<1>1. Init => Inv
  <2>1. Init => \A q \in Request : AllHaveValues(q)
    BY DEF Init, AllHaveValues
  <2> QED
    BY <2>1, InitIInv
<1>2. Inv /\ [Next]_vars => Inv'
  <2> SUFFICES ASSUME Inv, [Next]_vars
               PROVE  Inv'
    OBVIOUS
  <2>1. IInv'
    BY NextIInv
  <2>2. CASE Environment \/ UNCHANGED vars
    <3>1. UNCHANGED published
      BY <2>2 DEF Environment, UpstreamChange, Age, Evict, vars
    <3> QED
      BY <2>1, <3>1 DEF AllHaveValues
  <2>3. ASSUME NEW q \in Request,
               HandleSpec(q) \/ serveConfirmed(q) \/ runFormalTrack(q)
        PROVE  Inv'
    <3>1. AllHaveValues(q)'
      BY <2>3, TrackHasValues
    <3>2. ASSUME NEW p \in Request, p # q
          PROVE  AllHaveValues(p)'
      BY <2>3, <3>2, OthersUntouched DEF IInv, AllHaveValues
    <3> QED
      BY <2>1, <3>1, <3>2
  <2> QED
    BY <2>2, <2>3 DEF Next
<1>3. Inv => PatchNeverNull
  BY DEF AllHaveValues, HasValues, PatchNeverNull
<1> QED
  BY <1>1, <1>2, <1>3, PTL DEF Spec

-----------------------------------------------------------------------------
(***************************************************************************)
(* FillIsAnnounced: the snapshot stands between the header and the         *)
(* signals.  Both have its deferred fields, unless the structure changed.  *)
(***************************************************************************)

\* Between its PATCH and its FILL a track knows that a FILL was announced.
Announced(q) ==
  /\ pc[q] = "patched" => DeferredFields(body[q]) # {}
  /\ Reconciled(q) /\ ~Aborted(q) =>
       \/ Published(q, "REPLACE")
       \/ Published(q, "FILL") <=> DeferredFields(body[q]) # {}

\* Publishing adds one name to those published.
LEMMA PublishedAppend ==
  ASSUME ShapeInv, NEW q \in Request, InTrack(q), NEW sig \in Signal,
         Publish(q, sig), NEW name
  PROVE  Published(q, name)' <=> Published(q, name) \/ sig.signal = name
<1>1. published[q] \in Seq(Signal) /\ published'[q] = Append(published[q], sig)
  BY PublishEffect DEF ShapeInv, TypeOK
<1>2. /\ DOMAIN published[q] = 1 .. Len(published[q])
      /\ DOMAIN published'[q] = 1 .. Len(published[q]) + 1
      /\ Len(published[q]) \in Nat
      /\ published'[q][Len(published[q]) + 1] = sig
      /\ \A i \in 1 .. Len(published[q]) : published'[q][i] = published[q][i]
  BY <1>1
<1>3. ASSUME Published(q, name)' PROVE Published(q, name) \/ sig.signal = name
  BY <1>2, <1>3 DEF Published
<1>4. ASSUME Published(q, name) \/ sig.signal = name PROVE Published(q, name)'
  BY <1>2, <1>4 DEF Published
<1> QED
  BY <1>3, <1>4

\* The body withholds the deferred fields and loses none of them; without a
\* change of structure the fresh document has them all.
LEMMA DeferredKept ==
  ASSUME NEW snap \in Doc, NEW doc \in Doc
  PROVE  /\ DeferredFields(Payload(snap)) = DeferredFields(snap)
         /\ ~structuralChange(snap, doc) =>
              DeferredFields(snap) \cap DOMAIN doc = DeferredFields(snap)
BY DEF DeferredFields, Payload, structuralChange

\* Nothing is published and the record of the request's answer stays.
LEMMA QuietAnnounced ==
  ASSUME IInv, NEW q \in Request, Announced(q),
         \/ HandleSpec(q) \/ serveConfirmed(q)
         \/ UpstreamAnswer(q) \/ StoreFresh(q) \/ StoreViolating(q) \/ Release(q)
  PROVE  Announced(q)'
<1>1. CASE HandleSpec(q) \/ serveConfirmed(q)
  <2>1. pc'[q] \in {"confirming", "storing", "done", "formal"}
        /\ (pc'[q] # "formal" => view'[q] = NoDoc)
    BY <1>1 DEF IInv, ShapeInv, TypeOK, Shape, Goto, HandleSpec, ServeCold,
       ServeAnonymous, ServeSpeculative, serveConfirmed, ConfirmedAnswer,
       ConfirmedUnstored, StoreConfirmed
  <2> QED
    BY <2>1 DEF Announced, Reconciled, Speculative
<1>2. CASE UpstreamAnswer(q) \/ StoreFresh(q)
  <2>1. pc'[q] \in {"answered", "stored"}
    BY <1>2 DEF IInv, ShapeInv, TypeOK, Goto, UpstreamAnswer, StoreFresh
  <2> QED
    BY <2>1 DEF Announced, Reconciled
<1>3. CASE StoreViolating(q) \/ Release(q)
  <2>1. /\ pc[q] \in {"violated", "returning"} /\ pc'[q] \in {"returning", "done"}
        /\ body' = body /\ view' = view /\ published' = published
    BY <1>3 DEF IInv, ShapeInv, TypeOK, Goto, StoreViolating, Release
  <2> QED
    BY <2>1 DEF Announced, Reconciled, Speculative, Aborted, Published
<1> QED
  BY <1>1, <1>2, <1>3

\* An ABORT announces nothing.
LEMMA AbortAnnounced ==
  ASSUME IInv, NEW q \in Request, UpstreamFailure(q) \/ AbortViolation(q)
  PROVE  Announced(q)'
<1>1. PICK why \in AbortReason : Publish(q, AbortSignal(why))
  BY DEF UpstreamFailure, AbortViolation, AbortReason
<1>2. InTrack(q) /\ pc'[q] \in {"returning", "violated"}
  BY DEF IInv, ShapeInv, TypeOK, Goto, InTrack, UpstreamFailure, AbortViolation
<1>3. AbortSignal(why) \in Signal /\ AbortSignal(why).signal = "ABORT"
  BY AbortSignalType DEF AbortSignal
<1>4. Aborted(q)'
  BY <1>1, <1>2, <1>3, PublishedAppend DEF IInv, Aborted
<1> QED
  BY <1>2, <1>4 DEF Announced

\* A FILL is published exactly for what the header announced.
LEMMA PublishAnnounced ==
  ASSUME IInv, NEW q \in Request, Announced(q),
         PublishReplace(q) \/ PublishPatch(q) \/ PublishFill(q) \/ PublishConfirm(q)
  PROVE  Announced(q)'
<1> DEFINE snap == snapshots[q]
           doc  == fresh[q]
<1>1. pc[q] \in {"stored", "patched"}
  BY DEF PublishReplace, PublishPatch, PublishFill, PublishConfirm, Unpatched
<1>2. snap \in Doc /\ doc \in Doc /\ InTrack(q) /\ body[q] = Payload(snap)
  BY <1>1, ReadyToPublish DEF IInv, ShapeInv, Shape
<1>3. body' = body
  BY DEF PublishReplace, PublishPatch, PublishFill, PublishConfirm
<1>4. DeferredFields(body[q]) = DeferredFields(snap)
  BY <1>2, DeferredKept
<1>5. /\ pc[q] = "stored" => \A name : ~Published(q, name)
      /\ pc[q] = "patched" => ~Published(q, "FILL")
  <2>1. CASE pc[q] = "stored"
    BY <2>1 DEF IInv, ShapeInv, Shape, Published
  <2>2. CASE pc[q] = "patched"
    <3>1. published[q] = <<DataSignal("PATCH", PatchOps(snap, doc))>>
      BY <2>2 DEF IInv, Progress
    <3>2. DataSignal("PATCH", PatchOps(snap, doc)).signal = "PATCH"
      BY DEF DataSignal
    <3> QED
      BY <2>2, <3>1, <3>2 DEF Published
  <2> QED
    BY <1>1, <2>1, <2>2
<1>6. ASSUME NEW name \in {"REPLACE", "PATCH", "FILL", "CONFIRM"}, NEW d \in Doc,
             Publish(q, DataSignal(name, d)), NEW n
      PROVE  Published(q, n)' <=> Published(q, n) \/ n = name
  <2>1. DataSignal(name, d) \in Signal /\ DataSignal(name, d).signal = name
    BY DataSignalType DEF DataSignal
  <2> QED
    BY <1>2, <1>6, <2>1, PublishedAppend DEF IInv
<1>7. PatchOps(snap, doc) \in Doc /\ DeferredValues(snap, doc) \in Doc /\ EmptyDoc \in Doc
  BY <1>2, ProjectType, EmptyDocType DEF PatchOps, DeferredValues
<1>8. CASE PublishReplace(q)
  <2>1. Published(q, "REPLACE")'
    BY <1>2, <1>6, <1>8 DEF PublishReplace
  <2>2. pc'[q] = "returning"
    BY <1>8 DEF PublishReplace, Goto, IInv, ShapeInv, TypeOK
  <2> QED
    BY <2>1, <2>2 DEF Announced
<1>9. CASE PublishPatch(q)
  <2>1. pc[q] = "stored" /\ ~structuralChange(snap, doc)
    BY <1>9 DEF PublishPatch, Unpatched, ReplaceDue, Baseline
  <2>2. ~Published(q, "FILL")'
    BY <1>5, <1>6, <1>7, <1>9, <2>1 DEF PublishPatch, Baseline
  <2>3. HasFill(q) <=> DeferredFields(body[q]) # {}
    BY <1>2, <1>4, <2>1, DeferredKept DEF HasFill, Baseline
  <2>4. pc'[q] = IF HasFill(q) THEN "patched" ELSE "returning"
    BY <1>9 DEF PublishPatch, Goto, IInv, ShapeInv, TypeOK
  <2> QED
    BY <1>3, <2>2, <2>3, <2>4 DEF Announced, Reconciled
<1>10. CASE PublishFill(q)
  <2>1. Published(q, "FILL")'
    BY <1>6, <1>7, <1>10 DEF PublishFill, Baseline
  <2>2. DeferredFields(body[q]) # {}
    BY <1>4, <1>10 DEF PublishFill, HasFill, Baseline, Announced
  <2>3. pc'[q] = "returning"
    BY <1>10 DEF PublishFill, Goto, IInv, ShapeInv, TypeOK
  <2> QED
    BY <1>3, <2>1, <2>2, <2>3 DEF Announced
<1>11. CASE PublishConfirm(q)
  <2>1. pc[q] = "stored" /\ ~structuralChange(snap, doc) /\ ~HasFill(q)
    BY <1>11 DEF PublishConfirm, Unpatched, ReplaceDue, Baseline
  <2>2. ~Published(q, "FILL")'
    BY <1>5, <1>6, <1>7, <1>11, <2>1 DEF PublishConfirm, ConfirmSignal
  <2>3. DeferredFields(body[q]) = {}
    BY <1>2, <1>4, <2>1, DeferredKept DEF HasFill, Baseline
  <2>4. pc'[q] = "returning"
    BY <1>11 DEF PublishConfirm, Goto, IInv, ShapeInv, TypeOK
  <2> QED
    BY <1>3, <2>2, <2>3, <2>4 DEF Announced
<1> QED
  BY <1>8, <1>9, <1>10, <1>11

\* What the resolver concludes from the header, that a PATCH is or is not final, is
\* what the track does, for any documents and classification.
THEOREM FillsAnnounced == Spec => []FillIsAnnounced
<1> DEFINE Inv == IInv /\ \A q \in Request : Announced(q)
<1>1. Init => Inv
  <2>1. Init => \A q \in Request : Announced(q)
    BY DEF Init, Announced, Reconciled, Speculative
  <2> QED
    BY <2>1, InitIInv
<1>2. Inv /\ [Next]_vars => Inv'
  <2> SUFFICES ASSUME Inv, [Next]_vars
               PROVE  Inv'
    OBVIOUS
  <2>1. IInv'
    BY NextIInv
  <2>2. CASE Environment \/ UNCHANGED vars
    <3>1. UNCHANGED <<pc, body, published, view>>
      BY <2>2 DEF Environment, UpstreamChange, Age, Evict, vars
    <3> QED
      BY <2>1, <3>1 DEF Announced, Reconciled, Speculative, Aborted, Published
  <2>3. ASSUME NEW q \in Request,
               HandleSpec(q) \/ serveConfirmed(q) \/ runFormalTrack(q)
        PROVE  Inv'
    <3>1. Announced(q)'
      BY <2>3, QuietAnnounced, AbortAnnounced, PublishAnnounced DEF runFormalTrack
    <3>2. ASSUME NEW p \in Request, p # q
          PROVE  Announced(p)'
      BY <2>3, <3>2, OthersUntouched
         DEF IInv, Announced, Reconciled, Speculative, Aborted, Published
    <3> QED
      BY <2>1, <3>1, <3>2
  <2> QED
    BY <2>2, <2>3 DEF Next
<1>3. Inv => FillIsAnnounced
  BY DEF Announced, FillIsAnnounced
<1> QED
  BY <1>1, <1>2, <1>3, PTL DEF Spec

-----------------------------------------------------------------------------
(***************************************************************************)
(* The read path implements SignalContract: every step of a request is the *)
(* contract's step for its Reconcile ID, or none.                          *)
(***************************************************************************)

\* The names of a log grow with the log.
LEMMA NamesAppend ==
  ASSUME NEW q, NEW sig \in Signal, published[q] \in Seq(Signal),
         published'[q] = Append(published[q], sig)
  PROVE  NamesOf(q)' = Append(NamesOf(q), sig.signal)
<1> DEFINE n == Len(published[q])
<1>1. /\ n \in Nat
      /\ DOMAIN published[q] = 1 .. n
      /\ DOMAIN published'[q] = 1 .. n + 1
      /\ published'[q][n + 1] = sig
      /\ \A i \in 1 .. n : published'[q][i] = published[q][i]
  OBVIOUS
<1>2. NamesOf(q) = [i \in 1 .. n |-> published[q][i].signal]
  BY <1>1 DEF NamesOf
<1>3. NamesOf(q)' = [i \in 1 .. n + 1 |-> published'[q][i].signal]
  BY <1>1 DEF NamesOf
<1>4. \A i \in 1 .. n : published[q][i].signal \in SignalName
  <2>1. \A i \in 1 .. n : published[q][i] \in Signal
    BY <1>1
  <2> QED
    BY <2>1 DEF Signal
<1>5. sig.signal \in SignalName
  BY DEF Signal
<1>6. NamesOf(q) \in Seq(SignalName) /\ Len(NamesOf(q)) = n
  BY <1>1, <1>2, <1>4
<1>7. /\ Append(NamesOf(q), sig.signal) \in Seq(SignalName)
      /\ Len(Append(NamesOf(q), sig.signal)) = n + 1
      /\ Append(NamesOf(q), sig.signal)[n + 1] = sig.signal
      /\ \A i \in 1 .. n : Append(NamesOf(q), sig.signal)[i] = NamesOf(q)[i]
  BY <1>5, <1>6
<1>8. Append(NamesOf(q), sig.signal)
        = [i \in 1 .. n + 1 |-> Append(NamesOf(q), sig.signal)[i]]
  BY <1>7
<1>9. ASSUME NEW i \in 1 .. n + 1
      PROVE  published'[q][i].signal = Append(NamesOf(q), sig.signal)[i]
  BY <1>1, <1>2, <1>7, <1>9
<1> QED
  BY <1>3, <1>8, <1>9

\* A request whose record does not change keeps its place in the contract.
LEMMA SamePhase ==
  ASSUME NEW q,
         pc'[q] = pc[q], published'[q] = published[q], view'[q] = view[q]
  PROVE  PhaseOf(q)' = PhaseOf(q) /\ NamesOf(q)' = NamesOf(q)
BY DEF PhaseOf, NamesOf, Speculative, Aborted, Published

\* Steps of a track that publish nothing are not steps of the contract.
LEMMA QuietPhase ==
  ASSUME IInv, NEW q \in Request,
         \/ ServeCold(q) \/ ServeAnonymous(q) \/ serveConfirmed(q)
         \/ UpstreamAnswer(q) \/ StoreFresh(q) \/ StoreViolating(q) \/ Release(q)
  PROVE  PhaseOf(q)' = PhaseOf(q) /\ NamesOf(q)' = NamesOf(q)
<1>1. UNCHANGED <<published, view>>
  BY DEF ServeCold, ServeAnonymous, serveConfirmed, ConfirmedAnswer,
     ConfirmedUnstored, StoreConfirmed, UpstreamAnswer, StoreFresh,
     StoreViolating, Release
<1>2. pc[q] # "patched" /\ pc'[q] # "patched"
  BY DEF IInv, ShapeInv, TypeOK, Goto, ServeCold, ServeAnonymous, serveConfirmed,
     ConfirmedAnswer, ConfirmedUnstored, StoreConfirmed, UpstreamAnswer,
     StoreFresh, StoreViolating, Release
<1> QED
  BY <1>1, <1>2 DEF PhaseOf, NamesOf, Speculative, Aborted, Published

\* A publishing step of a track, in the contract's terms.
LEMMA PublishPhase ==
  ASSUME IInv, NEW q \in Request, InTrack(q), NEW sig \in Signal, Publish(q, sig)
  PROVE  /\ NamesOf(q)' = Append(NamesOf(q), sig.signal)
         /\ PhaseOf(q)' = IF pc'[q] = "patched" THEN "patched"
                          ELSE IF Aborted(q) \/ sig.signal = "ABORT" THEN "aborted"
                          ELSE "settled"
<1>1. /\ ShapeInv /\ TypeOK /\ view[q] \in Doc
      /\ published[q] \in Seq(Signal)
  BY DEF IInv, ShapeInv, Shape, TypeOK
<1>2. /\ published'[q] = Append(published[q], sig)
      /\ view'[q] \in Doc
      /\ Aborted(q)' <=> Aborted(q) \/ sig.signal = "ABORT"
  BY <1>1, PublishType, PublishEffect
<1>3. published'[q] # <<>>
  <2>1. Len(published'[q]) = Len(published[q]) + 1 /\ Len(published[q]) \in Nat
    BY <1>1, <1>2
  <2> QED
    BY <2>1
<1>4. Speculative(q)'
  BY <1>2, DocAssumption DEF Speculative
<1>5. NamesOf(q)' = Append(NamesOf(q), sig.signal)
  BY <1>1, <1>2, NamesAppend
<1>6. CASE pc'[q] = "patched"
  BY <1>3, <1>4, <1>5, <1>6 DEF PhaseOf
<1>7. CASE pc'[q] # "patched" /\ Aborted(q)'
  <2>1. PhaseOf(q)' = "aborted"
    BY <1>3, <1>4, <1>7 DEF PhaseOf
  <2> QED
    BY <1>2, <1>5, <1>7, <2>1
<1>8. CASE pc'[q] # "patched" /\ ~Aborted(q)'
  <2>1. PhaseOf(q)' = "settled"
    BY <1>3, <1>4, <1>8 DEF PhaseOf
  <2> QED
    BY <1>2, <1>5, <1>8, <2>1
<1> QED
  BY <1>6, <1>7, <1>8

\* Where a track is in the contract before it publishes.
LEMMA PhaseBefore ==
  ASSUME IInv, NEW q \in Request
  PROVE  /\ pc[q] = "idle" => PhaseOf(q) = "none"
         /\ pc[q] \in {"formal", "answered", "stored"} =>
              InTrack(q) /\ ~Aborted(q) /\ PhaseOf(q) = "open"
         /\ pc[q] = "patched" => InTrack(q) /\ ~Aborted(q) /\ PhaseOf(q) = "patched"
<1>1. ShapeInv /\ Shape(q) /\ Progress(q)
  BY DEF IInv, ShapeInv
<1>2. CASE pc[q] = "idle"
  BY <1>1, <1>2 DEF Shape, PhaseOf, Speculative
<1>3. CASE pc[q] \in {"formal", "answered", "stored"}
  <2>1. InTrack(q) /\ published[q] = <<>>
    BY <1>1, <1>3 DEF Shape, InTrack
  <2>2. view[q] # NoDoc
    BY <1>1, <2>1, DocAssumption DEF Shape
  <2> QED
    BY <1>3, <2>1, <2>2 DEF PhaseOf, Speculative, Aborted, Published
<1>4. CASE pc[q] = "patched"
  <2>1. published[q] # <<>> /\ view[q] # NoDoc
    <3>1. view[q] \in Doc
      BY <1>1, <1>4 DEF Shape, InTrack
    <3>2. PICK sig : published[q] = <<sig>>
      BY <1>1, <1>4 DEF Progress
    <3> QED
      BY <3>1, <3>2, DocAssumption
  <2>2. InTrack(q) /\ ~Aborted(q)
    BY <1>4, ReadyToPublish
  <2> QED
    BY <1>4, <2>1, <2>2 DEF PhaseOf, Speculative
<1> QED
  BY <1>2, <1>3, <1>4

\* A request that acts changes no one else's place in the contract.
LEMMA ContractFrame ==
  ASSUME IInv, NEW q \in Request,
         HandleSpec(q) \/ serveConfirmed(q) \/ runFormalTrack(q)
  PROVE  \A p \in Request \ {q} : PhaseOf(p)' = PhaseOf(p) /\ NamesOf(p)' = NamesOf(p)
<1> SUFFICES ASSUME NEW p \in Request, p # q
             PROVE  PhaseOf(p)' = PhaseOf(p) /\ NamesOf(p)' = NamesOf(p)
  OBVIOUS
<1>1. pc'[p] = pc[p] /\ published'[p] = published[p] /\ view'[p] = view[p]
  BY OthersUntouched DEF IInv
<1> QED
  BY <1>1, SamePhase

\* Publishing is the contract's Emit.
LEMMA PublishEmits ==
  ASSUME IInv, NEW q \in Request, InTrack(q), runFormalTrack(q),
         NEW sig \in Signal, Publish(q, sig)
  PROVE  Contract!Emit(q, sig.signal,
                       IF pc'[q] = "patched" THEN "patched"
                       ELSE IF Aborted(q) \/ sig.signal = "ABORT" THEN "aborted"
                       ELSE "settled")
<1> DEFINE next == IF pc'[q] = "patched" THEN "patched"
                   ELSE IF Aborted(q) \/ sig.signal = "ABORT" THEN "aborted"
                   ELSE "settled"
<1>1. NamesOf(q)' = Append(NamesOf(q), sig.signal) /\ PhaseOf(q)' = next
  BY PublishPhase
<1> HIDE DEF next
<1>2. \A p \in Request \ {q} : PhaseOf(p)' = PhaseOf(p) /\ NamesOf(p)' = NamesOf(p)
  BY ContractFrame
<1>3. Contract!Emit(q, sig.signal, next)
  BY <1>1, <1>2 DEF Contract!Emit
<1> QED
  BY <1>3 DEF next

\* The Formal Track's steps are steps of the contract.
LEMMA TrackContract ==
  ASSUME IInv, NEW q \in Request, runFormalTrack(q)
  PROVE  [Contract!Next]_(Contract!vars)
<1>1. pc \in [Request -> Location]
  BY DEF IInv, ShapeInv, TypeOK
<1>2. CASE UpstreamAnswer(q) \/ StoreFresh(q) \/ StoreViolating(q) \/ Release(q)
  <2>1. \A p \in Request : PhaseOf(p)' = PhaseOf(p) /\ NamesOf(p)' = NamesOf(p)
    BY <1>2, QuietPhase, ContractFrame
  <2> QED
    BY <2>1 DEF Contract!vars
<1>3. CASE UpstreamFailure(q) \/ AbortViolation(q)
  <2>1. PICK why \in AbortReason : Publish(q, AbortSignal(why))
    BY <1>3 DEF UpstreamFailure, AbortViolation, AbortReason
  <2>2. pc[q] \in {"formal", "answered"} /\ pc'[q] # "patched"
    BY <1>1, <1>3 DEF UpstreamFailure, AbortViolation, Goto
  <2>3. AbortSignal(why) \in Signal /\ AbortSignal(why).signal = "ABORT"
    BY AbortSignalType DEF AbortSignal
  <2>4. Contract!Emit(q, "ABORT", "aborted") /\ PhaseOf(q) = "open"
    BY <2>1, <2>2, <2>3, PhaseBefore, PublishEmits
  <2> QED
    BY <2>4 DEF Contract!Next, Contract!Abort
<1>4. CASE PublishReplace(q) \/ PublishPatch(q) \/ PublishFill(q) \/ PublishConfirm(q)
  <2>1. pc[q] \in {"stored", "patched"}
    BY <1>4 DEF PublishReplace, PublishPatch, PublishFill, PublishConfirm, Unpatched
  <2>2. /\ snapshots[q] \in Doc /\ fresh[q] \in Doc /\ InTrack(q) /\ ~Aborted(q)
        /\ pc[q] = "stored" => PhaseOf(q) = "open"
        /\ pc[q] = "patched" => PhaseOf(q) = "patched"
    BY <2>1, ReadyToPublish, PhaseBefore
  <2>3. ASSUME NEW name \in {"PATCH", "FILL", "REPLACE", "CONFIRM"}, NEW d \in Doc,
               Publish(q, DataSignal(name, d))
        PROVE  Contract!Emit(q, name,
                 IF pc'[q] = "patched" THEN "patched" ELSE "settled")
    <3>1. DataSignal(name, d) \in Signal /\ DataSignal(name, d).signal = name
      BY DataSignalType DEF DataSignal
    <3> QED
      BY <2>2, <2>3, <3>1, PublishEmits
  <2>4. PatchOps(snapshots[q], fresh[q]) \in Doc
        /\ DeferredValues(snapshots[q], fresh[q]) \in Doc /\ EmptyDoc \in Doc
    BY <2>2, ProjectType, EmptyDocType DEF PatchOps, DeferredValues
  <2>5. CASE PublishReplace(q)
    <3>1. Contract!Emit(q, "REPLACE", "settled") /\ PhaseOf(q) = "open"
      BY <1>1, <2>2, <2>3, <2>5 DEF PublishReplace, Goto
    <3> QED
      BY <3>1 DEF Contract!Next, Contract!Settle
  <2>6. CASE PublishPatch(q)
    <3>1. Contract!Emit(q, "PATCH", IF pc'[q] = "patched" THEN "patched" ELSE "settled")
          /\ PhaseOf(q) = "open"
      BY <2>2, <2>3, <2>4, <2>6 DEF PublishPatch, Unpatched, Baseline
    <3> QED
      BY <3>1 DEF Contract!Next, Contract!Settle, Contract!Patch
  <2>7. CASE PublishFill(q)
    <3>1. Contract!Emit(q, "FILL", "settled") /\ PhaseOf(q) \in {"open", "patched"}
      BY <1>1, <2>1, <2>2, <2>3, <2>4, <2>7 DEF PublishFill, Goto, Baseline
    <3> QED
      BY <3>1 DEF Contract!Next, Contract!Settle
  <2>8. CASE PublishConfirm(q)
    <3>1. Contract!Emit(q, "CONFIRM", "settled") /\ PhaseOf(q) = "open"
      BY <1>1, <2>2, <2>3, <2>4, <2>8
         DEF PublishConfirm, Unpatched, ConfirmSignal, Goto
    <3> QED
      BY <3>1 DEF Contract!Next, Contract!Settle
  <2> QED
    BY <1>4, <2>5, <2>6, <2>7, <2>8
<1> QED
  BY <1>2, <1>3, <1>4 DEF runFormalTrack

\* So are the handler's: only the speculative answer opens an ID.
LEMMA HandlerContract ==
  ASSUME IInv, NEW q \in Request, HandleSpec(q) \/ serveConfirmed(q)
  PROVE  [Contract!Next]_(Contract!vars)
<1>1. \A p \in Request \ {q} : PhaseOf(p)' = PhaseOf(p) /\ NamesOf(p)' = NamesOf(p)
  BY ContractFrame
<1>2. CASE ServeCold(q) \/ ServeAnonymous(q) \/ serveConfirmed(q)
  <2>1. \A p \in Request : PhaseOf(p)' = PhaseOf(p) /\ NamesOf(p)' = NamesOf(p)
    BY <1>1, <1>2, QuietPhase
  <2> QED
    BY <2>1 DEF Contract!vars
<1>3. CASE ServeSpeculative(q)
  <2>1. PhaseOf(q) = "none"
    BY <1>3, PhaseBefore DEF ServeSpeculative
  <2>2. view'[q] # NoDoc /\ published' = published /\ published[q] = <<>>
    <3>1. vault[Target[q]] \in Doc
      BY <1>3, RequestAssumption DEF IInv, ShapeInv, TypeOK, ServeSpeculative, Hot
    <3>2. view'[q] = Payload(vault[Target[q]]) /\ pc[q] = "idle" /\ published' = published
      BY <1>3 DEF IInv, ShapeInv, TypeOK, ServeSpeculative
    <3> QED
      BY <3>1, <3>2, PayloadType, DocAssumption DEF IInv, ShapeInv, Shape
  <2>3. PhaseOf(q)' = "open" /\ NamesOf(q)' = NamesOf(q)
    BY <2>2 DEF PhaseOf, Speculative, NamesOf
  <2>4. Contract!Open(q)
    BY <1>1, <2>1, <2>3 DEF Contract!Open
  <2> QED
    BY <2>4 DEF Contract!Next
<1> QED
  BY <1>2, <1>3 DEF HandleSpec

\* Every step of the read path is a step of the contract or none.
LEMMA NextContract == IInv /\ [Next]_vars => [Contract!Next]_(Contract!vars)
<1> SUFFICES ASSUME IInv, [Next]_vars
             PROVE  [Contract!Next]_(Contract!vars)
  OBVIOUS
<1>1. CASE Environment \/ UNCHANGED vars
  <2>1. UNCHANGED <<pc, published, view>>
    BY <1>1 DEF Environment, UpstreamChange, Age, Evict, vars
  <2>2. \A p \in Request : PhaseOf(p)' = PhaseOf(p) /\ NamesOf(p)' = NamesOf(p)
    BY <2>1, SamePhase
  <2> QED
    BY <2>2 DEF Contract!vars
<1>2. ASSUME NEW q \in Request,
             HandleSpec(q) \/ serveConfirmed(q) \/ runFormalTrack(q)
      PROVE  [Contract!Next]_(Contract!vars)
  BY <1>2, HandlerContract, TrackContract
<1> QED
  BY <1>1, <1>2 DEF Next

\* The safety part of KeepsContract, for any number of requests: no request is
\* sent a signal it was not promised, one after its closing signal, or two
\* closing signals, whatever the others do.
THEOREM ImplementsContract == Spec => Contract!Init /\ [][Contract!Next]_(Contract!vars)
<1>1. Init => Contract!Init
  <2> SUFFICES ASSUME Init
               PROVE  Contract!Init
    OBVIOUS
  <2>1. \A q \in Request : PhaseOf(q) = "none" /\ NamesOf(q) = <<>>
    BY DEF Init, PhaseOf, Speculative, NamesOf
  <2> QED
    BY <2>1 DEF Contract!Init
<1> QED
  BY <1>1, InitIInv, NextIInv, NextContract, PTL DEF Spec

-----------------------------------------------------------------------------
(***************************************************************************)
(* What follows from the contract for the signals of a request.            *)
(***************************************************************************)

\* The place of a request in the contract fixes what it has been sent.
LogOfPhase(q) ==
  /\ NamesOf(q) \in Contract!SignalLog
  /\ PhaseOf(q) \in {"none", "open"} => NamesOf(q) = <<>>
  /\ PhaseOf(q) = "patched" => NamesOf(q) = <<"PATCH">>

\* One name, and one more.
LEMMA AppendNames ==
  ASSUME NEW a, NEW b
  PROVE  Append(<<>>, a) = <<a>> /\ Append(<<a>>, b) = <<a, b>>
<1> DEFINE s == Append(<<a>>, b)
           t == <<a, b>>
           S == {a, b}
<1>1. <<a>> \in Seq(S) /\ Len(<<a>>) = 1 /\ <<a>>[1] = a
  OBVIOUS
<1>2. s \in Seq(S) /\ Len(s) = 2 /\ s[1] = a /\ s[2] = b
  BY <1>1
<1>3. t \in Seq(S) /\ Len(t) = 2 /\ t[1] = a /\ t[2] = b
  OBVIOUS
<1> HIDE DEF s, t
<1>4. \A i \in 1 .. 2 : s[i] = t[i]
  BY <1>2, <1>3
<1>5. s = [i \in 1 .. 2 |-> s[i]] /\ t = [i \in 1 .. 2 |-> t[i]]
  BY <1>2, <1>3
<1>6. s = t
  BY <1>4, <1>5
<1> QED
  BY <1>6 DEF s, t

\* The contract's Emit, for the request it is about and for the others.
LEMMA EmitEffect ==
  ASSUME NEW q \in Request, NEW name, NEW next, Contract!Emit(q, name, next)
  PROVE  /\ PhaseOf(q)' = next /\ NamesOf(q)' = Append(NamesOf(q), name)
         /\ \A p \in Request \ {q} : PhaseOf(p)' = PhaseOf(p) /\ NamesOf(p)' = NamesOf(p)
<1> DEFINE P == [p \in Request |-> PhaseOf(p)]
           L == [p \in Request |-> NamesOf(p)]
<1>1. P' = [P EXCEPT ![q] = next] /\ L' = [L EXCEPT ![q] = Append(L[q], name)]
  BY DEF Contract!Emit
<1>2. \A p \in Request : P'[p] = PhaseOf(p)' /\ L'[p] = NamesOf(p)'
  OBVIOUS
<1>3. \A p \in Request : P[p] = PhaseOf(p) /\ L[p] = NamesOf(p)
  OBVIOUS
<1>4. DOMAIN P = Request /\ DOMAIN L = Request
  OBVIOUS
<1> HIDE DEF P, L
<1> QED
  BY <1>1, <1>2, <1>3, <1>4

\* A step of the contract, request by request.
LEMMA ContractStep ==
  ASSUME [Contract!Next]_(Contract!vars), NEW q \in Request
  PROVE  \/ PhaseOf(q)' = PhaseOf(q) /\ NamesOf(q)' = NamesOf(q)
         \/ PhaseOf(q) = "none" /\ PhaseOf(q)' = "open" /\ NamesOf(q)' = NamesOf(q)
         \/ /\ PhaseOf(q) = "open"
            /\ PhaseOf(q)' \in {"patched", "settled", "aborted"}
            /\ \E name \in {"PATCH", "FILL", "REPLACE", "CONFIRM", "ABORT"} :
                 /\ NamesOf(q)' = Append(NamesOf(q), name)
                 /\ PhaseOf(q)' = "patched" => name = "PATCH"
         \/ /\ PhaseOf(q) = "patched" /\ PhaseOf(q)' = "settled"
            /\ NamesOf(q)' = Append(NamesOf(q), "FILL")
<1> DEFINE P == [p \in Request |-> PhaseOf(p)]
           L == [p \in Request |-> NamesOf(p)]
<1>0. \A p \in Request : P[p] = PhaseOf(p) /\ L[p] = NamesOf(p)
                          /\ P'[p] = PhaseOf(p)' /\ L'[p] = NamesOf(p)'
  OBVIOUS
<1>1. CASE UNCHANGED Contract!vars
  <2>1. P' = P /\ L' = L
    BY <1>1 DEF Contract!vars
  <2> HIDE DEF P, L
  <2> QED
    BY <1>0, <2>1
<1>2. ASSUME NEW p \in Request, Contract!Open(p)
      PROVE  \/ PhaseOf(q)' = PhaseOf(q) /\ NamesOf(q)' = NamesOf(q)
             \/ PhaseOf(q) = "none" /\ PhaseOf(q)' = "open" /\ NamesOf(q)' = NamesOf(q)
  <2>1. P[p] = "none" /\ P' = [P EXCEPT ![p] = "open"] /\ L' = L
    BY <1>2 DEF Contract!Open
  <2>2. DOMAIN P = Request
    OBVIOUS
  <2> HIDE DEF P, L
  <2> QED
    BY <1>0, <2>1, <2>2
<1>3. ASSUME NEW p \in Request, Contract!Patch(p) \/ Contract!Settle(p) \/ Contract!Abort(p)
      PROVE  \/ p # q
             \/ /\ PhaseOf(p) = "open"
                /\ \E name \in {"PATCH", "FILL", "REPLACE", "CONFIRM", "ABORT"},
                      next \in {"patched", "settled", "aborted"} :
                     Contract!Emit(p, name, next) /\ (next = "patched" => name = "PATCH")
             \/ PhaseOf(p) = "patched" /\ Contract!Emit(p, "FILL", "settled")
  BY <1>0, <1>3 DEF Contract!Patch, Contract!Settle, Contract!Abort
<1>4. ASSUME NEW p \in Request, Contract!Patch(p) \/ Contract!Settle(p) \/ Contract!Abort(p)
      PROVE  \E name, next : Contract!Emit(p, name, next)
  BY <1>4 DEF Contract!Patch, Contract!Settle, Contract!Abort
<1>5. ~ Contract!Crash
  BY DEF Contract!Crash
<1> HIDE DEF P, L
<1> QED
  BY <1>1, <1>2, <1>3, <1>4, <1>5, EmitEffect DEF Contract!Next

\* Every request's log fits its place in the contract.
LEMMA SpecLogOfPhase == Spec => [](IInv /\ \A q \in Request : LogOfPhase(q))
<1> DEFINE Inv == IInv /\ \A q \in Request : LogOfPhase(q)
<1>1. Init => Inv
  <2> SUFFICES ASSUME Init
               PROVE  Inv
    OBVIOUS
  <2>1. \A q \in Request : PhaseOf(q) = "none" /\ NamesOf(q) = <<>>
    BY DEF Init, PhaseOf, Speculative, NamesOf
  <2> QED
    BY <2>1, InitIInv DEF LogOfPhase, Contract!SignalLog
<1>2. Inv /\ [Next]_vars => Inv'
  <2> SUFFICES ASSUME Inv, [Next]_vars, NEW q \in Request
               PROVE  LogOfPhase(q)'
    BY NextIInv
  <2>1. [Contract!Next]_(Contract!vars) /\ LogOfPhase(q)
    BY NextContract
  <2>2. CASE PhaseOf(q)' = PhaseOf(q) /\ NamesOf(q)' = NamesOf(q)
    BY <2>1, <2>2 DEF LogOfPhase
  <2>3. CASE PhaseOf(q) = "none" /\ PhaseOf(q)' = "open" /\ NamesOf(q)' = NamesOf(q)
    BY <2>1, <2>3 DEF LogOfPhase
  <2>4. ASSUME PhaseOf(q) = "open", PhaseOf(q)' \in {"patched", "settled", "aborted"},
               NEW name \in {"PATCH", "FILL", "REPLACE", "CONFIRM", "ABORT"},
               NamesOf(q)' = Append(NamesOf(q), name),
               PhaseOf(q)' = "patched" => name = "PATCH"
        PROVE  LogOfPhase(q)'
    <3>1. NamesOf(q)' = <<name>>
      BY <2>1, <2>4, AppendNames DEF LogOfPhase
    <3> QED
      BY <2>4, <3>1 DEF LogOfPhase, Contract!SignalLog
  <2>5. CASE PhaseOf(q) = "patched" /\ PhaseOf(q)' = "settled"
             /\ NamesOf(q)' = Append(NamesOf(q), "FILL")
    <3>1. NamesOf(q)' = <<"PATCH", "FILL">>
      BY <2>1, <2>5, AppendNames, Zenon DEF LogOfPhase
    <3> QED
      BY <2>5, <3>1 DEF LogOfPhase, Contract!SignalLog
  <2> QED
    BY <2>1, <2>2, <2>3, <2>4, <2>5, ContractStep
<1> QED
  BY <1>1, <1>2, PTL DEF Spec

\* What a client is sent for a read is one of CONFIRM, REPLACE, PATCH, FILL, PATCH
\* then FILL, and ABORT, or the beginning of one.
THEOREM SignalsAllowed == Spec => [](\A q \in Request : NamesOf(q) \in Contract!SignalLog)
<1>1. (\A q \in Request : LogOfPhase(q))
        => \A q \in Request : NamesOf(q) \in Contract!SignalLog
  BY DEF LogOfPhase
<1> QED
  BY <1>1, SpecLogOfPhase, PTL

\* Nothing is published for a read that has been closed, however late its tracks are:
\* ClosedIsFinal of the contract, request by request.
THEOREM ClosedForGood ==
  Spec => [][\A q \in Request : PhaseOf(q) \in Contract!ClosedPhase =>
               PhaseOf(q)' = PhaseOf(q) /\ NamesOf(q)' = NamesOf(q)]_vars
<1>1. IInv /\ [Next]_vars =>
        [\A q \in Request : PhaseOf(q) \in Contract!ClosedPhase =>
           PhaseOf(q)' = PhaseOf(q) /\ NamesOf(q)' = NamesOf(q)]_vars
  <2> SUFFICES ASSUME IInv, Next, NEW q \in Request,
                      PhaseOf(q) \in Contract!ClosedPhase
               PROVE  PhaseOf(q)' = PhaseOf(q) /\ NamesOf(q)' = NamesOf(q)
    OBVIOUS
  <2>1. PhaseOf(q) \notin {"none", "open", "patched"}
    BY DEF Contract!ClosedPhase
  <2> QED
    BY <2>1, NextContract, ContractStep
<1> QED
  BY <1>1, InitIInv, NextIInv, PTL DEF Spec

=============================================================================
