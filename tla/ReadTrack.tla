------------------------------ MODULE ReadTrack ------------------------------
(***************************************************************************)
(* The read path of Spec-Link (proxy/handler.go, vault/, fields/): a GET   *)
(* under the spec prefix is answered from the vault when the vault is hot, *)
(* and a Formal Track then fetches the authoritative document, stores it   *)
(* and publishes the signals that bring the client's copy in line with it. *)
(* Any number of requests run these steps concurrently over one vault.     *)
(*                                                                         *)
(* A Reconcile ID is fresh random data for every request, so the request   *)
(* stands for it.  Time is only what the code makes of it: a vault entry   *)
(* is either within max_staleness_ms or stale, or gone if its driver lets  *)
(* it expire, and an upstream call may fail at any time, its timeout being *)
(* one of the ways.  A Get or Set of the vault is one step here; what      *)
(* becomes of that with the Redis driver is the subject of StateVault.     *)
(***************************************************************************)
EXTENDS Reconciliation, Sequences

CONSTANTS
  Resource,     (* vault keys: resource, id and query string                *)
  Request,      (* GET requests, each with its own Reconcile ID             *)
  Target,       (* the resource each request asks for                       *)
  UpstreamDocs, (* documents the upstream may hold                          *)
  MaxChanges,   (* bound: how often the upstream's documents change         *)
  NoDoc         (* no document: a missing vault entry, snapshot or body     *)

ASSUME RequestAssumption == Target \in [Request -> Resource]

ASSUME DocAssumption ==
  /\ UpstreamDocs \subseteq Doc
  /\ NoDoc \notin Doc

ASSUME BoundAssumption == MaxChanges \in Nat

VARIABLES
  upstream,   (* the authoritative document of each resource               *)
  changes,    (* how often the upstream has changed (bounds the model)     *)
  vault,      (* the vault's document for each resource, or NoDoc          *)
  stale,      (* resources whose entry is older than max_staleness_ms      *)
  snapshots,  (* SnapshotStore: the captured document of each ID, or NoDoc *)
  pc,         (* where each request's handler or Formal Track is           *)
  body,       (* the document the HTTP response of each request carried    *)
  fresh,      (* the document each request's upstream call returned        *)
  published,  (* signals published to the hub for each ID, in order        *)
  view        (* history: the body with those signals applied              *)

vars == <<upstream, changes, vault, stale, snapshots, pc, body, fresh,
          published, view>>

\* idle        not received yet
\* confirming  serveConfirmed is waiting for the upstream
\* storing     serveConfirmed has its answer
\* formal      speculative body sent, Formal Track waiting for the upstream
\* answered    Formal Track has its answer
\* violated    ABORT published for an INVARIANT, the vault not updated yet
\* stored      vault updated, no signal published yet
\* patched     PATCH published, FILL to follow
\* returning   nothing left but the deferred Release
\* done        finished
Location == {"idle", "confirming", "storing", "formal", "answered", "violated",
             "stored", "patched", "returning", "done"}

Hot(r) == vault[r] # NoDoc /\ r \notin stale

Goto(q, l) == pc' = [pc EXCEPT ![q] = l]

\* At start the memory vault is empty but for resources primed from the upstream.
SeededVault ==
  \E seeded \in SUBSET Resource :
    vault = [r \in Resource |-> IF r \in seeded THEN upstream[r] ELSE NoDoc]

Init ==
  /\ upstream \in [Resource -> UpstreamDocs]
  /\ changes = 0
  /\ SeededVault
  /\ stale = {}
  /\ snapshots = [q \in Request |-> NoDoc]
  /\ pc = [q \in Request |-> "idle"]
  /\ body = [q \in Request |-> NoDoc]
  /\ fresh = [q \in Request |-> NoDoc]
  /\ published = [q \in Request |-> <<>>]
  /\ view = [q \in Request |-> NoDoc]

-----------------------------------------------------------------------------
(***************************************************************************)
(* The environment: the upstream's data change, vault entries age and,     *)
(* with the Redis driver, expire.                                          *)
(***************************************************************************)

UpstreamChange(r) ==
  /\ changes < MaxChanges
  /\ \E d \in UpstreamDocs \ {upstream[r]} :
       upstream' = [upstream EXCEPT ![r] = d]
  /\ changes' = changes + 1
  /\ UNCHANGED <<vault, stale, snapshots, pc, body, fresh, published, view>>

Age(r) ==
  /\ Hot(r)
  /\ stale' = stale \cup {r}
  /\ UNCHANGED <<upstream, changes, vault, snapshots, pc, body, fresh,
                 published, view>>

Evict(r) ==
  /\ vault[r] # NoDoc
  /\ vault' = [vault EXCEPT ![r] = NoDoc]
  /\ UNCHANGED <<upstream, changes, stale, snapshots, pc, body, fresh,
                 published, view>>

-----------------------------------------------------------------------------
(***************************************************************************)
(* HandleSpec: one read of the vault decides how a request is answered.    *)
(***************************************************************************)

\* Cold miss or stale entry.
ServeCold(q) ==
  /\ pc[q] = "idle"
  /\ ~Hot(Target[q])
  /\ Goto(q, "confirming")
  /\ UNCHANGED <<upstream, changes, vault, stale, snapshots, body, fresh,
                 published, view>>

\* Hot, but the request carries no client id, so signals could not be routed.  The
\* snapshot is already captured.
ServeAnonymous(q) ==
  /\ pc[q] = "idle"
  /\ Hot(Target[q])
  /\ snapshots' = [snapshots EXCEPT ![q] = vault[Target[q]]]
  /\ Goto(q, "confirming")
  /\ UNCHANGED <<upstream, changes, vault, stale, body, fresh, published, view>>

\* Hot: the speculative body goes out, then the Formal Track is launched.
ServeSpeculative(q) ==
  /\ pc[q] = "idle"
  /\ Hot(Target[q])
  /\ snapshots' = [snapshots EXCEPT ![q] = vault[Target[q]]]
  /\ body' = [body EXCEPT ![q] = Payload(vault[Target[q]])]
  /\ view' = [view EXCEPT ![q] = Payload(vault[Target[q]])]
  /\ Goto(q, "formal")
  /\ UNCHANGED <<upstream, changes, vault, stale, fresh, published>>

HandleSpec(q) == ServeCold(q) \/ ServeAnonymous(q) \/ ServeSpeculative(q)

-----------------------------------------------------------------------------
(***************************************************************************)
(* vault.Set: a write makes the entry fresh again, whatever it held.       *)
(***************************************************************************)

\* Mutant: an entry that exists is kept.
VaultSetIfAbsent(r, d) ==
  /\ vault' = [vault EXCEPT ![r] = IF @ = NoDoc THEN d ELSE @]
  /\ stale' = stale \ {r}

VaultSet(r, d) ==
  /\ vault' = [vault EXCEPT ![r] = d]
  /\ stale' = stale \ {r}

-----------------------------------------------------------------------------
(***************************************************************************)
(* serveConfirmed.                                                         *)
(***************************************************************************)

ConfirmedAnswer(q) ==
  /\ pc[q] = "confirming"
  /\ fresh' = [fresh EXCEPT ![q] = upstream[Target[q]]]
  /\ Goto(q, "storing")
  /\ UNCHANGED <<upstream, changes, vault, stale, snapshots, body, published,
                 view>>

\* The upstream is unreachable, does not answer 200, or answers something that
\* is not a JSON object: the client gets an error or the answer as it is, and
\* the vault is left alone.
ConfirmedUnstored(q) ==
  /\ pc[q] = "confirming"
  /\ Goto(q, "done")
  /\ UNCHANGED <<upstream, changes, vault, stale, snapshots, body, fresh,
                 published, view>>

StoreConfirmed(q) ==
  /\ pc[q] = "storing"
  /\ VaultSet(Target[q], fresh[q])
  /\ body' = [body EXCEPT ![q] = fresh[q]]
  /\ Goto(q, "done")
  /\ UNCHANGED <<upstream, changes, snapshots, fresh, published, view>>

serveConfirmed(q) ==
  ConfirmedAnswer(q) \/ ConfirmedUnstored(q) \/ StoreConfirmed(q)

-----------------------------------------------------------------------------
(***************************************************************************)
(* runFormalTrack.                                                         *)
(***************************************************************************)

\* The diff baseline: the snapshot captured when the request was served.
\* Mutant: the vault as it is now.
LiveBaseline(q) ==
  IF vault[Target[q]] = NoDoc THEN snapshots[q] ELSE vault[Target[q]]

Baseline(q) == snapshots[q]

\* A signal goes to the hub and, applied in that order, to the client's copy.
Publish(q, sig) ==
  /\ published' = [published EXCEPT ![q] = Append(@, sig)]
  /\ view' = [view EXCEPT ![q] = Apply(@, sig)]

UpstreamAnswer(q) ==
  /\ pc[q] = "formal"
  /\ fresh' = [fresh EXCEPT ![q] = upstream[Target[q]]]
  /\ Goto(q, "answered")
  /\ UNCHANGED <<upstream, changes, vault, stale, snapshots, body, published,
                 view>>

\* No usable answer: no connection, timeout, a status other than 200, a body
\* that cannot be read or is not a JSON object.
UpstreamFailure(q) ==
  /\ pc[q] = "formal"
  /\ \E why \in FailureReason : Publish(q, AbortSignal(why))
  /\ Goto(q, "returning")
  /\ UNCHANGED <<upstream, changes, vault, stale, snapshots, body, fresh>>

\* An INVARIANT differs: the ABORT goes out first ...
AbortViolation(q) ==
  /\ pc[q] = "answered"
  /\ InvariantViolated(Baseline(q), fresh[q])
  /\ Publish(q, AbortSignal("invariant_violation"))
  /\ Goto(q, "violated")
  /\ UNCHANGED <<upstream, changes, vault, stale, snapshots, body, fresh>>

\* ... and the authoritative document is stored all the same.
StoreViolating(q) ==
  /\ pc[q] = "violated"
  /\ VaultSet(Target[q], fresh[q])
  /\ Goto(q, "returning")
  /\ UNCHANGED <<upstream, changes, snapshots, body, fresh, published, view>>

StoreFresh(q) ==
  /\ pc[q] = "answered"
  /\ ~InvariantViolated(Baseline(q), fresh[q])
  /\ VaultSet(Target[q], fresh[q])
  /\ Goto(q, "stored")
  /\ UNCHANGED <<upstream, changes, snapshots, body, fresh, published, view>>

PublishReplace(q) ==
  /\ pc[q] = "stored"
  /\ ReplaceDue(Baseline(q), fresh[q])
  /\ Publish(q, DataSignal("REPLACE", fresh[q]))
  /\ Goto(q, "returning")
  /\ UNCHANGED <<upstream, changes, vault, stale, snapshots, body, fresh>>

Unpatched(q) ==
  /\ pc[q] = "stored"
  /\ ~ReplaceDue(Baseline(q), fresh[q])

HasPatch(q) == ChangedSpeculative(Baseline(q), fresh[q]) # {}

\* Mutant: a deferred field that has not changed is not worth a FILL.
HasFillIfChanged(q) ==
  \E f \in DeferredFields(Baseline(q)) \cap DOMAIN fresh[q] :
    fresh[q][f] # Baseline(q)[f]

HasFill(q) == DeferredFields(Baseline(q)) \cap DOMAIN fresh[q] # {}

PublishPatch(q) ==
  /\ Unpatched(q)
  /\ HasPatch(q)
  /\ Publish(q, DataSignal("PATCH", PatchOps(Baseline(q), fresh[q])))
  /\ Goto(q, IF HasFill(q) THEN "patched" ELSE "returning")
  /\ UNCHANGED <<upstream, changes, vault, stale, snapshots, body, fresh>>

PublishFill(q) ==
  /\ pc[q] = "patched" \/ (Unpatched(q) /\ ~HasPatch(q) /\ HasFill(q))
  /\ Publish(q, DataSignal("FILL", DeferredValues(Baseline(q), fresh[q])))
  /\ Goto(q, "returning")
  /\ UNCHANGED <<upstream, changes, vault, stale, snapshots, body, fresh>>

\* Mutant: silence when nothing has changed.
StaySilent(q) ==
  /\ Unpatched(q) /\ ~HasPatch(q) /\ ~HasFill(q)
  /\ Goto(q, "returning")
  /\ UNCHANGED <<upstream, changes, vault, stale, snapshots, body, fresh,
                 published, view>>

PublishConfirm(q) ==
  /\ Unpatched(q) /\ ~HasPatch(q) /\ ~HasFill(q)
  /\ Publish(q, ConfirmSignal)
  /\ Goto(q, "returning")
  /\ UNCHANGED <<upstream, changes, vault, stale, snapshots, body, fresh>>

\* The deferred calls of the goroutine.
Release(q) ==
  /\ pc[q] = "returning"
  /\ snapshots' = [snapshots EXCEPT ![q] = NoDoc]
  /\ Goto(q, "done")
  /\ UNCHANGED <<upstream, changes, vault, stale, body, fresh, published, view>>

runFormalTrack(q) ==
  \/ UpstreamAnswer(q) \/ UpstreamFailure(q)
  \/ AbortViolation(q) \/ StoreViolating(q) \/ StoreFresh(q)
  \/ PublishReplace(q) \/ PublishPatch(q) \/ PublishFill(q) \/ PublishConfirm(q)
  \/ Release(q)

-----------------------------------------------------------------------------
Environment == \E r \in Resource : UpstreamChange(r) \/ Age(r) \/ Evict(r)

Next ==
  \/ Environment
  \/ \E q \in Request : HandleSpec(q) \/ serveConfirmed(q) \/ runFormalTrack(q)

\* A handler or goroutine that can take a step eventually takes one: its calls
\* to the upstream carry a timeout, everything else does not block.  Requests,
\* changes of the upstream and the age of an entry are not forced.
Spec ==
  /\ Init
  /\ [][Next]_vars
  /\ \A q \in Request : WF_vars(serveConfirmed(q) \/ runFormalTrack(q))

-----------------------------------------------------------------------------
(***************************************************************************)
(* Properties.                                                             *)
(***************************************************************************)

DocOrNone == Doc \cup {NoDoc}

\* What each variable holds: a request has a document or none, the vault has one
\* or none for each resource, and every published signal is well-formed.
TypeOK ==
  /\ upstream \in [Resource -> UpstreamDocs]
  /\ changes \in Nat
  /\ vault \in [Resource -> DocOrNone]
  /\ stale \subseteq Resource
  /\ snapshots \in [Request -> DocOrNone]
  /\ pc \in [Request -> Location]
  /\ body \in [Request -> DocOrNone]
  /\ fresh \in [Request -> DocOrNone]
  /\ published \in [Request -> Seq(Signal)]
  /\ view \in [Request -> DocOrNone]

Speculative(q) == view[q] # NoDoc

Published(q, name) ==
  \E i \in DOMAIN published[q] : published[q][i].signal = name

Aborted(q) == Published(q, "ABORT")

\* The Formal Track of q has published all it will ever publish.
Reconciled(q) == Speculative(q) /\ pc[q] \in {"violated", "returning", "done"}

\* "Each request receives a correct per-request reconciliation regardless of
\* interleaving": a client that applies the signals of a track that did not
\* abort ends up with exactly the document that track fetched, however the
\* vault was rewritten by other requests in between.
ReconciledToFresh ==
  \A q \in Request : Reconciled(q) /\ ~Aborted(q) => view[q] = fresh[q]

\* At no time, PATCH applied and FILL outstanding included, does the client hold
\* a value from the vault for a DEFERRED or PROVISIONAL field: it holds null or
\* what this request's own Formal Track fetched.
DeferredNeverSpeculated ==
  \A q \in Request : Speculative(q) =>
    \A f \in DeferredFields(view[q]) :
      \/ view[q][f] = Null
      \/ fresh[q] # NoDoc /\ view[q][f] = At(fresh[q], f)

\* A speculative INVARIANT value is never revised by a signal: a client that was
\* shown one is told of a different value only by the ABORT.  Holds although a
\* REPLACE overwrites every field, because the violation check comes first.
InvariantNeverRevised ==
  \A q \in Request : Speculative(q) =>
    \A f \in InvariantFields(body[q]) : At(view[q], f) = body[q][f]

\* patchOp.Value is marshalled with omitempty, so a null in a PATCH would reach
\* the client as an op without a value.  No PATCH carries one: a value that turns
\* into null changes its type, and that makes the signal a REPLACE.
PatchNeverNull ==
  \A q \in Request : \A i \in DOMAIN published[q] :
    published[q][i].signal = "PATCH" =>
      \A f \in DOMAIN published[q][i].data : published[q][i].data[f] # Null

\* The resolver takes a PATCH to be final exactly if the response's header named no
\* deferred fields.  Rightly so: the header, written from the vault's document, and
\* the signals, chosen from the snapshot and the fresh document, agree about
\* whether a FILL is due.  A REPLACE makes both void.
FillIsAnnounced ==
  \A q \in Request : Reconciled(q) /\ ~Aborted(q) =>
    \/ Published(q, "REPLACE")
    \/ Published(q, "FILL") <=> DeferredFields(body[q]) # {}

\* Every answer a track got reaches the vault, the one that violates an
\* INVARIANT included, and makes the entry hot: the next request is not served
\* the refuted document from the same entry.
AnswerReachesVault ==
  \A q \in Request :
    pc[q] \in {"storing", "answered"} ~>
      vault[Target[q]] = fresh[q] /\ Hot(Target[q])

(***************************************************************************)
(* The read path keeps the promise of SignalContract for every request.    *)
(***************************************************************************)

PhaseOf(q) ==
  IF ~Speculative(q) THEN "none"
  ELSE IF published[q] = <<>> THEN "open"
  ELSE IF pc[q] = "patched" THEN "patched"
  ELSE IF Aborted(q) THEN "aborted"
  ELSE "settled"

NamesOf(q) == [i \in DOMAIN published[q] |-> published[q][i].signal]

Contract == INSTANCE SignalContract WITH
  Id    <- Request,
  phase <- [q \in Request |-> PhaseOf(q)],
  log   <- [q \in Request |-> NamesOf(q)],
  alive <- TRUE

\* Every speculative response is followed by exactly one closing sequence of
\* signals and every confirmed response by none, whatever the upstream does.
KeepsContract == Contract!Spec

=============================================================================
