------------------------------ MODULE WriteTrack ------------------------------
(***************************************************************************)
(* The write path of Spec-Link (proxy/write_handler.go): a POST under      *)
(* /spec-write/ is forwarded to the upstream, answered 202 "provisional"   *)
(* under a per-resource lock, and confirmed by a Commit Track some 350 ms  *)
(* later.  The registry is consulted twice, before the upstream call and   *)
(* after it; only the second look takes the lock.                          *)
(*                                                                         *)
(* A panic in a Commit Track goroutine is not recovered and ends the       *)
(* process, the read path and the signal hub included.                     *)
(***************************************************************************)
EXTENDS Sequences, Integers

CONSTANTS
  Resource,     (* paths behind /spec-write/                                *)
  Write,        (* POST requests, each with its own Reconcile ID            *)
  Target,       (* the resource each write is for                           *)
  Independent,  (* the writes sent with X-Antic-Write-Mode: independent     *)
  NoWrite       (* no lock                                                  *)

ASSUME WriteAssumption ==
  /\ Target \in [Write -> Resource]
  /\ Independent \subseteq Write
  /\ NoWrite \notin Write

VARIABLES
  locks,      (* WriteLockRegistry: the ID of the write that holds the lock *)
  pc,         (* where each handler or Commit Track is                      *)
  executed,   (* writes the upstream has carried out                        *)
  response,   (* the X-Antic-State (or failure) each write was answered     *)
  lock,       (* what TryLock gave the write: its lock, or nil              *)
  published,  (* names of the signals published for each ID                 *)
  alive       (* the process has not panicked                               *)

vars == <<locks, pc, executed, response, lock, published, alive>>

\* idle        not received yet
\* forwarding  past the first look at the registry, upstream call under way
\* accepted    the upstream has answered with a provisional document
\* committing  202 sent, Commit Track sleeping
\* publishing  Commit Track has recorded the signal for replay
\* returning   signal published, the deferred Release is left
\* panicked    unwound by a panic; the runtime has yet to end the process
\* done        finished
Location == {"idle", "forwarding", "accepted", "committing", "publishing",
             "returning", "panicked", "done"}

Response == {"none", "provisional", "conflict", "refused", "bad_gateway"}

Init ==
  /\ locks = [r \in Resource |-> NoWrite]
  /\ pc = [w \in Write |-> "idle"]
  /\ executed = {}
  /\ response = [w \in Write |-> "none"]
  /\ lock = [w \in Write |-> FALSE]
  /\ published = [w \in Write |-> <<>>]
  /\ alive = TRUE

Step(w, from, to) ==
  /\ alive
  /\ pc[w] = from
  /\ pc' = [pc EXCEPT ![w] = to]

Answer(w, state) == response' = [response EXCEPT ![w] = state]

-----------------------------------------------------------------------------
(***************************************************************************)
(* WriteLockRegistry, each operation atomic under its mutex.               *)
(***************************************************************************)

InFlight(r) == locks[r] # NoWrite

\* TryLock takes a free lock and records that it did; a held one is left alone.
TryLock(w) ==
  IF InFlight(Target[w])
    THEN UNCHANGED <<locks, lock>>
    ELSE /\ locks' = [locks EXCEPT ![Target[w]] = w]
         /\ lock' = [lock EXCEPT ![w] = TRUE]

\* Mutant: the lock is never released.
ReleaseForgotten(r) == locks' = locks

\* Release does not ask who holds the lock.
ReleaseLock(r) == locks' = [locks EXCEPT ![r] = NoWrite]

-----------------------------------------------------------------------------
(***************************************************************************)
(* HandleWrite.                                                            *)
(***************************************************************************)

\* The first look: an exclusive write gives way to a write in flight.
RejectEarly(w) ==
  /\ Step(w, "idle", "done")
  /\ w \notin Independent
  /\ InFlight(Target[w])
  /\ Answer(w, "conflict")
  /\ UNCHANGED <<locks, executed, lock, published, alive>>

Forward(w) ==
  /\ Step(w, "idle", "forwarding")
  /\ w \in Independent \/ ~InFlight(Target[w])
  /\ UNCHANGED <<locks, executed, response, lock, published, alive>>

\* The upstream carries the write out and says so.
UpstreamAccepts(w) ==
  /\ Step(w, "forwarding", "accepted")
  /\ executed' = executed \cup {w}
  /\ UNCHANGED <<locks, response, lock, published, alive>>

\* The upstream refuses (a status of 400 or more): its answer is passed on.
UpstreamRefuses(w) ==
  /\ Step(w, "forwarding", "done")
  /\ Answer(w, "refused")
  /\ UNCHANGED <<locks, executed, lock, published, alive>>

\* No usable answer within the window, or one that is not JSON: 502, whether or
\* not the upstream carried the write out.
UpstreamFailure(w) ==
  /\ Step(w, "forwarding", "done")
  /\ executed' \in {executed, executed \cup {w}}
  /\ Answer(w, "bad_gateway")
  /\ UNCHANGED <<locks, lock, published, alive>>

\* Mutant: the outcome of TryLock is ignored.
AcceptAnyway(w) ==
  /\ Step(w, "accepted", "committing")
  /\ TryLock(w)
  /\ Answer(w, "provisional")
  /\ UNCHANGED <<executed, published, alive>>

\* The second look, and the lock with it.
AcceptProvisional(w) ==
  /\ Step(w, "accepted", "committing")
  /\ w \in Independent \/ ~InFlight(Target[w])
  /\ TryLock(w)
  /\ Answer(w, "provisional")
  /\ UNCHANGED <<executed, published, alive>>

RejectLate(w) ==
  /\ Step(w, "accepted", "done")
  /\ w \notin Independent
  /\ InFlight(Target[w])
  /\ Answer(w, "conflict")
  /\ UNCHANGED <<locks, executed, lock, published, alive>>

HandleWrite(w) ==
  \/ RejectEarly(w) \/ Forward(w)
  \/ UpstreamAccepts(w) \/ UpstreamRefuses(w) \/ UpstreamFailure(w)
  \/ AcceptProvisional(w) \/ RejectLate(w)

-----------------------------------------------------------------------------
(***************************************************************************)
(* runCommitTrack.                                                         *)
(***************************************************************************)

\* Mutant: the lock is released before the signal is published.
RecordAndRelease(w) ==
  /\ lock[w]
  /\ Step(w, "committing", "publishing")
  /\ ReleaseLock(Target[w])
  /\ UNCHANGED <<executed, response, lock, published, alive>>

\* lock.replayOnce.Do on the lock TryLock returned.
RecordReplay(w) ==
  /\ lock[w]
  /\ Step(w, "committing", "publishing")
  /\ UNCHANGED <<locks, executed, response, lock, published, alive>>

\* The same call on a nil lock panics: the deferred Release runs while the
\* goroutine unwinds, and every other goroutine runs on meanwhile.
PanicOnNilLock(w) ==
  /\ ~lock[w]
  /\ Step(w, "committing", "panicked")
  /\ ReleaseLock(Target[w])
  /\ UNCHANGED <<executed, response, lock, published, alive>>

\* No recover: once its deferred calls are through, the process ends.
EndOfProcess(w) ==
  /\ alive
  /\ pc[w] = "panicked"
  /\ alive' = FALSE
  /\ UNCHANGED <<locks, pc, executed, response, lock, published>>

\* Mutant: the signal is not sent.
ForgetConfirm(w) ==
  /\ Step(w, "publishing", "returning")
  /\ UNCHANGED <<locks, executed, response, lock, published, alive>>

\* Mutant: the signal is sent and the track stays where it was.
ConfirmAgain(w) ==
  /\ Step(w, "publishing", "publishing")
  /\ Len(published[w]) < 2
  /\ published' = [published EXCEPT ![w] = Append(@, "CONFIRM")]
  /\ UNCHANGED <<locks, executed, response, lock, alive>>

PublishConfirm(w) ==
  /\ Step(w, "publishing", "returning")
  /\ published' = [published EXCEPT ![w] = Append(@, "CONFIRM")]
  /\ UNCHANGED <<locks, executed, response, lock, alive>>

Release(w) ==
  /\ Step(w, "returning", "done")
  /\ ReleaseLock(Target[w])
  /\ UNCHANGED <<executed, response, lock, published, alive>>

runCommitTrack(w) ==
  \/ RecordReplay(w) \/ PublishConfirm(w) \/ Release(w)
  \/ PanicOnNilLock(w) \/ EndOfProcess(w)

-----------------------------------------------------------------------------
Next == \E w \in Write : HandleWrite(w) \/ runCommitTrack(w)

\* The upstream call ends within its timeout and the Commit Track sleeps for a
\* fixed time, and a panic ends the process; the arrival of a request is not
\* forced.
Handling(w) == pc[w] # "idle" /\ HandleWrite(w)

Spec ==
  /\ Init
  /\ [][Next]_vars
  /\ \A w \in Write : WF_vars(Handling(w) \/ runCommitTrack(w))

-----------------------------------------------------------------------------
(***************************************************************************)
(* Properties.                                                             *)
(***************************************************************************)

\* What each variable holds; a write is sent one signal at most.
TypeOK ==
  /\ locks \in [Resource -> Write \cup {NoWrite}]
  /\ pc \in [Write -> Location]
  /\ executed \subseteq Write
  /\ response \in [Write -> Response]
  /\ lock \in [Write -> BOOLEAN]
  /\ published \in [Write -> {<<>>, <<"CONFIRM">>}]
  /\ alive \in BOOLEAN

InCommitTrack(w) == pc[w] \in {"committing", "publishing", "returning"}

\* No Commit Track has panicked on this resource and deleted its entry.
Intact(r) == \A w \in Write : Target[w] = r => pc[w] # "panicked"

\* In every mix of write modes the registry names exactly the running Commit
\* Tracks that were given a lock, and an exclusive write never runs one without.
\* Release deletes whatever entry it finds; this is what keeps it from freeing
\* the lock of another write.  It stops short of the one Release that does: that
\* of a track that panics, from when it runs to the end of the process.
LockedByCommitTrack ==
  \A w \in Write :
    /\ Intact(Target[w]) =>
         (InCommitTrack(w) /\ lock[w] <=> locks[Target[w]] = w)
    /\ InCommitTrack(w) /\ w \notin Independent => lock[w]

\* A write the client was told is provisional and still awaits a signal for.
Unresolved(w) == response[w] = "provisional" /\ published[w] = <<>>

\* "Proxies must not silently accept a second write while one is in-flight":
\* of two exclusive writes to a resource, at most one is provisional at a time,
\* although both may have passed the first look at the registry.  Between the
\* Release of a track that panics and the end of the process the code does
\* accept a second one, and the promise is for the resources where none has.
OneUnresolvedPerResource ==
  \A v, w \in Write \ Independent :
    /\ Unresolved(v) /\ Unresolved(w)
    /\ Target[v] = Target[w] /\ Intact(Target[w])
    => v = w

\* No resource stays locked while the process lives: a client that got a 409 may
\* succeed later.
LocksAreReleased ==
  \A w \in Write : locks[Target[w]] = w ~> locks[Target[w]] # w \/ ~alive

(***************************************************************************)
(* The write path keeps the promise of SignalContract.                     *)
(***************************************************************************)

PhaseOf(w) ==
  CASE response[w] # "provisional" -> "none"
    [] Unresolved(w)               -> "open"
    [] OTHER                       -> "settled"

Contract == INSTANCE SignalContract WITH
  Id    <- Write,
  phase <- [w \in Write |-> PhaseOf(w)],
  log   <- published

\* Every provisional write is followed by exactly one signal, unless the process
\* ends first, and a write that was rejected by none.
KeepsContract == Contract!Spec

(***************************************************************************)
(* What the protocol document says of writes and the code does not do.     *)
(***************************************************************************)

\* A write that was rejected as a conflict was not carried out.
ConflictNotExecuted ==
  \A w \in Write : response[w] = "conflict" => w \notin executed

\* "Each resolves independently via its own CONFIRM or ABORT."
IndependentWritesResolve ==
  \A w \in Independent : Unresolved(w) ~> ~Unresolved(w)

=============================================================================
