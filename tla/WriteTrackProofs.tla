--------------------------- MODULE WriteTrackProofs ---------------------------
(***************************************************************************)
(* Theorems about WriteTrack for any set of writes, resources and write    *)
(* modes.                                                                  *)
(***************************************************************************)
EXTENDS WriteTrack, TLAPS

\* A Commit Track that was given a lock.
Holding(w) == InCommitTrack(w) /\ lock[w]

\* What the location of a write says about its lock, answer and signals.
Stage(w) ==
  /\ pc[w] \in {"idle", "forwarding", "accepted"} =>
       ~lock[w] /\ response[w] = "none" /\ published[w] = <<>>
  /\ pc[w] \in {"committing", "publishing"} =>
       response[w] = "provisional" /\ published[w] = <<>>
  /\ pc[w] = "returning" =>
       response[w] = "provisional" /\ published[w] = <<"CONFIRM">>
  /\ pc[w] \in {"publishing", "returning"} => lock[w]
  /\ InCommitTrack(w) /\ w \notin Independent => lock[w]
  /\ pc[w] = "panicked" =>
       /\ response[w] = "provisional" /\ published[w] = <<>>
       /\ ~lock[w] /\ w \in Independent
  /\ pc[w] = "done" => ~Unresolved(w)

IInv == TypeOK /\ LockedByCommitTrack /\ \A w \in Write : Stage(w)

-----------------------------------------------------------------------------
\* At the start nothing is locked.
LEMMA InitIInv == Init => IInv
<1> SUFFICES ASSUME Init
             PROVE  IInv
  OBVIOUS
<1>1. TypeOK
  BY DEF Init, TypeOK, Location, Response
<1>2. LockedByCommitTrack
  BY WriteAssumption DEF Init, LockedByCommitTrack, InCommitTrack
<1>3. \A w \in Write : Stage(w)
  BY DEF Init, Stage, InCommitTrack, Unresolved
<1> QED
  BY <1>1, <1>2, <1>3 DEF IInv

\* Every step keeps the types; only the length of a signal log needs IInv.
LEMMA HandlerType ==
  ASSUME IInv, NEW w \in Write, HandleWrite(w)
  PROVE  TypeOK'
<1> USE WriteAssumption
    DEF IInv, TypeOK, Step, Answer, Location, Response
<1>1. CASE RejectEarly(w)
  BY <1>1 DEF RejectEarly
<1>2. CASE Forward(w) \/ RejectLate(w)
  BY <1>2 DEF Forward, RejectLate
<1>3. CASE UpstreamAccepts(w) \/ UpstreamRefuses(w)
  BY <1>3 DEF UpstreamAccepts, UpstreamRefuses
<1>4. CASE UpstreamFailure(w)
  BY <1>4 DEF UpstreamFailure
<1>5. CASE AcceptProvisional(w)
  <2>1. TryLock(w)
    BY <1>5 DEF AcceptProvisional
  <2>2. /\ locks' \in [Resource -> Write \cup {NoWrite}]
        /\ lock' \in [Write -> BOOLEAN]
    <3>1. CASE InFlight(Target[w])
      BY <2>1, <3>1 DEF TryLock
    <3>2. CASE ~InFlight(Target[w])
      <4>1. /\ locks' = [locks EXCEPT ![Target[w]] = w]
            /\ lock' = [lock EXCEPT ![w] = TRUE]
        BY <2>1, <3>2 DEF TryLock
      <4> QED
        BY <4>1
    <3> QED
      BY <3>1, <3>2
  <2> QED
    BY <1>5, <2>2 DEF AcceptProvisional
<1> QED
  BY <1>1, <1>2, <1>3, <1>4, <1>5 DEF HandleWrite

\* The same for the Commit Track.
LEMMA CommitType ==
  ASSUME IInv, NEW w \in Write, runCommitTrack(w)
  PROVE  TypeOK'
<1> USE WriteAssumption DEF IInv, TypeOK, Step, ReleaseLock, Location
<1>1. CASE RecordReplay(w)
  BY <1>1 DEF RecordReplay
<1>2. CASE PanicOnNilLock(w) \/ EndOfProcess(w)
  BY <1>2 DEF PanicOnNilLock, EndOfProcess
<1>3. CASE PublishConfirm(w)
  <2>1. published[w] = <<>>
    BY <1>3 DEF PublishConfirm, Stage
  <2>2. Append(published[w], "CONFIRM") = <<"CONFIRM">>
    BY <2>1
  <2>3. published' \in [Write -> {<<>>, <<"CONFIRM">>}]
    BY <1>3, <2>2 DEF PublishConfirm
  <2> QED
    BY <1>3, <2>3 DEF PublishConfirm
<1>4. CASE Release(w)
  BY <1>4 DEF Release
<1> QED
  BY <1>1, <1>2, <1>3, <1>4 DEF runCommitTrack

-----------------------------------------------------------------------------
\* A step of one write leaves the record of every other write alone.
LEMMA OthersUntouched ==
  ASSUME TypeOK, NEW w \in Write, HandleWrite(w) \/ runCommitTrack(w),
         NEW u \in Write, u # w
  PROVE  /\ pc'[u] = pc[u] /\ response'[u] = response[u]
         /\ lock'[u] = lock[u] /\ published'[u] = published[u]
<1> USE DEF TypeOK, Step, Answer
<1>1. CASE HandleWrite(w)
  BY <1>1 DEF HandleWrite, RejectEarly, Forward, UpstreamAccepts, UpstreamRefuses,
     UpstreamFailure, AcceptProvisional, RejectLate, TryLock
<1>2. CASE runCommitTrack(w)
  BY <1>2 DEF runCommitTrack, RecordReplay, PanicOnNilLock, EndOfProcess,
     PublishConfirm, Release
<1> QED
  BY <1>1, <1>2

\* A step that leaves the record of a write alone keeps its stage.
LEMMA SameStage ==
  ASSUME NEW u, Stage(u),
         /\ pc'[u] = pc[u] /\ response'[u] = response[u]
         /\ lock'[u] = lock[u] /\ published'[u] = published[u]
  PROVE  Stage(u)' /\ (Holding(u)' <=> Holding(u))
         /\ (InCommitTrack(u)' <=> InCommitTrack(u))
BY DEF Stage, InCommitTrack, Holding, Unresolved

\* The three steps that move a lock, and the rest.
Locking(w) == AcceptProvisional(w) /\ ~InFlight(Target[w])

Unlocking(w) == Release(w) \/ PanicOnNilLock(w)

\* The write that acts is where its location says.
LEMMA OwnStage ==
  ASSUME IInv, NEW w \in Write, HandleWrite(w) \/ runCommitTrack(w)
  PROVE  Stage(w)'
<1> USE DEF IInv, TypeOK, Stage, InCommitTrack, Unresolved, Step, Answer
<1>1. CASE RejectEarly(w) \/ Forward(w) \/ UpstreamAccepts(w)
  BY <1>1 DEF RejectEarly, Forward, UpstreamAccepts
<1>2. CASE UpstreamRefuses(w) \/ UpstreamFailure(w) \/ RejectLate(w)
  BY <1>2 DEF UpstreamRefuses, UpstreamFailure, RejectLate
<1>3. CASE AcceptProvisional(w)
  BY <1>3 DEF AcceptProvisional, TryLock
<1>4. CASE RecordReplay(w) \/ PanicOnNilLock(w) \/ EndOfProcess(w)
  BY <1>4 DEF RecordReplay, PanicOnNilLock, EndOfProcess
<1>5. CASE PublishConfirm(w)
  <2>1. pc[w] = "publishing" /\ published[w] = <<>> /\ lock[w] /\ response[w] = "provisional"
    BY <1>5 DEF PublishConfirm
  <2>2. published'[w] = Append(<<>>, "CONFIRM")
    BY <1>5, <2>1 DEF PublishConfirm
  <2>3. published'[w] = <<"CONFIRM">>
    BY <2>2
  <2>4. pc'[w] = "returning" /\ lock' = lock /\ response' = response
    BY <1>5 DEF PublishConfirm
  <2> QED
    BY <2>1, <2>3, <2>4
<1>6. CASE Release(w)
  <2>1. pc[w] = "returning" /\ published[w] = <<"CONFIRM">>
    BY <1>6 DEF Release
  <2>2. published'[w] = <<"CONFIRM">> /\ pc'[w] = "done"
    BY <1>6, <2>1 DEF Release
  <2>3. <<"CONFIRM">> # <<>>
    OBVIOUS
  <2> QED
    BY <2>2, <2>3
<1> QED
  BY <1>1, <1>2, <1>3, <1>4, <1>5, <1>6 DEF HandleWrite, runCommitTrack

\* A goroutine that has panicked stays so.
LEMMA IntactBefore ==
  ASSUME TypeOK, NEW w \in Write, HandleWrite(w) \/ runCommitTrack(w), NEW rsc
  PROVE  Intact(rsc)' => Intact(rsc)
<1>1. \A u \in Write : pc[u] = "panicked" => pc'[u] = "panicked"
  <2>1. pc[w] = "panicked" => pc'[w] = "panicked"
    BY DEF TypeOK, Step, HandleWrite, runCommitTrack, RejectEarly, Forward,
       UpstreamAccepts, UpstreamRefuses, UpstreamFailure, AcceptProvisional,
       RejectLate, RecordReplay, PanicOnNilLock, EndOfProcess, PublishConfirm, Release
  <2> QED
    BY <2>1, OthersUntouched
<1> QED
  BY <1>1 DEF Intact

\* A step changes who holds a lock only together with the registry, a panic
\* apart, which leaves its resource for good.
LEMMA LockStep ==
  ASSUME IInv, NEW w \in Write, HandleWrite(w) \/ runCommitTrack(w)
  PROVE  LockedByCommitTrack'
<1>1. \A u \in Write : u # w => (Holding(u)' <=> Holding(u))
  BY OthersUntouched, SameStage DEF IInv
<1>2. /\ \A u \in Write : Intact(Target[u])' =>
           Intact(Target[u]) /\ (Holding(u) <=> locks[Target[u]] = u)
      /\ \A u \in Write : Target[u] \in Resource
      /\ locks \in [Resource -> Write \cup {NoWrite}] /\ NoWrite \notin Write
  BY WriteAssumption, IntactBefore DEF IInv, TypeOK, LockedByCommitTrack, Holding
<1>3. \A u \in Write : InCommitTrack(u)' /\ u \notin Independent => lock'[u]
  <2>1. \A u \in Write : Stage(u)'
    BY OwnStage, OthersUntouched, SameStage DEF IInv
  <2> QED
    BY <2>1 DEF Stage
<1>4. SUFFICES ASSUME NEW u \in Write, Intact(Target[u])'
               PROVE  Holding(u)' <=> locks'[Target[u]] = u
  BY <1>3 DEF LockedByCommitTrack, Holding
<1>5. Holding(u) <=> locks[Target[u]] = u
  BY <1>2, <1>4
<1>6. CASE Locking(w)
  <2>1. locks' = [locks EXCEPT ![Target[w]] = w] /\ locks[Target[w]] = NoWrite
        /\ Holding(w)'
    BY <1>6 DEF Locking, AcceptProvisional, TryLock, InFlight, Step, Holding,
       InCommitTrack, IInv, TypeOK
  <2> QED
    BY <1>1, <1>2, <1>5, <2>1
<1>7. CASE Release(w)
  <2>1. locks' = [locks EXCEPT ![Target[w]] = NoWrite] /\ ~Holding(w)' /\ Holding(w)
    BY <1>7
       DEF Release, ReleaseLock, Step, Holding, InCommitTrack, IInv, TypeOK,
           Stage
  <2>2. Target[u] = Target[w] => locks[Target[u]] = w
    BY <1>2, <1>4, <2>1
  <2> QED
    BY <1>1, <1>2, <1>5, <2>1, <2>2
<1>8. CASE PanicOnNilLock(w)
  <2>1. pc'[w] = "panicked" /\ locks' = [locks EXCEPT ![Target[w]] = NoWrite]
    BY <1>8 DEF PanicOnNilLock, ReleaseLock, Step, IInv, TypeOK
  <2>2. Target[u] # Target[w]
    BY <1>4, <2>1 DEF Intact
  <2> QED
    BY <1>1, <1>2, <1>5, <2>1, <2>2
<1>9. CASE ~Locking(w) /\ ~Unlocking(w)
  <2>1. locks' = locks /\ (Holding(w)' <=> Holding(w))
    BY <1>9 DEF Locking, Unlocking, IInv, TypeOK, Stage, Holding, InCommitTrack,
       Step, HandleWrite, runCommitTrack, RejectEarly, Forward, UpstreamAccepts,
       UpstreamRefuses, UpstreamFailure, AcceptProvisional, TryLock, RejectLate,
       RecordReplay, EndOfProcess, PublishConfirm
  <2> QED
    BY <1>1, <1>5, <2>1
<1> QED
  BY <1>6, <1>7, <1>8, <1>9 DEF Unlocking

\* IInv is inductive.
LEMMA NextIInv == IInv /\ [Next]_vars => IInv'
<1> SUFFICES ASSUME IInv, [Next]_vars
             PROVE  IInv'
  OBVIOUS
<1>1. ASSUME NEW w \in Write, HandleWrite(w) \/ runCommitTrack(w)
      PROVE  IInv'
  <2>1. TypeOK'
    BY <1>1, HandlerType, CommitType
  <2>2. LockedByCommitTrack'
    BY <1>1, LockStep
  <2>3. \A u \in Write : Stage(u)'
    BY <1>1, OwnStage, OthersUntouched, SameStage DEF IInv
  <2> QED
    BY <2>1, <2>2, <2>3 DEF IInv
<1>2. CASE UNCHANGED vars
  BY <1>2 DEF vars, IInv, TypeOK, LockedByCommitTrack, Intact, Stage,
     InCommitTrack, Unresolved
<1> QED
  BY <1>1, <1>2 DEF Next

\* IInv always holds.
LEMMA SpecIInv == Spec => []IInv
BY InitIInv, NextIInv, PTL DEF Spec

\* The variables of the write path hold what their declarations say; no write is
\* ever sent more than one signal.
THEOREM TypeCorrect == Spec => []TypeOK
<1>1. IInv => TypeOK
  BY DEF IInv
<1> QED
  BY <1>1, SpecIInv, PTL

\* Release, which deletes whatever entry it finds, never frees the lock of
\* another write, on any resource on which no Commit Track has panicked.
THEOREM LocksCorrect == Spec => []LockedByCommitTrack
<1>1. IInv => LockedByCommitTrack
  BY DEF IInv
<1> QED
  BY <1>1, SpecIInv, PTL

\* However many exclusive writes pass the first look at the registry together,
\* at most one per resource is provisional and unresolved at a time, on any
\* resource on which no Commit Track has panicked.
THEOREM ExclusionCorrect == Spec => []OneUnresolvedPerResource
<1>1. ASSUME IInv PROVE OneUnresolvedPerResource
  <2>1. ASSUME NEW w \in Write \ Independent, Unresolved(w)
        PROVE  Holding(w)
    <3>1. /\ Stage(w) /\ pc[w] \in Location /\ w \notin Independent
          /\ response[w] = "provisional" /\ published[w] # <<"CONFIRM">>
      BY <1>1, <2>1 DEF IInv, TypeOK, Unresolved
    <3>2. pc[w] \in {"committing", "publishing"}
      BY <2>1, <3>1 DEF Location, Stage
    <3> QED
      BY <3>1, <3>2 DEF Stage, Holding, InCommitTrack
  <2> QED
    BY <1>1, <2>1 DEF IInv, LockedByCommitTrack, Holding, OneUnresolvedPerResource
<1> QED
  BY <1>1, SpecIInv, PTL

-----------------------------------------------------------------------------
(***************************************************************************)
(* The write path implements SignalContract: the 202 opens an ID, the      *)
(* CONFIRM closes it, nothing else is a step of the contract.              *)
(***************************************************************************)

\* What a step does to the contract's view of the write that takes it.
LEMMA OwnPhase ==
  ASSUME IInv, NEW w \in Write, HandleWrite(w) \/ runCommitTrack(w)
  PROVE  \/ PhaseOf(w)' = PhaseOf(w) /\ published'[w] = published[w]
         \/ PhaseOf(w) = "none" /\ PhaseOf(w)' = "open" /\ published'[w] = published[w]
         \/ /\ PhaseOf(w) = "open" /\ PhaseOf(w)' = "settled"
            /\ published'[w] = Append(published[w], "CONFIRM")
<1> USE DEF IInv, TypeOK, Step, Answer
<1>1. CASE RejectEarly(w) \/ Forward(w) \/ UpstreamAccepts(w) \/ UpstreamRefuses(w)
           \/ UpstreamFailure(w) \/ RejectLate(w)
  <2>1. published'[w] = published[w]
    BY <1>1 DEF RejectEarly, Forward, UpstreamAccepts, UpstreamRefuses,
       UpstreamFailure, RejectLate
  <2>2. response[w] # "provisional" /\ response'[w] # "provisional"
    BY <1>1 DEF RejectEarly, Forward, UpstreamAccepts, UpstreamRefuses,
       UpstreamFailure, RejectLate, Stage
  <2> QED
    BY <2>1, <2>2 DEF PhaseOf, Unresolved
<1>2. CASE AcceptProvisional(w)
  <2>1. /\ response[w] = "none" /\ response'[w] = "provisional"
        /\ published[w] = <<>> /\ published'[w] = <<>>
    BY <1>2 DEF AcceptProvisional, Stage
  <2> QED
    BY <2>1 DEF PhaseOf, Unresolved
<1>3. CASE RecordReplay(w) \/ PanicOnNilLock(w) \/ EndOfProcess(w) \/ Release(w)
  <2>1. published' = published /\ response' = response
    BY <1>3 DEF RecordReplay, PanicOnNilLock, EndOfProcess, Release
  <2> QED
    BY <2>1 DEF PhaseOf, Unresolved
<1>4. CASE PublishConfirm(w)
  <2>1. /\ response[w] = "provisional" /\ response'[w] = "provisional"
        /\ published[w] = <<>>
    BY <1>4 DEF PublishConfirm, Stage
  <2>2. published'[w] = Append(published[w], "CONFIRM")
    BY <1>4 DEF PublishConfirm
  <2>3. published'[w] # <<>>
    BY <2>1, <2>2
  <2> QED
    BY <2>1, <2>2, <2>3 DEF PhaseOf, Unresolved
<1> QED
  BY <1>1, <1>2, <1>3, <1>4 DEF HandleWrite, runCommitTrack

\* A step of one write changes the log of no other.
LEMMA LogFrame ==
  ASSUME IInv, NEW w \in Write, HandleWrite(w) \/ runCommitTrack(w)
  PROVE  /\ \A u \in Write \ {w} : PhaseOf(u)' = PhaseOf(u)
         /\ published' = [published EXCEPT ![w] = published'[w]]
<1>1. ASSUME NEW u \in Write, u # w
      PROVE  PhaseOf(u)' = PhaseOf(u) /\ published'[u] = published[u]
  <2>1. response'[u] = response[u] /\ published'[u] = published[u]
    BY <1>1, OthersUntouched DEF IInv
  <2> QED
    BY <2>1 DEF PhaseOf, Unresolved
<1>2. TypeOK /\ TypeOK'
  BY HandlerType, CommitType DEF IInv
<1> QED
  BY <1>1, <1>2 DEF TypeOK

\* The end of the process is the contract's crash.
LEMMA EndCrashes ==
  ASSUME IInv, NEW w \in Write, EndOfProcess(w)
  PROVE  Contract!Crash
<1>1. published' = published /\ response' = response /\ alive /\ alive' = FALSE
  BY DEF EndOfProcess
<1>2. \A u \in Write : PhaseOf(u)' = PhaseOf(u)
  BY <1>1 DEF PhaseOf, Unresolved
<1> QED
  BY <1>1, <1>2 DEF Contract!Crash

\* Every other step is one of a live process, the panic itself included.
LEMMA OthersLive ==
  ASSUME NEW w \in Write, HandleWrite(w) \/ runCommitTrack(w), ~EndOfProcess(w)
  PROVE  alive /\ alive' = alive
BY DEF HandleWrite, runCommitTrack, Step, RejectEarly, Forward, UpstreamAccepts,
   UpstreamRefuses, UpstreamFailure, AcceptProvisional, RejectLate, RecordReplay,
   PanicOnNilLock, PublishConfirm, Release

\* Every step of the write path is a step of the contract or none.
LEMMA NextContract == IInv /\ [Next]_vars => [Contract!Next]_(Contract!vars)
<1> SUFFICES ASSUME IInv, [Next]_vars
             PROVE  [Contract!Next]_(Contract!vars)
  OBVIOUS
<1>1. ASSUME NEW w \in Write, HandleWrite(w) \/ runCommitTrack(w), ~EndOfProcess(w)
      PROVE  [Contract!Next]_(Contract!vars)
  <2> USE <1>1, OthersLive
  <2>1. CASE PhaseOf(w)' = PhaseOf(w) /\ published'[w] = published[w]
    <3>1. \A u \in Write : PhaseOf(u)' = PhaseOf(u)
      BY <1>1, <2>1, LogFrame
    <3>2. published' = published
      BY <1>1, <2>1, LogFrame DEF IInv, TypeOK
    <3> QED
      BY <3>1, <3>2 DEF Contract!vars
  <2>2. CASE PhaseOf(w) = "none" /\ PhaseOf(w)' = "open" /\ published'[w] = published[w]
    <3>1. published' = published
      BY <1>1, <2>2, LogFrame DEF IInv, TypeOK
    <3>2. Contract!Open(w)
      BY <1>1, <2>2, <3>1, LogFrame DEF Contract!Open
    <3> QED
      BY <3>2 DEF Contract!Next
  <2>3. CASE /\ PhaseOf(w) = "open" /\ PhaseOf(w)' = "settled"
             /\ published'[w] = Append(published[w], "CONFIRM")
    <3>1. published' = [published EXCEPT ![w] = Append(@, "CONFIRM")]
      BY <1>1, <2>3, LogFrame DEF IInv, TypeOK
    <3>2. Contract!Emit(w, "CONFIRM", "settled")
      BY <1>1, <2>3, <3>1, LogFrame DEF Contract!Emit
    <3> QED
      BY <2>3, <3>2 DEF Contract!Next, Contract!Settle
  <2> QED
    BY <1>1, <2>1, <2>2, <2>3, OwnPhase
<1>2. CASE UNCHANGED vars
  BY <1>2 DEF vars, Contract!vars, PhaseOf, Unresolved
<1>3. ASSUME NEW w \in Write, EndOfProcess(w)
      PROVE  [Contract!Next]_(Contract!vars)
  BY <1>3, EndCrashes DEF Contract!Next
<1> QED
  BY <1>1, <1>2, <1>3 DEF Next

\* The safety part of KeepsContract, in every mix of write modes and across a
\* panic: a write that was rejected is sent no signal, a provisional one at
\* most its CONFIRM, once.
THEOREM ImplementsContract == Spec => Contract!Init /\ [][Contract!Next]_(Contract!vars)
<1>1. Init => Contract!Init
  <2> SUFFICES ASSUME Init
               PROVE  Contract!Init
    OBVIOUS
  <2>1. \A w \in Write : PhaseOf(w) = "none"
    BY DEF Init, PhaseOf, Unresolved
  <2> QED
    BY <2>1 DEF Init, Contract!Init
<1> QED
  BY <1>1, InitIInv, NextIInv, NextContract, PTL DEF Spec

\* A write's CONFIRM is the last thing its client hears, whatever independent writes
\* do to its lock: ClosedIsFinal of the contract, write by write.
THEOREM ClosedForGood ==
  Spec => [][\A w \in Write : PhaseOf(w) \in Contract!ClosedPhase =>
               PhaseOf(w)' = PhaseOf(w) /\ published'[w] = published[w]]_vars
<1>1. IInv /\ [Next]_vars =>
        [\A w \in Write : PhaseOf(w) \in Contract!ClosedPhase =>
           PhaseOf(w)' = PhaseOf(w) /\ published'[w] = published[w]]_vars
  <2> SUFFICES ASSUME IInv, Next, NEW w \in Write,
                      PhaseOf(w) \in Contract!ClosedPhase
               PROVE  PhaseOf(w)' = PhaseOf(w) /\ published'[w] = published[w]
    OBVIOUS
  <2>1. PICK u \in Write : HandleWrite(u) \/ runCommitTrack(u)
    BY DEF Next
  <2>2. CASE u = w
    <3>1. PhaseOf(w) \notin {"none", "open"}
      BY DEF Contract!ClosedPhase
    <3> QED
      BY <2>1, <2>2, <3>1, OwnPhase
  <2>3. CASE u # w
    <3>1. response'[w] = response[w] /\ published'[w] = published[w]
      BY <2>1, <2>3, OthersUntouched DEF IInv
    <3> QED
      BY <3>1 DEF PhaseOf, Unresolved
  <2> QED
    BY <2>2, <2>3
<1> QED
  BY <1>1, InitIInv, NextIInv, PTL DEF Spec

=============================================================================
