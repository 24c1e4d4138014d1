------------------------ MODULE ControlCommandProofs ------------------------
(* Proofs about ControlCommand, for any requests, wishes and cancellations. *)
EXTENDS ControlCommand, TLAPS

(* Who holds the lock, who waits, and whom a cancellation can still reach.  *)
CallerInv ==
    /\ holder = Nobody <=> watch = "idle"
    /\ holder \notin asked
    /\ cancelled \subseteq asked \cup {holder}
    /\ \A r \in asked \cup {holder} : r \in Requests => answer[r] = "none"

(* Which tasks exist at each await of the holder, and what they returned.   *)
TaskInv ==
    /\ watch \in {"idle", "acquiring"} => control = "none"
    /\ watch \in {"watching", "revoking"} => control # "none"
    /\ watch \in {"resolving", "closeout"} => control = "done"
    /\ watch # "resolving" => resolver = "none"
    /\ watch = "resolving" => outcome = "unknown" /\ resolver # "none"
    /\ watch = "closeout" =>
           verdict = outcome /\ outcome \in {"aborted", "failed", "rejected"}
    /\ watch = "revoking" =>
           \/ outcome = "cancelled"
           \/ controlStopped /\ control \in {"created", "authWriting", "authWaiting"}
    /\ control # "done" => outcome = "none"
    /\ control = "done" => outcome # "none"
    /\ resolver # "done" => resolution = "none"
    /\ resolver = "done" => resolution # "none"

(* The stage a running attempt is in; none counts once it is over.          *)
StageInv ==
    /\ tracking <=> control \in {"authWriting", "authWaiting", "writing", "ackWaiting"}
    /\ control \in {"authWriting", "authWaiting"} => stage \notin CommittedStages
    /\ control \in {"writing", "ackWaiting"} => stage \in CommittedStages

(* A definite result: no movement, and no frame that could still cause one. *)
Settled(r) == executed[r] = 0 /\ r \notin received

(* Frames written, received and acted upon, request by request.             *)
AttemptInv ==
    /\ \A r \in Requests :
          /\ written[r] \in {0, 1}
          /\ executed[r] \in {0, 1}
          /\ executed[r] = 1 => written[r] = 1 /\ r \notin received
          /\ r \in received => written[r] = 1
          /\ answer[r] = "none" /\ r # holder => written[r] = 0
          /\ answer[r] \in Definite => Settled(r)
          /\ answer[r] = "ok" => written[r] = 1
    /\ control \in {"none", "created", "authWriting", "authWaiting"}
       /\ holder # Nobody => written[holder] = 0
    /\ control \in {"writing", "ackWaiting"} => written[holder] = 1
    /\ control = "writing" => Settled(holder)
    /\ outcome \in Definite => Settled(holder)
    /\ outcome \in {"aborted", "failed", "cancelled"} => written[holder] = 0
    /\ outcome \in {"ok", "unknown", "rejected"} => written[holder] = 1

(* What an acknowledgement says of the request it answers.                  *)
AckInv ==
    /\ reply # "none" => control = "ackWaiting" /\ ackReceived = "none"
    /\ control \in {"authWriting", "authWaiting", "writing"} => ackReceived = "none"
    /\ control = "ackWaiting" =>
          /\ "accepted" \in {ackReceived, reply} => executed[holder] = 1
          /\ "refused" \in {ackReceived, reply} => Settled(holder)
    /\ outcome = "ok" => executed[holder] = 1
    /\ resolution = "ok" => holder \in matched

IInv == /\ TypeOK
        /\ CallerInv
        /\ TaskInv
        /\ StageInv
        /\ AttemptInv
        /\ AckInv
        /\ SuccessIsConfirmed

(* The coroutine of the caller.                                             *)
LEMMA CallerStep == ASSUME IInv, Caller PROVE IInv'
<1> USE RequestsAssumption, MaxCancelsAssumption
  DEF IInv, TypeOK, CallerTypeOK, ControlTypeOK, ResolverTypeOK, LockTypeOK,
      HistoryTypeOK, CallerInv, TaskInv, StageInv, AttemptInv, AckInv, Settled,
      SuccessIsConfirmed, Watches, Definite, Outcomes, Controls, Resolvers,
      Stages, CommittedStages,
      ownerVars, signalVars, controlVars, stageVars, resolveVars,
      lockVars, historyVars, Release, StartResolver, StartCloseout, ControlCommitted
<1>1. CallerTypeOK'
  BY DEF Caller, Acquired, NotAcquired, WatchEnds, WatchCancelled,
     RevokeEnds, ResolveEnds, ResolveCancelled, CloseoutEnds
<1>2. ControlTypeOK'
  <2>1. CASE Acquired
    BY <2>1 DEF Acquired
  <2>2. CASE NotAcquired
    BY <2>2 DEF NotAcquired
  <2>3. CASE WatchEnds
    BY <2>3 DEF WatchEnds
  <2>4. CASE WatchCancelled
    BY <2>4 DEF WatchCancelled
  <2>5. CASE RevokeEnds
    BY <2>5 DEF RevokeEnds
  <2>6. CASE ResolveEnds
    BY <2>6 DEF ResolveEnds
  <2>7. CASE ResolveCancelled
    BY <2>7 DEF ResolveCancelled
  <2>8. CASE CloseoutEnds
    BY <2>8 DEF CloseoutEnds
  <2> QED
    BY <2>1, <2>2, <2>3, <2>4, <2>5, <2>6, <2>7, <2>8 DEF Caller
<1>3. ResolverTypeOK'
  BY DEF Caller, Acquired, NotAcquired, WatchEnds, WatchCancelled,
     RevokeEnds, ResolveEnds, ResolveCancelled, CloseoutEnds
<1>4. LockTypeOK'
  BY DEF Caller, Acquired, NotAcquired, WatchEnds, WatchCancelled,
     RevokeEnds, ResolveEnds, ResolveCancelled, CloseoutEnds
<1>5. HistoryTypeOK'
  BY DEF Caller, Acquired, NotAcquired, WatchEnds, WatchCancelled,
     RevokeEnds, ResolveEnds, ResolveCancelled, CloseoutEnds
<1>6. CallerInv'
  BY DEF Caller, Acquired, NotAcquired, WatchEnds, WatchCancelled,
     RevokeEnds, ResolveEnds, ResolveCancelled, CloseoutEnds
<1>7. TaskInv'
  <2>1. CASE Acquired
    BY <2>1 DEF Acquired
  <2>2. CASE NotAcquired
    BY <2>2 DEF NotAcquired
  <2>3. CASE WatchEnds
    BY <2>3 DEF WatchEnds
  <2>4. CASE WatchCancelled
    BY <2>4 DEF WatchCancelled
  <2>5. CASE RevokeEnds
    BY <2>5 DEF RevokeEnds
  <2>6. CASE ResolveEnds
    BY <2>6 DEF ResolveEnds
  <2>7. CASE ResolveCancelled
    BY <2>7 DEF ResolveCancelled
  <2>8. CASE CloseoutEnds
    BY <2>8 DEF CloseoutEnds
  <2> QED
    BY <2>1, <2>2, <2>3, <2>4, <2>5, <2>6, <2>7, <2>8 DEF Caller
<1>8. StageInv'
  BY DEF Caller, Acquired, NotAcquired, WatchEnds, WatchCancelled,
     RevokeEnds, ResolveEnds, ResolveCancelled, CloseoutEnds
<1>9. AttemptInv'
  <2>1. CASE Acquired
    BY <2>1 DEF Acquired
  <2>2. CASE NotAcquired
    BY <2>2 DEF NotAcquired
  <2>3. CASE WatchEnds
    BY <2>3 DEF WatchEnds
  <2>4. CASE WatchCancelled
    BY <2>4 DEF WatchCancelled
  <2>5. CASE RevokeEnds
    BY <2>5 DEF RevokeEnds
  <2>6. CASE ResolveEnds
    BY <2>6 DEF ResolveEnds
  <2>7. CASE ResolveCancelled
    BY <2>7 DEF ResolveCancelled
  <2>8. CASE CloseoutEnds
    BY <2>8 DEF CloseoutEnds
  <2> QED
    BY <2>1, <2>2, <2>3, <2>4, <2>5, <2>6, <2>7, <2>8 DEF Caller
<1>10. AckInv'
  BY DEF Caller, Acquired, NotAcquired, WatchEnds, WatchCancelled,
     RevokeEnds, ResolveEnds, ResolveCancelled, CloseoutEnds
<1>11. SuccessIsConfirmed'
  BY DEF Caller, Acquired, NotAcquired, WatchEnds, WatchCancelled,
     RevokeEnds, ResolveEnds, ResolveCancelled, CloseoutEnds
<1> QED
  BY <1>1, <1>2, <1>3, <1>4, <1>5, <1>6, <1>7, <1>8, <1>9, <1>10, <1>11 DEF
     IInv, TypeOK

(* The control task.                                                        *)
LEMMA ControlStep == ASSUME IInv, Control PROVE IInv'
<1> USE RequestsAssumption, MaxCancelsAssumption
  DEF IInv, TypeOK, CallerTypeOK, ControlTypeOK, ResolverTypeOK, LockTypeOK,
      HistoryTypeOK, CallerInv, TaskInv, StageInv, AttemptInv, AckInv, Settled,
      SuccessIsConfirmed, Watches, Definite, Outcomes, Controls, Resolvers,
      Stages, CommittedStages,
      ownerVars, signalVars, controlVars, stageVars, resolveVars,
      lockVars, historyVars, ControlEnds, FrameMayLand, ControlCommitted
<1>1. CallerTypeOK'
  BY DEF Control, ControlNeverStarts, ControlStarts, AuthWritten, AuthFails,
     AuthAnswered, FrameWritten, ExchangeFails, AckHandled, ControlCancelled
<1>2. ControlTypeOK'
  BY DEF Control, ControlNeverStarts, ControlStarts, AuthWritten, AuthFails,
     AuthAnswered, FrameWritten, ExchangeFails, AckHandled, ControlCancelled
<1>3. ResolverTypeOK'
  BY DEF Control, ControlNeverStarts, ControlStarts, AuthWritten, AuthFails,
     AuthAnswered, FrameWritten, ExchangeFails, AckHandled, ControlCancelled
<1>4. LockTypeOK'
  BY DEF Control, ControlNeverStarts, ControlStarts, AuthWritten, AuthFails,
     AuthAnswered, FrameWritten, ExchangeFails, AckHandled, ControlCancelled
<1>5. HistoryTypeOK'
  BY DEF Control, ControlNeverStarts, ControlStarts, AuthWritten, AuthFails,
     AuthAnswered, FrameWritten, ExchangeFails, AckHandled, ControlCancelled
<1>6. CallerInv'
  BY DEF Control, ControlNeverStarts, ControlStarts, AuthWritten, AuthFails,
     AuthAnswered, FrameWritten, ExchangeFails, AckHandled, ControlCancelled
<1>7. TaskInv'
  BY DEF Control, ControlNeverStarts, ControlStarts, AuthWritten, AuthFails,
     AuthAnswered, FrameWritten, ExchangeFails, AckHandled, ControlCancelled
<1>8. StageInv'
  BY DEF Control, ControlNeverStarts, ControlStarts, AuthWritten, AuthFails,
     AuthAnswered, FrameWritten, ExchangeFails, AckHandled, ControlCancelled
<1>9. AttemptInv'
  BY DEF Control, ControlNeverStarts, ControlStarts, AuthWritten, AuthFails,
     AuthAnswered, FrameWritten, ExchangeFails, AckHandled, ControlCancelled
<1>10. AckInv'
  <2>1. CASE ControlNeverStarts
    BY <2>1 DEF ControlNeverStarts
  <2>2. CASE ControlStarts
    BY <2>2 DEF ControlStarts
  <2>3. CASE AuthWritten
    BY <2>3 DEF AuthWritten
  <2>4. CASE AuthFails
    BY <2>4 DEF AuthFails
  <2>5. CASE AuthAnswered
    BY <2>5 DEF AuthAnswered
  <2>6. CASE FrameWritten
    BY <2>6 DEF FrameWritten
  <2>7. CASE ExchangeFails
    BY <2>7 DEF ExchangeFails
  <2>8. CASE AckHandled
    BY <2>8 DEF AckHandled
  <2>9. CASE ControlCancelled
    BY <2>9 DEF ControlCancelled
  <2> QED
    BY <2>1, <2>2, <2>3, <2>4, <2>5, <2>6, <2>7, <2>8, <2>9 DEF Control
<1>11. SuccessIsConfirmed'
  BY DEF Control, ControlNeverStarts, ControlStarts, AuthWritten, AuthFails,
     AuthAnswered, FrameWritten, ExchangeFails, AckHandled, ControlCancelled
<1> QED
  BY <1>1, <1>2, <1>3, <1>4, <1>5, <1>6, <1>7, <1>8, <1>9, <1>10, <1>11 DEF
     IInv, TypeOK

(* The reconciliation task.                                                 *)
LEMMA ResolverStep == ASSUME IInv, Resolver PROVE IInv'
<1> USE RequestsAssumption, MaxCancelsAssumption
  DEF IInv, TypeOK, CallerTypeOK, ControlTypeOK, ResolverTypeOK, LockTypeOK,
      HistoryTypeOK, CallerInv, TaskInv, StageInv, AttemptInv, AckInv, Settled,
      SuccessIsConfirmed, Watches, Definite, Outcomes, Controls, Resolvers,
      Stages, CommittedStages,
      ownerVars, signalVars, controlVars, stageVars, resolveVars,
      lockVars, historyVars, ResolverMoves, ResolverEnds
<1>1. CallerTypeOK'
  BY DEF Resolver, ResolverStarts, Rejoined, QueryAnswered, ResolverFails,
     ResolverCloses
<1>2. ControlTypeOK'
  BY DEF Resolver, ResolverStarts, Rejoined, QueryAnswered, ResolverFails,
     ResolverCloses
<1>3. ResolverTypeOK'
  BY DEF Resolver, ResolverStarts, Rejoined, QueryAnswered, ResolverFails,
     ResolverCloses
<1>4. LockTypeOK'
  BY DEF Resolver, ResolverStarts, Rejoined, QueryAnswered, ResolverFails,
     ResolverCloses
<1>5. HistoryTypeOK'
  BY DEF Resolver, ResolverStarts, Rejoined, QueryAnswered, ResolverFails,
     ResolverCloses
<1>6. CallerInv'
  BY DEF Resolver, ResolverStarts, Rejoined, QueryAnswered, ResolverFails,
     ResolverCloses
<1>7. TaskInv'
  BY DEF Resolver, ResolverStarts, Rejoined, QueryAnswered, ResolverFails,
     ResolverCloses
<1>8. StageInv'
  BY DEF Resolver, ResolverStarts, Rejoined, QueryAnswered, ResolverFails,
     ResolverCloses
<1>9. AttemptInv'
  BY DEF Resolver, ResolverStarts, Rejoined, QueryAnswered, ResolverFails,
     ResolverCloses
<1>10. AckInv'
  BY DEF Resolver, ResolverStarts, Rejoined, QueryAnswered, ResolverFails,
     ResolverCloses
<1>11. SuccessIsConfirmed'
  BY DEF Resolver, ResolverStarts, Rejoined, QueryAnswered, ResolverFails,
     ResolverCloses
<1> QED
  BY <1>1, <1>2, <1>3, <1>4, <1>5, <1>6, <1>7, <1>8, <1>9, <1>10, <1>11 DEF
     IInv, TypeOK

(* The lock, the link, outside cancellations and the shutdown.              *)
LEMMA WorldStep == ASSUME IInv, World PROVE IInv'
<1> USE RequestsAssumption, MaxCancelsAssumption
  DEF IInv, TypeOK, CallerTypeOK, ControlTypeOK, ResolverTypeOK, LockTypeOK,
      HistoryTypeOK, CallerInv, TaskInv, StageInv, AttemptInv, AckInv, Settled,
      SuccessIsConfirmed, Watches, Definite, Outcomes, Controls, Resolvers,
      Stages, CommittedStages,
      ownerVars, signalVars, controlVars, stageVars, resolveVars,
      lockVars, historyVars, Wanted
<1>1. CallerTypeOK'
  <2>1. CASE AckHeard
    BY <2>1 DEF AckHeard
  <2>2. CASE LockActs
    BY <2>2 DEF LockActs
  <2>3. CASE BoltTurned
    BY <2>3 DEF BoltTurned
  <2>4. CASE LinkDrops
    BY <2>4 DEF LinkDrops
  <2>5. CASE CancelTask
    BY <2>5 DEF CancelTask
  <2>6. CASE Shutdown
    BY <2>6 DEF Shutdown
  <2> QED
    BY <2>1, <2>2, <2>3, <2>4, <2>5, <2>6 DEF World
<1>2. ControlTypeOK'
  <2>1. CASE AckHeard
    BY <2>1 DEF AckHeard
  <2>2. CASE LockActs
    BY <2>2 DEF LockActs
  <2>3. CASE BoltTurned
    BY <2>3 DEF BoltTurned
  <2>4. CASE LinkDrops
    BY <2>4 DEF LinkDrops
  <2>5. CASE CancelTask
    BY <2>5 DEF CancelTask
  <2>6. CASE Shutdown
    BY <2>6 DEF Shutdown
  <2> QED
    BY <2>1, <2>2, <2>3, <2>4, <2>5, <2>6 DEF World
<1>3. ResolverTypeOK'
  BY DEF World, AckHeard, LockActs, BoltTurned, LinkDrops, CancelTask, Shutdown
<1>4. LockTypeOK'
  <2>1. CASE AckHeard
    BY <2>1 DEF AckHeard
  <2>2. CASE LockActs
    BY <2>2 DEF LockActs
  <2>3. CASE BoltTurned
    BY <2>3 DEF BoltTurned
  <2>4. CASE LinkDrops
    BY <2>4 DEF LinkDrops
  <2>5. CASE CancelTask
    BY <2>5 DEF CancelTask
  <2>6. CASE Shutdown
    BY <2>6 DEF Shutdown
  <2> QED
    BY <2>1, <2>2, <2>3, <2>4, <2>5, <2>6 DEF World
<1>5. HistoryTypeOK'
  BY DEF World, AckHeard, LockActs, BoltTurned, LinkDrops, CancelTask, Shutdown
<1>6. CallerInv'
  BY DEF World, AckHeard, LockActs, BoltTurned, LinkDrops, CancelTask, Shutdown
<1>7. TaskInv'
  BY DEF World, AckHeard, LockActs, BoltTurned, LinkDrops, CancelTask, Shutdown
<1>8. StageInv'
  BY DEF World, AckHeard, LockActs, BoltTurned, LinkDrops, CancelTask, Shutdown
<1>9. AttemptInv'
  BY DEF World, AckHeard, LockActs, BoltTurned, LinkDrops, CancelTask, Shutdown
<1>10. AckInv'
  BY DEF World, AckHeard, LockActs, BoltTurned, LinkDrops, CancelTask, Shutdown
<1>11. SuccessIsConfirmed'
  BY DEF World, AckHeard, LockActs, BoltTurned, LinkDrops, CancelTask, Shutdown
<1> QED
  BY <1>1, <1>2, <1>3, <1>4, <1>5, <1>6, <1>7, <1>8, <1>9, <1>10, <1>11 DEF
     IInv, TypeOK

(* A request is made, granted, given up or cancelled.                       *)
LEMMA RequestStep ==
    ASSUME IInv, NEW r \in Requests, Ask(r) \/ Take(r) \/ GiveUp(r) \/ CancelCaller(r)
    PROVE  IInv'
<1> USE RequestsAssumption, MaxCancelsAssumption
  DEF IInv, TypeOK, CallerTypeOK, ControlTypeOK, ResolverTypeOK, LockTypeOK,
      HistoryTypeOK, CallerInv, TaskInv, StageInv, AttemptInv, AckInv, Settled,
      SuccessIsConfirmed, Watches, Definite, Outcomes, Controls, Resolvers,
      Stages, CommittedStages,
      ownerVars, signalVars, controlVars, stageVars, resolveVars,
      lockVars, historyVars
<1>1. CallerTypeOK'
  BY DEF Ask, Take, GiveUp, CancelCaller
<1>2. ControlTypeOK'
  BY DEF Ask, Take, GiveUp, CancelCaller
<1>3. ResolverTypeOK'
  BY DEF Ask, Take, GiveUp, CancelCaller
<1>4. LockTypeOK'
  BY DEF Ask, Take, GiveUp, CancelCaller
<1>5. HistoryTypeOK'
  BY DEF Ask, Take, GiveUp, CancelCaller
<1>6. CallerInv'
  BY DEF Ask, Take, GiveUp, CancelCaller
<1>7. TaskInv'
  BY DEF Ask, Take, GiveUp, CancelCaller
<1>8. StageInv'
  BY DEF Ask, Take, GiveUp, CancelCaller
<1>9. AttemptInv'
  BY DEF Ask, Take, GiveUp, CancelCaller
<1>10. AckInv'
  BY DEF Ask, Take, GiveUp, CancelCaller
<1>11. SuccessIsConfirmed'
  BY DEF Ask, Take, GiveUp, CancelCaller
<1> QED
  BY <1>1, <1>2, <1>3, <1>4, <1>5, <1>6, <1>7, <1>8, <1>9, <1>10, <1>11 DEF
     IInv, TypeOK

----------------------------------------------------------------------------
(* The invariant holds at the start and every step keeps it.                *)
LEMMA InitInv == ASSUME Init PROVE IInv
<1>1. TypeOK
  <2>1. CallerTypeOK
    <3>1. cancels \in 0..MaxCancels
      BY MaxCancelsAssumption DEF Init
    <3>2. verdict \in Outcomes /\ watch \in Watches
      BY DEF Init, Outcomes, Definite, Watches
    <3> QED
      BY <3>1, <3>2 DEF Init, CallerTypeOK
  <2>2. ControlTypeOK /\ ResolverTypeOK /\ LockTypeOK
    BY DEF Init, ControlTypeOK, ResolverTypeOK, LockTypeOK, Controls, Outcomes,
       Definite, Stages, Resolvers
  <2>3. HistoryTypeOK
    BY DEF Init, HistoryTypeOK, Outcomes, Definite
  <2> QED
    BY <2>1, <2>2, <2>3 DEF TypeOK
<1>2. CallerInv /\ TaskInv /\ StageInv /\ SuccessIsConfirmed
  BY RequestsAssumption DEF Init, CallerInv, TaskInv, StageInv,
     SuccessIsConfirmed
<1>3. AttemptInv /\ AckInv
  BY RequestsAssumption DEF Init, AttemptInv, AckInv, Settled, Definite
<1> QED
  BY <1>1, <1>2, <1>3 DEF IInv

LEMMA NextInv == ASSUME IInv, [Next]_vars PROVE IInv'
<1>1. CASE UNCHANGED vars
  BY <1>1 DEF vars, ownerVars, signalVars, controlVars, stageVars, resolveVars,
     lockVars, historyVars, IInv, TypeOK, CallerTypeOK, ControlTypeOK,
     ResolverTypeOK, LockTypeOK, HistoryTypeOK, CallerInv, TaskInv, StageInv,
     AttemptInv, AckInv, Settled, SuccessIsConfirmed
<1>2. CASE Next
  BY <1>2, RequestStep, CallerStep, ControlStep, ResolverStep, WorldStep DEF
     Next
<1> QED
  BY <1>1, <1>2

LEMMA Invariance == Spec => []IInv
  BY InitInv, NextInv, PTL DEF Spec

(* The types hold for any requests and any number of cancellations.         *)
THEOREM TypeCorrect == Spec => []TypeOK
  BY Invariance, PTL DEF IInv

(* Nobody leaves the session lock while a task of theirs could still write, *)
(* whatever is cancelled and whenever (connection.py:628, 713 and 748).     *)
THEOREM NothingOutlivesItsCaller == Spec => []NoTaskOutlivesItsCaller
<1>1. IInv => NoTaskOutlivesItsCaller
  BY DEF IInv, CallerInv, TaskInv, NoTaskOutlivesItsCaller
<1> QED
  BY <1>1, Invariance, PTL

(* An "ok" is always backed by the lock's own act or by a fresh query.      *)
THEOREM SuccessConfirmed == Spec => []SuccessIsConfirmed
  BY Invariance, PTL DEF IInv

----------------------------------------------------------------------------
(* How each step looks to the one who only sees writes, moves and answers.  *)

(* An answer that agrees with the frames of its request is a promised one.  *)
LEMMA AnswerKept ==
    ASSUME IInv, NEW r \in Requests, NEW a \in Outcomes \ {"none"},
           answer[r] = "none",
           a \in {"ok", "unknown", "rejected"} => written[r] = 1,
           a \in {"aborted", "failed"} => written[r] = 0,
           a \in Definite => executed[r] = 0,
           answer' = [answer EXCEPT ![r] = a],
           UNCHANGED <<written, executed>>
    PROVE  Promise!Next
<1>1. Promise!Answer(r)
  BY DEF Promise!Answer, Promise!Answers, Promise!Definite, Definite, Outcomes
<1> QED
  BY <1>1 DEF Promise!Next

(* The caller only answers.                                                 *)
LEMMA CallerKeeps == ASSUME IInv, Caller PROVE [Promise!Next]_(Promise!vars)
<1> USE DEF IInv, TypeOK, CallerTypeOK, ControlTypeOK, ResolverTypeOK,
      HistoryTypeOK, CallerInv, TaskInv, AttemptInv, Settled, Definite, Outcomes,
      historyVars, Promise!vars
<1>1. CASE Acquired
  BY <1>1 DEF Acquired
<1>2. CASE NotAcquired
  BY <1>2, AnswerKept DEF NotAcquired, Release
<1>3. CASE WatchEnds
  <2>1. CASE outcome \in {"ok", "cancelled"} /\ Release(outcome)
    BY <1>3, <2>1, AnswerKept DEF WatchEnds, Release
  <2>2. CASE StartResolver \/ StartCloseout
    BY <2>2 DEF StartResolver, StartCloseout
  <2> QED
    BY <1>3, <2>1, <2>2 DEF WatchEnds
<1>4. CASE WatchCancelled
  BY <1>4 DEF WatchCancelled
<1>5. CASE RevokeEnds
  BY <1>5, AnswerKept DEF RevokeEnds, Release
<1>6. CASE ResolveEnds
  BY <1>6, AnswerKept DEF ResolveEnds, Release
<1>7. CASE ResolveCancelled
  BY <1>7 DEF ResolveCancelled
<1>8. CASE CloseoutEnds
  BY <1>8, AnswerKept DEF CloseoutEnds, Release
<1> QED
  BY <1>1, <1>2, <1>3, <1>4, <1>5, <1>6, <1>7, <1>8 DEF Caller

(* The control task only writes, once, behind the second gate.              *)
LEMMA ControlKeeps == ASSUME IInv, Control PROVE [Promise!Next]_(Promise!vars)
<1>1. CASE AuthAnswered /\ UNCHANGED written
  BY <1>1 DEF AuthAnswered, Promise!vars
<1>2. CASE AuthAnswered /\ written' = [written EXCEPT ![holder] = @ + 1]
  <2>1. holder \in Requests /\ answer[holder] = "none" /\ written[holder] = 0
    BY <1>2 DEF AuthAnswered, IInv, TypeOK, CallerTypeOK, CallerInv,
       TaskInv, AttemptInv
  <2>2. written' = [written EXCEPT ![holder] = 1]
    BY <1>2, <2>1 DEF IInv, TypeOK, HistoryTypeOK
  <2>3. Promise!Write(holder)
    BY <1>2, <2>1, <2>2 DEF AuthAnswered, Promise!Write
  <2> QED
    BY <2>1, <2>3 DEF Promise!Next
<1>3. CASE ControlNeverStarts \/ ControlStarts \/ AuthWritten \/ AuthFails
           \/ FrameWritten \/ ExchangeFails \/ AckHandled \/ ControlCancelled
  BY <1>3 DEF ControlNeverStarts, ControlStarts, AuthWritten, AuthFails,
     FrameWritten, ExchangeFails, AckHandled, ControlCancelled, historyVars,
     Promise!vars
<1>4. AuthAnswered => \/ UNCHANGED written
                      \/ written' = [written EXCEPT ![holder] = @ + 1]
  BY DEF AuthAnswered
<1> QED
  BY <1>1, <1>2, <1>3, <1>4 DEF Control

(* The lock moves its bolt at most once for a frame.                        *)
LEMMA WorldKeeps == ASSUME IInv, World PROVE [Promise!Next]_(Promise!vars)
<1>1. CASE LockActs
  <2>1. PICK r \in received, obeys \in BOOLEAN :
            /\ executed' = IF obeys THEN [executed EXCEPT ![r] = @ + 1] ELSE executed
            /\ UNCHANGED <<written, answer>>
    BY <1>1 DEF LockActs
  <2>2. r \in Requests /\ written[r] = 1 /\ executed[r] = 0 /\ answer[r] \notin Definite
    BY <2>1 DEF IInv, TypeOK, LockTypeOK, HistoryTypeOK, AttemptInv, Settled
  <2>3. [executed EXCEPT ![r] = @ + 1] = [executed EXCEPT ![r] = 1]
    BY <2>2 DEF IInv, TypeOK, HistoryTypeOK
  <2>4. CASE obeys
    BY <2>1, <2>2, <2>3, <2>4
       DEF Promise!Next, Promise!Execute, Promise!Definite, Definite
  <2>5. CASE ~obeys
    BY <2>1, <2>5 DEF Promise!vars
  <2> QED
    BY <2>4, <2>5
<1>2. CASE AckHeard \/ BoltTurned \/ LinkDrops \/ CancelTask \/ Shutdown
  BY <1>2 DEF AckHeard, BoltTurned, LinkDrops, CancelTask, Shutdown,
     historyVars,
     Promise!vars
<1> QED
  BY <1>1, <1>2 DEF World

(* A request that gives up had written nothing.                             *)
LEMMA RequestKeeps ==
    ASSUME IInv, NEW r \in Requests, Ask(r) \/ Take(r) \/ GiveUp(r) \/ CancelCaller(r)
    PROVE  [Promise!Next]_(Promise!vars)
<1>1. CASE GiveUp(r)
  <2>1. answer[r] = "none" /\ executed[r] = 0
    BY <1>1, RequestsAssumption
       DEF GiveUp, IInv, TypeOK, HistoryTypeOK, CallerInv, AttemptInv
  <2> QED
    BY <1>1, <2>1, AnswerKept DEF GiveUp, Outcomes, Definite
<1>2. CASE Ask(r) \/ Take(r) \/ CancelCaller(r)
  BY <1>2 DEF Ask, Take, CancelCaller, historyVars, Promise!vars
<1> QED
  BY <1>1, <1>2

(* The session and its client keep the promise of BoltCommand: one control  *)
(* write per request, and no definite failure that a late frame can belie.  *)
THEOREM KeepsPromise == Spec => PromiseSpec
<1>1. Init => Promise!Init
  BY DEF Init, Promise!Init
<1>2. IInv /\ [Next]_vars => [Promise!Next]_(Promise!vars)
  <2>1. CASE UNCHANGED vars
    BY <2>1 DEF vars, historyVars, Promise!vars
  <2>2. ASSUME IInv, Resolver PROVE [Promise!Next]_(Promise!vars)
    BY <2>2 DEF Resolver, ResolverStarts, Rejoined, QueryAnswered,
       ResolverFails,
       ResolverCloses, ResolverEnds, ResolverMoves, Promise!vars
  <2> QED
    BY <2>1, <2>2, CallerKeeps, ControlKeeps, WorldKeeps, RequestKeeps DEF Next
<1> QED
  BY <1>1, <1>2, Invariance, PTL DEF Spec, PromiseSpec, Promise!Spec

(* No control write begins once the entry is closing, in any interleaving   *)
(* of the shutdown with the authentication (client.py:180 and 198).         *)
THEOREM ClosingIsFinal == Spec => ClosingStartsNoControl
<1>1. [Next]_vars => (closing => written' = written)
  <2>1. CASE UNCHANGED vars
    BY <2>1 DEF vars, historyVars
  <2>2. ASSUME NEW r \in Requests, Ask(r) \/ Take(r) \/ GiveUp(r) \/ CancelCaller(r)
        PROVE  written' = written
    BY <2>2 DEF Ask, Take, GiveUp, CancelCaller, historyVars
  <2>3. CASE Caller
    BY <2>3 DEF Caller, Acquired, NotAcquired, WatchEnds, WatchCancelled,
       RevokeEnds, ResolveEnds, ResolveCancelled, CloseoutEnds, Release,
       StartResolver, StartCloseout, historyVars
  <2>4. ASSUME Control, closing PROVE written' = written
    BY <2>4 DEF Control, ControlNeverStarts, ControlStarts, AuthWritten,
       AuthFails,
       AuthAnswered, FrameWritten, ExchangeFails, AckHandled, ControlCancelled,
       historyVars
  <2>5. CASE Resolver \/ World
    BY <2>5 DEF Resolver, ResolverStarts, Rejoined, QueryAnswered,
       ResolverFails,
       ResolverCloses, ResolverEnds, ResolverMoves, World, AckHeard, LockActs,
       BoltTurned, LinkDrops, CancelTask, Shutdown, historyVars
  <2> QED
    BY <2>1, <2>2, <2>3, <2>4, <2>5 DEF Next
<1> QED
  BY <1>1, PTL DEF Spec, ClosingStartsNoControl

(* A caller who is heard before the commit is never held to the command.    *)
THEOREM CancellationIsHeeded == Spec => CancellationStopsUncommitted
<1> DEFINE Heeded(r) ==
        (r \in cancelled \ cancelled' /\ written[r] = 0 /\ answer'[r] = "none")
        => watch' \in {"revoking", "closeout"}
<1>1. IInv /\ [Next]_vars => \A r \in Requests : Heeded(r)
  <2> SUFFICES ASSUME IInv, [Next]_vars, NEW r \in Requests PROVE Heeded(r)
    OBVIOUS
  <2>1. CASE UNCHANGED <<cancelled>>
    BY <2>1
  <2>2. ASSUME NEW q \in Requests, GiveUp(q) PROVE Heeded(r)
    BY <2>2 DEF GiveUp, IInv, TypeOK, HistoryTypeOK
  <2>3. CASE Caller
    BY <2>3 DEF Caller, Acquired, NotAcquired, WatchEnds, WatchCancelled,
       RevokeEnds, ResolveEnds, ResolveCancelled, CloseoutEnds, Release,
       StartResolver, StartCloseout, ControlCommitted, signalVars, IInv, TypeOK,
       CallerTypeOK, ControlTypeOK, ResolverTypeOK, HistoryTypeOK, Outcomes,
       CallerInv, TaskInv, StageInv, AttemptInv
  <2>4. CASE UNCHANGED vars \/ Control \/ Resolver \/ World
    BY <2>1, <2>4 DEF vars, Control, ControlNeverStarts, ControlStarts,
       AuthWritten,
       AuthFails, AuthAnswered, FrameWritten, ExchangeFails, AckHandled,
       ControlCancelled, Resolver, ResolverStarts, Rejoined, QueryAnswered,
       ResolverFails, ResolverCloses, ResolverEnds, ResolverMoves, World, AckHeard,
       LockActs, BoltTurned, LinkDrops, CancelTask, Shutdown, signalVars
  <2>5. ASSUME NEW q \in Requests, Ask(q) \/ Take(q) \/ CancelCaller(q)
        PROVE  Heeded(r)
    BY <2>5 DEF Ask, Take, CancelCaller, signalVars
  <2> QED
    BY <2>2, <2>3, <2>4, <2>5 DEF Next
<1> QED
  BY <1>1, Invariance, PTL DEF Spec, CancellationStopsUncommitted

-----------------------------------------------------------------------------
(* How much the holder of the session lock has still before it, from the    *)
(* awaits its coroutine and its two tasks rest at.                          *)
ControlLeft ==
    CASE control = "created"     -> 6
      [] control = "authWriting" -> 5
      [] control = "authWaiting" -> 4
      [] control = "writing"     -> 3
      [] control = "ackWaiting"  -> 2
      [] OTHER                   -> 1

ResolverLeft ==
    CASE resolver = "created"   -> 6
      [] resolver = "rejoining" -> 5
      [] resolver = "acquiring" -> 4
      [] resolver = "querying"  -> 3
      [] resolver = "closeout"  -> 2
      [] OTHER                  -> 1

CommandLeft ==
    CASE watch = "acquiring" -> 14
      [] watch = "watching"  -> 7 + ControlLeft
      [] watch = "revoking"  -> ControlLeft
      [] watch = "resolving" -> ResolverLeft
      [] watch = "closeout"  -> 1
      [] OTHER               -> 0

(* Nothing a command does leads it back: a step of its coroutine or of its  *)
(* tasks leaves it less to do, or takes up a cancellation and leaves it     *)
(* where it was; nobody else gives the holder more to do.                   *)
Progress ==
    /\ Caller \/ Control \/ Resolver =>
          \/ CommandLeft' < CommandLeft
          \/ CommandLeft' = CommandLeft /\ holder \in cancelled \ cancelled'
    /\ holder' = holder => CommandLeft' <= CommandLeft

CommandOnlyAdvances == [][Progress]_vars

(* The control task steps, and the coroutine waits for it.                  *)
LEMMA ControlProgresses == ASSUME IInv, Control PROVE Progress
<1>1. watch' = watch /\ watch \in {"watching", "revoking"}
  BY DEF Control, ControlNeverStarts, ControlStarts, AuthWritten, AuthFails, AuthAnswered,
         FrameWritten, ExchangeFails, AckHandled, ControlCancelled, ownerVars, IInv, TypeOK,
         CallerTypeOK, ControlTypeOK, Controls, Watches, TaskInv
<1>2. \/ control = "created" /\ control' \in {"authWriting", "done"}
      \/ control = "authWriting" /\ control' \in {"authWaiting", "done"}
      \/ control = "authWaiting" /\ control' \in {"writing", "done"}
      \/ control = "writing" /\ control' \in {"ackWaiting", "done"}
      \/ control = "ackWaiting" /\ control' = "done"
  BY DEF Control, ControlNeverStarts, ControlStarts, AuthWritten, AuthFails, AuthAnswered,
         FrameWritten, ExchangeFails, AckHandled, ControlCancelled, ControlEnds, IInv,
         TypeOK, ControlTypeOK, Controls
<1>3. CommandLeft' < CommandLeft
  BY <1>1, <1>2 DEF ControlLeft, CommandLeft
<1>4. CommandLeft' <= CommandLeft
  BY <1>1, <1>2 DEF ControlLeft, CommandLeft
<1> QED BY <1>3, <1>4 DEF Progress

(* The reconciliation task steps, and the coroutine waits for it.           *)
LEMMA ResolverProgresses == ASSUME IInv, Resolver PROVE Progress
<1>1. watch' = watch /\ watch = "resolving"
  BY DEF Resolver, ResolverStarts, Rejoined, QueryAnswered, ResolverFails, ResolverCloses,
         ResolverEnds, ResolverMoves, ownerVars, IInv, TaskInv
<1>2. \/ resolver = "created" /\ resolver' \in {"querying", "rejoining", "done"}
      \/ resolver = "rejoining" /\ resolver' \in {"acquiring", "closeout"}
      \/ resolver = "acquiring" /\ resolver' \in {"querying", "closeout"}
      \/ resolver = "querying" /\ resolver' \in {"closeout", "done"}
      \/ resolver = "closeout" /\ resolver' = "done"
  BY DEF Resolver, ResolverStarts, Rejoined, QueryAnswered, ResolverFails, ResolverCloses,
         ResolverEnds, ResolverMoves
<1>3. CommandLeft' < CommandLeft
  BY <1>1, <1>2 DEF ResolverLeft, CommandLeft
<1>4. CommandLeft' <= CommandLeft
  BY <1>1, <1>2 DEF ResolverLeft, CommandLeft
<1> QED BY <1>3, <1>4 DEF Progress

(* The coroutine steps: to a task it creates, out of the lock, or over a    *)
(* cancellation it takes up.                                                *)
LEMMA CallerProgresses == ASSUME IInv, Caller PROVE Progress
<1> USE DEF IInv, TaskInv
<1>1. \/ watch # "idle" /\ watch' = "idle"
      \/ watch = "acquiring" /\ watch' = "watching" /\ control' = "created"
      \/ watch = "watching" /\ watch' \in {"resolving", "closeout"}
      \/ watch = "watching" /\ watch' = "revoking" /\ control' = control
      \/ /\ watch \in {"watching", "resolving"} /\ UNCHANGED <<watch, control, resolver>>
         /\ holder \in cancelled \ cancelled'
  BY DEF Caller, Acquired, NotAcquired, WatchEnds, WatchCancelled, RevokeEnds, ResolveEnds,
         ResolveCancelled, CloseoutEnds, Release, StartResolver, StartCloseout, ownerVars,
         controlVars, resolveVars
<1>2. watch \in Watches
  BY DEF TypeOK, CallerTypeOK
<1>3. CASE watch # "idle" /\ watch' = "idle"
  <2>1. CommandLeft' < CommandLeft /\ CommandLeft' <= CommandLeft
    BY <1>2, <1>3 DEF CommandLeft, ControlLeft, ResolverLeft, Watches
  <2> QED BY <2>1 DEF Progress
<1>4. CASE watch = "acquiring" /\ watch' = "watching" /\ control' = "created"
  <2>1. CommandLeft = 14 /\ CommandLeft' = 13
    BY <1>4 DEF CommandLeft, ControlLeft
  <2> QED BY <2>1 DEF Progress
<1>5. CASE watch = "watching" /\ watch' \in {"resolving", "closeout"}
  <2>1. CommandLeft' < CommandLeft /\ CommandLeft' <= CommandLeft
    BY <1>5 DEF CommandLeft, ControlLeft, ResolverLeft
  <2> QED BY <2>1 DEF Progress
<1>6. CASE watch = "watching" /\ watch' = "revoking" /\ control' = control
  <2>1. CommandLeft' < CommandLeft /\ CommandLeft' <= CommandLeft
    BY <1>6 DEF CommandLeft, ControlLeft
  <2> QED BY <2>1 DEF Progress
<1>7. CASE /\ watch \in {"watching", "resolving"} /\ UNCHANGED <<watch, control, resolver>>
           /\ holder \in cancelled \ cancelled'
  <2>1. CommandLeft' = CommandLeft /\ CommandLeft' <= CommandLeft
    BY <1>7 DEF CommandLeft, ControlLeft, ResolverLeft
  <2> QED BY <1>7, <2>1 DEF Progress
<1> QED BY <1>1, <1>3, <1>4, <1>5, <1>6, <1>7

(* Nobody else moves the holder or its tasks.                               *)
LEMMA OthersProgress ==
    ASSUME IInv, ~(Caller \/ Control \/ Resolver),
           \/ World \/ UNCHANGED vars
           \/ \E r \in Requests : Ask(r) \/ Take(r) \/ GiveUp(r) \/ CancelCaller(r)
    PROVE  Progress
<1> SUFFICES ASSUME holder' = holder PROVE CommandLeft' <= CommandLeft
  BY DEF Progress
<1>1. UNCHANGED <<watch, control, resolver>>
  BY RequestsAssumption
     DEF World, AckHeard, LockActs, BoltTurned, LinkDrops, CancelTask, Shutdown, Ask, Take,
         GiveUp, CancelCaller, vars, ownerVars, controlVars, resolveVars
<1> QED BY <1>1 DEF CommandLeft, ControlLeft, ResolverLeft

(* Every command only advances: whatever fails, drops or is cancelled, each *)
(* step of its own leads it on to the release of the session lock, so that  *)
(* it makes 14 steps at most, and one for each cancellation                 *)
(* (connection.py:594, the retained waits).  That its tasks do step is the  *)
(* fairness EveryCallerAnswered needs besides.                              *)
THEOREM CommandAdvances == Spec => CommandOnlyAdvances
<1>1. ASSUME IInv, [Next]_vars PROVE Progress
  BY <1>1, CallerProgresses, ControlProgresses, ResolverProgresses, OthersProgress DEF Next
<1> QED BY <1>1, Invariance, PTL DEF Spec, CommandOnlyAdvances
=============================================================================
