-------------------------- MODULE AdministrationProofs --------------------------
(***************************************************************************)
(* For any number of requests: an answered read is over, a read counts as  *)
(* fresh by its own teardown only, reads make way for control, and no PIN  *)
(* submitted after the opt-out reaches the lock.                           *)
(***************************************************************************)
EXTENDS Administration, TLAPS

(* Where a request can stand depends on what it is for.                     *)
StepsOfItsKind ==
    \A r \in Requests :
        /\ step[r] \in {"reading", "woken"} => kind[r] \in Reads
        /\ step[r] \in {"queued", "holding"} => kind[r] \in {"pinWrite", "control"}
        /\ step[r] = "saving" => kind[r] \in Settings

(* A request learns of its read before another read can end: what the       *)
(* shared diagnostics confirm then was confirmed of its own teardown.       *)
ConfirmedIsItsOwn ==
    /\ \A r, q \in Requests : step[r] = "woken" /\ step[q] = "woken" => r = q
    /\ \A r \in Requests :
          step[r] = "woken" /\ outcome[r] = "result" /\ diagnostics = "confirmed"
              => r \in closed
    /\ \A r \in certified : step[r] = "idle" /\ r \in closed

(* What was answered is in force, so no write has passed the gate late.     *)
OptOutInForce == (optedOut => disabled) /\ late = {}

IInv == TypeOK /\ StepsOfItsKind /\ AnsweredReadsAreOver /\ ConfirmedIsItsOwn
               /\ OptOutInForce /\ ReadsYieldToControl

-----------------------------------------------------------------------------
(* A request is submitted.                                                  *)
LEMMA StartKeeps ==
    ASSUME IInv, NEW r \in Requests, Start(r)
    PROVE  IInv'
<1> USE NoneAssumption DEF readVars, gateVars, sharedVars, IInv, TypeOK
<1>1. ASSUME NEW k \in Reads, ReadIsBusy(r, k) PROVE IInv'
  <2> USE <1>1 DEF ReadIsBusy
  <2>1. TypeOK'
    BY SMTT(20) DEF RequestsTypeOK, SharedTypeOK, Kinds, Reads, Settings, Steps, TaskSteps, Diagnostics,
         TaskRunning, AnsweredReadsAreOver
  <2>2. (StepsOfItsKind /\ AnsweredReadsAreOver)'
    BY SMTT(20) DEF RequestsTypeOK, Reads, Settings, StepsOfItsKind, AnsweredReadsAreOver
  <2>3. ConfirmedIsItsOwn'
    BY SMTT(20) DEF RequestsTypeOK, SharedTypeOK, LoopFree, Reads, AnsweredReadsAreOver,
         ConfirmedIsItsOwn
  <2>4. OptOutInForce'
    BY SMTT(20) DEF OptOutInForce
  <2>5. ReadsYieldToControl'
    BY SMTT(20) DEF RequestsTypeOK, SharedTypeOK, ControlRequests, Reads, Settings,
         TaskRunning, ReadsYieldToControl
  <2> QED BY <2>1, <2>2, <2>3, <2>4, <2>5
<1>2. ASSUME NEW k \in Reads, StartRead(r, k) PROVE IInv'
  <2> USE <1>2 DEF StartRead, Submit
  <2>1. TypeOK'
    BY SMTT(20) DEF RequestsTypeOK, SharedTypeOK, Kinds, Reads, Settings, Steps, TaskSteps, Diagnostics,
         TaskRunning, AnsweredReadsAreOver
  <2>2. (StepsOfItsKind /\ AnsweredReadsAreOver)'
    BY SMTT(20) DEF RequestsTypeOK, Reads, Settings, StepsOfItsKind, AnsweredReadsAreOver
  <2>3. ConfirmedIsItsOwn'
    BY SMTT(20) DEF RequestsTypeOK, SharedTypeOK, LoopFree, Reads, AnsweredReadsAreOver,
         ConfirmedIsItsOwn
  <2>4. OptOutInForce'
    BY SMTT(20) DEF OptOutInForce
  <2>5. ReadsYieldToControl'
    BY SMTT(20) DEF RequestsTypeOK, SharedTypeOK, ControlRequests, Reads, Settings,
         TaskRunning, ReadsYieldToControl
  <2> QED BY <2>1, <2>2, <2>3, <2>4, <2>5
<1>3. CASE StartControl(r)
  <2> USE <1>3 DEF StartControl, Submit, CancelTask
  <2>1. TypeOK'
    BY SMTT(20) DEF RequestsTypeOK, SharedTypeOK, Kinds, Reads, Settings, Steps, TaskSteps, Diagnostics,
         TaskRunning, AnsweredReadsAreOver
  <2>2. (StepsOfItsKind /\ AnsweredReadsAreOver)'
    BY SMTT(20) DEF RequestsTypeOK, Reads, Settings, StepsOfItsKind, AnsweredReadsAreOver
  <2>3. ConfirmedIsItsOwn'
    BY SMTT(20) DEF RequestsTypeOK, SharedTypeOK, LoopFree, Reads, AnsweredReadsAreOver,
         ConfirmedIsItsOwn
  <2>4. OptOutInForce'
    BY SMTT(20) DEF OptOutInForce
  <2>5. ReadsYieldToControl'
    BY SMTT(20) DEF RequestsTypeOK, SharedTypeOK, ControlRequests, Reads, Settings,
         TaskRunning, ReadsYieldToControl
  <2> QED BY <2>1, <2>2, <2>3, <2>4, <2>5
<1>4. CASE StartPinWrite(r)
  <2> USE <1>4 DEF StartPinWrite, Submit, MayWrite
  <2>1. TypeOK'
    BY SMTT(20) DEF RequestsTypeOK, SharedTypeOK, Kinds, Reads, Settings, Steps, TaskSteps, Diagnostics,
         TaskRunning, AnsweredReadsAreOver
  <2>2. (StepsOfItsKind /\ AnsweredReadsAreOver)'
    BY SMTT(20) DEF RequestsTypeOK, Reads, Settings, StepsOfItsKind, AnsweredReadsAreOver
  <2>3. ConfirmedIsItsOwn'
    BY SMTT(20) DEF RequestsTypeOK, SharedTypeOK, LoopFree, Reads, AnsweredReadsAreOver,
         ConfirmedIsItsOwn
  <2>4. OptOutInForce'
    BY SMTT(20) DEF OptOutInForce
  <2>5. ReadsYieldToControl'
    BY SMTT(20) DEF RequestsTypeOK, SharedTypeOK, ControlRequests, Reads, Settings,
         TaskRunning, ReadsYieldToControl
  <2> QED BY <2>1, <2>2, <2>3, <2>4, <2>5
<1>5. ASSUME NEW k \in Settings, StartSetting(r, k) PROVE IInv'
  <2> USE <1>5 DEF StartSetting, Submit
  <2>1. TypeOK'
    BY SMTT(20) DEF RequestsTypeOK, SharedTypeOK, Kinds, Reads, Settings, Steps, TaskSteps, Diagnostics,
         TaskRunning, AnsweredReadsAreOver
  <2>2. (StepsOfItsKind /\ AnsweredReadsAreOver)'
    BY SMTT(20) DEF RequestsTypeOK, Reads, Settings, StepsOfItsKind, AnsweredReadsAreOver
  <2>3. ConfirmedIsItsOwn'
    BY SMTT(20) DEF RequestsTypeOK, SharedTypeOK, LoopFree, Reads, AnsweredReadsAreOver,
         ConfirmedIsItsOwn
  <2>4. OptOutInForce'
    <3>1. optedOut' => optedOut
      OBVIOUS
    <3> QED BY <3>1 DEF OptOutInForce
  <2>5. ReadsYieldToControl'
    BY SMTT(20) DEF RequestsTypeOK, SharedTypeOK, ControlRequests, Reads, Settings,
         TaskRunning, ReadsYieldToControl
  <2> QED BY <2>1, <2>2, <2>3, <2>4, <2>5
<1> QED BY <1>1, <1>2, <1>3, <1>4, <1>5 DEF Start

(* The inventory task goes on, is interrupted, or ends.                     *)
LEMMA ReadTaskKeeps ==
    ASSUME IInv, NEW r \in Requests, ReadTask(r)
    PROVE  IInv'
<1> USE NoneAssumption DEF readVars, gateVars, sharedVars, IInv, TypeOK
<1>1. CASE ReadGranted(r)
  <2> USE <1>1 DEF ReadGranted
  <2>1. TypeOK'
    BY SMTT(20) DEF RequestsTypeOK, SharedTypeOK, Kinds, Reads, Settings, Steps, TaskSteps, Diagnostics,
         TaskRunning, AnsweredReadsAreOver
  <2>2. (StepsOfItsKind /\ AnsweredReadsAreOver)'
    BY SMTT(20) DEF RequestsTypeOK, Reads, Settings, StepsOfItsKind, AnsweredReadsAreOver
  <2>3. ConfirmedIsItsOwn'
    BY SMTT(20) DEF RequestsTypeOK, SharedTypeOK, LoopFree, Reads, AnsweredReadsAreOver,
         ConfirmedIsItsOwn
  <2>4. OptOutInForce'
    BY SMTT(20) DEF OptOutInForce
  <2>5. ReadsYieldToControl'
    BY SMTT(20) DEF RequestsTypeOK, SharedTypeOK, ControlRequests, Reads, Settings,
         TaskRunning, ReadsYieldToControl
  <2> QED BY <2>1, <2>2, <2>3, <2>4, <2>5
<1>2. CASE Acquired(r)
  <2> USE <1>2 DEF Acquired
  <2>1. TypeOK'
    BY SMTT(20) DEF RequestsTypeOK, SharedTypeOK, Kinds, Reads, Settings, Steps, TaskSteps, Diagnostics,
         TaskRunning, AnsweredReadsAreOver
  <2>2. (StepsOfItsKind /\ AnsweredReadsAreOver)'
    BY SMTT(20) DEF RequestsTypeOK, Reads, Settings, StepsOfItsKind, AnsweredReadsAreOver
  <2>3. ConfirmedIsItsOwn'
    BY SMTT(20) DEF RequestsTypeOK, SharedTypeOK, LoopFree, Reads, AnsweredReadsAreOver,
         ConfirmedIsItsOwn
  <2>4. OptOutInForce'
    BY SMTT(20) DEF OptOutInForce
  <2>5. ReadsYieldToControl'
    BY SMTT(20) DEF RequestsTypeOK, SharedTypeOK, ControlRequests, Reads, Settings,
         TaskRunning, ReadsYieldToControl
  <2> QED BY <2>1, <2>2, <2>3, <2>4, <2>5
<1>3. CASE ReadReturns(r)
  <2> USE <1>3 DEF ReadReturns, ReadEnds
  <2>1. TypeOK'
    BY SMTT(20) DEF RequestsTypeOK, SharedTypeOK, Kinds, Reads, Settings, Steps, TaskSteps, Diagnostics,
         TaskRunning, AnsweredReadsAreOver
  <2>2. (StepsOfItsKind /\ AnsweredReadsAreOver)'
    BY SMTT(20) DEF RequestsTypeOK, Reads, Settings, StepsOfItsKind, AnsweredReadsAreOver
  <2>3. ConfirmedIsItsOwn'
    BY SMTT(20) DEF RequestsTypeOK, SharedTypeOK, LoopFree, Reads, AnsweredReadsAreOver,
         ConfirmedIsItsOwn
  <2>4. OptOutInForce'
    BY SMTT(20) DEF OptOutInForce
  <2>5. ReadsYieldToControl'
    BY SMTT(20) DEF RequestsTypeOK, SharedTypeOK, ControlRequests, Reads, Settings,
         TaskRunning, ReadsYieldToControl
  <2> QED BY <2>1, <2>2, <2>3, <2>4, <2>5
<1>4. CASE ReadInterrupted(r)
  <2> USE <1>4 DEF ReadInterrupted, ReadEnds
  <2>1. TypeOK'
    BY SMTT(20) DEF RequestsTypeOK, SharedTypeOK, Kinds, Reads, Settings, Steps, TaskSteps, Diagnostics,
         TaskRunning, AnsweredReadsAreOver
  <2>2. (StepsOfItsKind /\ AnsweredReadsAreOver)'
    BY SMTT(20) DEF RequestsTypeOK, Reads, Settings, StepsOfItsKind, AnsweredReadsAreOver
  <2>3. ConfirmedIsItsOwn'
    BY SMTT(20) DEF RequestsTypeOK, SharedTypeOK, LoopFree, Reads, AnsweredReadsAreOver,
         ConfirmedIsItsOwn
  <2>4. OptOutInForce'
    BY SMTT(20) DEF OptOutInForce
  <2>5. ReadsYieldToControl'
    BY SMTT(20) DEF RequestsTypeOK, SharedTypeOK, ControlRequests, Reads, Settings,
         TaskRunning, ReadsYieldToControl
  <2> QED BY <2>1, <2>2, <2>3, <2>4, <2>5
<1>5. CASE WaitInterrupted(r)
  <2> USE <1>5 DEF WaitInterrupted
  <2>1. TypeOK'
    BY SMTT(20) DEF RequestsTypeOK, SharedTypeOK, Kinds, Reads, Settings, Steps, TaskSteps, Diagnostics,
         TaskRunning, AnsweredReadsAreOver
  <2>2. (StepsOfItsKind /\ AnsweredReadsAreOver)'
    BY SMTT(20) DEF RequestsTypeOK, Reads, Settings, StepsOfItsKind, AnsweredReadsAreOver
  <2>3. ConfirmedIsItsOwn'
    BY SMTT(20) DEF RequestsTypeOK, SharedTypeOK, LoopFree, Reads, AnsweredReadsAreOver,
         ConfirmedIsItsOwn
  <2>4. OptOutInForce'
    BY SMTT(20) DEF OptOutInForce
  <2>5. ReadsYieldToControl'
    BY SMTT(20) DEF RequestsTypeOK, SharedTypeOK, ControlRequests, Reads, Settings,
         TaskRunning, ReadsYieldToControl
  <2> QED BY <2>1, <2>2, <2>3, <2>4, <2>5
<1>6. ASSUME NEW confirmed \in BOOLEAN, TeardownEnds(r, confirmed) PROVE IInv'
  <2> USE <1>6 DEF TeardownEnds
  <2>1. TypeOK'
    BY SMTT(20) DEF RequestsTypeOK, SharedTypeOK, Kinds, Reads, Settings, Steps, TaskSteps, Diagnostics,
         TaskRunning, AnsweredReadsAreOver
  <2>2. (StepsOfItsKind /\ AnsweredReadsAreOver)'
    BY SMTT(20) DEF RequestsTypeOK, Reads, Settings, StepsOfItsKind, AnsweredReadsAreOver
  <2>3. ConfirmedIsItsOwn'
    BY SMTT(20) DEF RequestsTypeOK, SharedTypeOK, LoopFree, Reads, AnsweredReadsAreOver,
         ConfirmedIsItsOwn
  <2>4. OptOutInForce'
    BY SMTT(20) DEF OptOutInForce
  <2>5. ReadsYieldToControl'
    BY SMTT(20) DEF RequestsTypeOK, SharedTypeOK, ControlRequests, Reads, Settings,
         TaskRunning, ReadsYieldToControl
  <2> QED BY <2>1, <2>2, <2>3, <2>4, <2>5
<1> QED BY <1>1, <1>2, <1>3, <1>4, <1>5, <1>6 DEF ReadTask

(* A request goes on, times out, or is through.                             *)
LEMMA RequestKeeps ==
    ASSUME IInv, NEW r \in Requests,
           \/ Wake(r) \/ PanelTimeout(r)
           \/ Granted(r) \/ Finished(r) \/ SettingSaved(r) \/ SettingFails(r)
    PROVE  IInv'
<1> USE NoneAssumption DEF readVars, gateVars, sharedVars, IInv, TypeOK
<1>1. CASE Wake(r)
  <2> USE <1>1 DEF Wake, Answer
  <2>1. TypeOK'
    BY SMTT(20) DEF RequestsTypeOK, SharedTypeOK, Kinds, Reads, Settings, Steps, TaskSteps, Diagnostics,
         TaskRunning, AnsweredReadsAreOver
  <2>2. (StepsOfItsKind /\ AnsweredReadsAreOver)'
    BY SMTT(20) DEF RequestsTypeOK, Reads, Settings, StepsOfItsKind, AnsweredReadsAreOver
  <2>3. ConfirmedIsItsOwn'
    BY SMTT(20) DEF RequestsTypeOK, SharedTypeOK, LoopFree, Reads, AnsweredReadsAreOver,
         ConfirmedIsItsOwn
  <2>4. OptOutInForce'
    BY SMTT(20) DEF OptOutInForce
  <2>5. ReadsYieldToControl'
    BY SMTT(20) DEF RequestsTypeOK, SharedTypeOK, ControlRequests, Reads, Settings,
         TaskRunning, ReadsYieldToControl
  <2> QED BY <2>1, <2>2, <2>3, <2>4, <2>5
<1>2. CASE PanelTimeout(r)
  <2> USE <1>2 DEF PanelTimeout
  <2>1. TypeOK'
    BY SMTT(20) DEF RequestsTypeOK, SharedTypeOK, Kinds, Reads, Settings, Steps, TaskSteps, Diagnostics,
         TaskRunning, AnsweredReadsAreOver
  <2>2. (StepsOfItsKind /\ AnsweredReadsAreOver)'
    BY SMTT(20) DEF RequestsTypeOK, Reads, Settings, StepsOfItsKind, AnsweredReadsAreOver
  <2>3. ConfirmedIsItsOwn'
    BY SMTT(20) DEF RequestsTypeOK, SharedTypeOK, LoopFree, Reads, AnsweredReadsAreOver,
         ConfirmedIsItsOwn
  <2>4. OptOutInForce'
    BY SMTT(20) DEF OptOutInForce
  <2>5. ReadsYieldToControl'
    BY SMTT(20) DEF RequestsTypeOK, SharedTypeOK, ControlRequests, Reads, Settings,
         TaskRunning, ReadsYieldToControl
  <2> QED BY <2>1, <2>2, <2>3, <2>4, <2>5
<1>3. CASE Granted(r)
  <2> USE <1>3 DEF Granted
  <2>1. TypeOK'
    BY SMTT(20) DEF RequestsTypeOK, SharedTypeOK, Kinds, Reads, Settings, Steps, TaskSteps, Diagnostics,
         TaskRunning, AnsweredReadsAreOver
  <2>2. (StepsOfItsKind /\ AnsweredReadsAreOver)'
    BY SMTT(20) DEF RequestsTypeOK, Reads, Settings, StepsOfItsKind, AnsweredReadsAreOver
  <2>3. ConfirmedIsItsOwn'
    BY SMTT(20) DEF RequestsTypeOK, SharedTypeOK, LoopFree, Reads, AnsweredReadsAreOver,
         ConfirmedIsItsOwn
  <2>4. OptOutInForce'
    BY SMTT(20) DEF OptOutInForce
  <2>5. ReadsYieldToControl'
    BY SMTT(20) DEF RequestsTypeOK, SharedTypeOK, ControlRequests, Reads, Settings,
         TaskRunning, ReadsYieldToControl
  <2> QED BY <2>1, <2>2, <2>3, <2>4, <2>5
<1>4. CASE Finished(r)
  <2> USE <1>4 DEF Finished, Answer
  <2>1. TypeOK'
    BY SMTT(20) DEF RequestsTypeOK, SharedTypeOK, Kinds, Reads, Settings, Steps, TaskSteps, Diagnostics,
         TaskRunning, AnsweredReadsAreOver
  <2>2. (StepsOfItsKind /\ AnsweredReadsAreOver)'
    BY SMTT(20) DEF RequestsTypeOK, Reads, Settings, StepsOfItsKind, AnsweredReadsAreOver
  <2>3. ConfirmedIsItsOwn'
    BY SMTT(20) DEF RequestsTypeOK, SharedTypeOK, LoopFree, Reads, AnsweredReadsAreOver,
         ConfirmedIsItsOwn
  <2>4. OptOutInForce'
    BY SMTT(20) DEF OptOutInForce
  <2>5. ReadsYieldToControl'
    BY SMTT(20) DEF RequestsTypeOK, SharedTypeOK, ControlRequests, Reads, Settings,
         TaskRunning, ReadsYieldToControl
  <2> QED BY <2>1, <2>2, <2>3, <2>4, <2>5
<1>5. CASE SettingSaved(r)
  <2> USE <1>5 DEF SettingSaved, Answer
  <2>1. TypeOK'
    BY SMTT(20) DEF RequestsTypeOK, SharedTypeOK, Kinds, Reads, Settings, Steps, TaskSteps, Diagnostics,
         TaskRunning, AnsweredReadsAreOver
  <2>2. (StepsOfItsKind /\ AnsweredReadsAreOver)'
    BY SMTT(20) DEF RequestsTypeOK, Reads, Settings, StepsOfItsKind, AnsweredReadsAreOver
  <2>3. ConfirmedIsItsOwn'
    BY SMTT(20) DEF RequestsTypeOK, SharedTypeOK, LoopFree, Reads, AnsweredReadsAreOver,
         ConfirmedIsItsOwn
  <2>4. OptOutInForce'
    BY SMTT(20) DEF OptOutInForce
  <2>5. ReadsYieldToControl'
    BY SMTT(20) DEF RequestsTypeOK, SharedTypeOK, ControlRequests, Reads, Settings,
         TaskRunning, ReadsYieldToControl
  <2> QED BY <2>1, <2>2, <2>3, <2>4, <2>5
<1>6. CASE SettingFails(r)
  <2> USE <1>6 DEF SettingFails, Answer
  <2>1. TypeOK'
    BY SMTT(20) DEF RequestsTypeOK, SharedTypeOK, Kinds, Reads, Settings, Steps, TaskSteps, Diagnostics,
         TaskRunning, AnsweredReadsAreOver
  <2>2. (StepsOfItsKind /\ AnsweredReadsAreOver)'
    BY SMTT(20) DEF RequestsTypeOK, Reads, Settings, StepsOfItsKind, AnsweredReadsAreOver
  <2>3. ConfirmedIsItsOwn'
    BY SMTT(20) DEF RequestsTypeOK, SharedTypeOK, LoopFree, Reads, AnsweredReadsAreOver,
         ConfirmedIsItsOwn
  <2>4. OptOutInForce'
    BY SMTT(20) DEF OptOutInForce
  <2>5. ReadsYieldToControl'
    BY SMTT(20) DEF RequestsTypeOK, SharedTypeOK, ControlRequests, Reads, Settings,
         TaskRunning, ReadsYieldToControl
  <2> QED BY <2>1, <2>2, <2>3, <2>4, <2>5
<1> QED BY <1>1, <1>2, <1>3, <1>4, <1>5, <1>6

(* The entry is unloaded.                                                   *)
LEMMA CloseKeeps ==
    ASSUME IInv, Close
    PROVE  IInv'
<1> USE NoneAssumption DEF readVars, gateVars, sharedVars, IInv, TypeOK
<1> USE DEF Close, CancelTask
<1>1. TypeOK'
  BY SMTT(20) DEF RequestsTypeOK, SharedTypeOK, Kinds, Reads, Settings, Steps, TaskSteps, Diagnostics,
       TaskRunning, AnsweredReadsAreOver
<1>2. (StepsOfItsKind /\ AnsweredReadsAreOver)'
  BY SMTT(20) DEF RequestsTypeOK, Reads, Settings, StepsOfItsKind, AnsweredReadsAreOver
<1>3. ConfirmedIsItsOwn'
  BY SMTT(20) DEF RequestsTypeOK, SharedTypeOK, LoopFree, Reads, AnsweredReadsAreOver,
       ConfirmedIsItsOwn
<1>4. OptOutInForce'
  BY SMTT(20) DEF OptOutInForce
<1>5. ReadsYieldToControl'
  BY SMTT(20) DEF RequestsTypeOK, SharedTypeOK, ControlRequests, Reads, Settings,
       TaskRunning, ReadsYieldToControl
<1> QED BY <1>1, <1>2, <1>3, <1>4, <1>5

-----------------------------------------------------------------------------
(* The invariant holds from the start.                                      *)
LEMMA InitIInv == Init => IInv
<1> SUFFICES ASSUME Init PROVE IInv
  OBVIOUS
<1> USE NoneAssumption DEF Init
<1>1. RequestsTypeOK
  BY DEF RequestsTypeOK, Kinds, Steps, TaskSteps
<1>2. SharedTypeOK
  <2>1. closing \in BOOLEAN /\ records \in BOOLEAN /\ disabled \in BOOLEAN
            /\ optedOut \in BOOLEAN
    OBVIOUS
  <2> QED BY <2>1 DEF SharedTypeOK, Diagnostics
<1>3. StepsOfItsKind /\ AnsweredReadsAreOver /\ ConfirmedIsItsOwn
  BY DEF StepsOfItsKind, AnsweredReadsAreOver, ConfirmedIsItsOwn
<1>4. OptOutInForce /\ ReadsYieldToControl
  BY DEF OptOutInForce, ReadsYieldToControl, ControlRequests
<1> QED BY <1>1, <1>2, <1>3, <1>4 DEF IInv, TypeOK

(* Every step keeps it.                                                     *)
LEMMA NextIInv == IInv /\ [Next]_vars => IInv'
<1> SUFFICES ASSUME IInv, [Next]_vars PROVE IInv'
  OBVIOUS
<1>1. CASE Next
  BY <1>1, StartKeeps, ReadTaskKeeps, RequestKeeps, CloseKeeps DEF Next
<1>2. CASE UNCHANGED vars
  <2> USE <1>2 DEF vars, readVars, gateVars, sharedVars, IInv
  <2>1. TypeOK'
    <3>1. RequestsTypeOK'
      BY DEF TypeOK, RequestsTypeOK
    <3>2. SharedTypeOK'
      BY Zenon DEF TypeOK, SharedTypeOK
    <3> QED BY <3>1, <3>2 DEF TypeOK
  <2>2. (StepsOfItsKind /\ AnsweredReadsAreOver /\ ConfirmedIsItsOwn)'
    BY DEF StepsOfItsKind, AnsweredReadsAreOver, ConfirmedIsItsOwn
  <2>3. OptOutInForce'
    BY Zenon DEF OptOutInForce
  <2>4. ReadsYieldToControl'
    BY DEF ReadsYieldToControl, ControlRequests, TaskRunning
  <2> QED BY <2>1, <2>2, <2>3, <2>4
<1> QED BY <1>1, <1>2

(* Type correctness of the requests and of what they share.                 *)
THEOREM TypeCorrect == Spec => []TypeOK
<1>1. Init => IInv
  BY InitIInv
<1>2. IInv /\ [Next]_vars => IInv'
  BY NextIInv
<1>3. IInv => TypeOK
  BY DEF IInv
<1> QED BY <1>1, <1>2, <1>3, PTL DEF Spec

(* A panel read counts as fresh only if its own teardown was confirmed:     *)
(* _async_read asks the diagnostics the connection shares among all reads,  *)
(* and no other read can have put its own there in between.                 *)
THEOREM CertifiedByItsOwn == Spec => []CertifiedByOwnTeardown
<1>1. Init => IInv
  BY InitIInv
<1>2. IInv /\ [Next]_vars => IInv'
  BY NextIInv
<1>3. IInv => CertifiedByOwnTeardown
  BY DEF IInv, ConfirmedIsItsOwn, CertifiedByOwnTeardown
<1> QED BY <1>1, <1>2, <1>3, PTL DEF Spec

(* An answered read is over, also after the forty seconds of _dispatch: no  *)
(* task of it is left that holds the lock or a link.                        *)
THEOREM AnsweredIsOver == Spec => []AnsweredReadsAreOver
<1>1. Init => IInv
  BY InitIInv
<1>2. IInv /\ [Next]_vars => IInv'
  BY NextIInv
<1>3. IInv => AnsweredReadsAreOver
  BY DEF IInv
<1> QED BY <1>1, <1>2, <1>3, PTL DEF Spec

(* While control waits, a read is only still there to end                   *)
(* (_async_run_command cancels the inventory task first).                   *)
THEOREM ControlComesFirst == Spec => []ReadsYieldToControl
<1>1. Init => IInv
  BY InitIInv
<1>2. IInv /\ [Next]_vars => IInv'
  BY NextIInv
<1>3. IInv => ReadsYieldToControl
  BY DEF IInv
<1> QED BY <1>1, <1>2, <1>3, PTL DEF Spec

(* No PIN submitted after an answered opt-out, or without records, reaches  *)
(* the lock (_assert_legacy_access_enabled).                                *)
THEOREM OptOutStopsWrites == Spec => []OptOutStopsLaterWrites
<1>1. Init => IInv
  BY InitIInv
<1>2. IInv /\ [Next]_vars => IInv'
  BY NextIInv
<1>3. IInv => OptOutStopsLaterWrites
  BY DEF IInv, OptOutInForce, OptOutStopsLaterWrites
<1> QED BY <1>1, <1>2, <1>3, PTL DEF Spec

(* A read that was interrupted never returns what it read: the cancellation *)
(* takes the place of the result in the teardown (connection.py:471).       *)
THEOREM PreemptedFail == Spec => PreemptedReadsDoNotSucceed
<1>1. Init => IInv
  BY InitIInv
<1>2. IInv /\ [Next]_vars => IInv'
  BY NextIInv
<1>3. IInv /\ [Next]_vars =>
          [\A r \in Requests :
              r \in cancelled /\ r \notin cancelled' => outcome'[r] = "cancelled"]_vars
  <2> SUFFICES ASSUME IInv, Next, NEW r \in Requests, r \in cancelled, r \notin cancelled'
               PROVE  outcome'[r] = "cancelled"
    OBVIOUS
  <2> USE DEF readVars, gateVars, sharedVars, IInv, TypeOK, RequestsTypeOK
  <2>1. CASE \E q \in Requests : Start(q)
    BY <2>1 DEF Start, ReadIsBusy, StartRead, StartControl, CancelTask, StartPinWrite,
           StartSetting
  <2>2. ASSUME NEW q \in Requests, ReadTask(q) PROVE outcome'[r] = "cancelled"
    BY <2>2 DEF ReadTask, ReadGranted, Acquired, ReadReturns, ReadEnds, ReadInterrupted,
           WaitInterrupted, TeardownEnds
  <2>3. CASE \E q \in Requests : \/ Wake(q) \/ PanelTimeout(q) \/ Granted(q) \/ Finished(q)
                                 \/ SettingSaved(q) \/ SettingFails(q)
    BY <2>3 DEF Wake, PanelTimeout, Granted, Finished, SettingSaved, SettingFails
  <2>4. CASE Close
    BY <2>4 DEF Close, CancelTask
  <2> QED BY <2>1, <2>2, <2>3, <2>4 DEF Next
<1> QED BY <1>1, <1>2, <1>3, PTL DEF Spec, PreemptedReadsDoNotSucceed

-----------------------------------------------------------------------------
(* One task reads at a time, for the request that awaits it; it has the     *)
(* lock while it is inside; no cancellation of it is left over.             *)
Inside == {"acquiring", "inventory", "closing"}

ReadsOK ==
    /\ \A r \in Requests :
          /\ (read[r] \in Inside \cup {"queued"}) <=> (step[r] = "reading")
          /\ (read[r] = "over") <=> (step[r] = "woken")
          /\ (read[r] \in Inside \/ step[r] = "holding") <=> (holder = r)
          /\ step[r] = "reading" => task = r
          /\ r \in cancelled => step[r] = "reading"
    /\ task # None => read[task] # "none"

Reading == {r \in Requests : step[r] = "reading"}

Ends(r) == r \in cancelled \/ read[r] = "closing"

(* What the abstract read sees, in terms of who is reading.                 *)
LEMMA ReadView ==
    ASSUME TypeOK, ReadsOK
    PROVE  /\ RunningTask = Reading
           /\ ReadIsEnding = \E r \in Reading : Ends(r)
           /\ \A r, q \in Reading : r = q
<1> USE DEF TypeOK, RequestsTypeOK, SharedTypeOK, TaskSteps, ReadsOK, Inside, Reading
<1>1. ASSUME NEW r \in Reading PROVE RunningTask = {r} /\ Reading = {r}
  BY <1>1, NoneAssumption DEF RunningTask, TaskRunning
<1>2. CASE Reading = {}
  <2>1. ~TaskRunning
    BY <1>2, NoneAssumption DEF TaskRunning
  <2> QED BY <1>2, <2>1 DEF RunningTask, ReadIsEnding
<1>3. CASE Reading # {}
  <2>1. PICK r \in Reading : TRUE
    BY <1>3
  <2> QED BY <1>1, <2>1 DEF ReadIsEnding, Ends
<1> QED BY <1>2, <1>3

LEMMA ReadViewNext ==
    ASSUME TypeOK', ReadsOK'
    PROVE  /\ RunningTask' = Reading'
           /\ ReadIsEnding' = \E r \in Reading' : Ends(r)'
<1> USE DEF TypeOK, RequestsTypeOK, SharedTypeOK, TaskSteps, ReadsOK, Inside, Reading
<1>1. ASSUME NEW r \in Reading' PROVE RunningTask' = {r} /\ Reading' = {r}
  BY <1>1, NoneAssumption DEF RunningTask, TaskRunning
<1>2. CASE Reading' = {}
  <2>1. ~TaskRunning'
    BY <1>2, NoneAssumption DEF TaskRunning
  <2> QED BY <1>2, <2>1 DEF RunningTask, ReadIsEnding
<1>3. CASE Reading' # {}
  <2>1. PICK r \in Reading' : TRUE
    BY <1>3
  <2> QED BY <1>1, <2>1 DEF ReadIsEnding, Ends
<1> QED BY <1>2, <1>3

(* A request is submitted.                                                  *)
LEMMA StartReads ==
    ASSUME IInv, ReadsOK, NEW r \in Requests, Start(r)
    PROVE  ReadsOK'
<1> USE NoneAssumption DEF readVars, gateVars, sharedVars, IInv, TypeOK, RequestsTypeOK,
    SharedTypeOK, TaskSteps, Inside, ReadsOK, LoopFree, StepsOfItsKind, AnsweredReadsAreOver
<1>1. ASSUME NEW k \in Reads, ReadIsBusy(r, k) PROVE ReadsOK'
  BY <1>1 DEF ReadIsBusy, TaskRunning
<1>2. ASSUME NEW k \in Reads, StartRead(r, k) PROVE ReadsOK'
  BY <1>2 DEF StartRead, Submit, TaskRunning
<1>3. CASE StartControl(r)
  BY <1>3 DEF StartControl, Submit, CancelTask, TaskRunning
<1>4. CASE StartPinWrite(r)
  BY <1>4 DEF StartPinWrite, Submit
<1>5. ASSUME NEW k \in Settings, StartSetting(r, k) PROVE ReadsOK'
  BY <1>5 DEF StartSetting, Submit
<1> QED BY <1>1, <1>2, <1>3, <1>4, <1>5 DEF Start

(* The inventory task goes on, is interrupted, or ends.                     *)
LEMMA ReadTaskReads ==
    ASSUME IInv, ReadsOK, NEW r \in Requests, ReadTask(r)
    PROVE  ReadsOK'
<1> USE NoneAssumption DEF readVars, gateVars, sharedVars, IInv, TypeOK, RequestsTypeOK,
    SharedTypeOK, TaskSteps, Inside, ReadsOK, LoopFree, StepsOfItsKind, AnsweredReadsAreOver
<1>1. CASE ReadGranted(r)
  BY <1>1 DEF ReadGranted
<1>2. CASE Acquired(r)
  BY <1>2 DEF Acquired
<1>3. CASE ReadReturns(r)
  BY <1>3 DEF ReadReturns, ReadEnds
<1>4. CASE ReadInterrupted(r)
  BY <1>4 DEF ReadInterrupted, ReadEnds
<1>5. CASE WaitInterrupted(r)
  BY <1>5 DEF WaitInterrupted
<1>6. ASSUME NEW confirmed \in BOOLEAN, TeardownEnds(r, confirmed) PROVE ReadsOK'
  BY <1>6 DEF TeardownEnds
<1> QED BY <1>1, <1>2, <1>3, <1>4, <1>5, <1>6 DEF ReadTask

(* A request goes on, times out, or is through.                             *)
LEMMA RequestReads ==
    ASSUME IInv, ReadsOK, NEW r \in Requests, Wake(r) \/ PanelTimeout(r) \/ Granted(r)
           \/ Finished(r) \/ SettingSaved(r) \/ SettingFails(r)
    PROVE  ReadsOK'
<1> USE NoneAssumption DEF readVars, gateVars, sharedVars, IInv, TypeOK, RequestsTypeOK,
    SharedTypeOK, TaskSteps, Inside, ReadsOK, LoopFree, StepsOfItsKind, AnsweredReadsAreOver
<1>1. CASE Wake(r)
  BY <1>1 DEF Wake, Answer
<1>2. CASE PanelTimeout(r)
  BY <1>2 DEF PanelTimeout
<1>3. CASE Granted(r)
  BY <1>3 DEF Granted
<1>4. CASE Finished(r)
  BY <1>4 DEF Finished, Answer
<1>5. CASE SettingSaved(r)
  BY <1>5 DEF SettingSaved, Answer
<1>6. CASE SettingFails(r)
  BY <1>6 DEF SettingFails, Answer
<1> QED BY <1>1, <1>2, <1>3, <1>4, <1>5, <1>6

(* Every step keeps it.                                                     *)
LEMMA NextReads == IInv /\ ReadsOK /\ [Next]_vars => ReadsOK'
<1> SUFFICES ASSUME IInv, ReadsOK, [Next]_vars PROVE ReadsOK'
  OBVIOUS
<1>1. CASE Close
  BY <1>1, NoneAssumption DEF Close, CancelTask, TaskRunning, readVars, IInv, TypeOK,
     RequestsTypeOK, SharedTypeOK, TaskSteps, Inside, ReadsOK
<1>2. CASE UNCHANGED vars
  BY <1>2 DEF vars, readVars, sharedVars, ReadsOK
<1> QED BY <1>1, <1>2, StartReads, ReadTaskReads, RequestReads DEF Next

LEMMA InitReads == Init => ReadsOK
  BY NoneAssumption DEF Init, ReadsOK, Inside

(* What each step means to the read that is under way.                      *)
LEMMA StartReadStep ==
    ASSUME IInv, ReadsOK, IInv', ReadsOK', NEW r \in Requests, Start(r)
    PROVE  Read!Next \/ UNCHANGED Read!vars
<1>0. /\ RunningTask = Reading /\ RunningTask' = Reading'
      /\ ReadIsEnding = \E q \in Reading : Ends(q)
      /\ ReadIsEnding' = \E q \in Reading' : Ends(q)'
      /\ TaskRunning <=> Reading # {}
      /\ TaskRunning => Reading = {task}
  <2>1. TaskRunning <=> RunningTask # {}
    BY DEF RunningTask
  <2>2. TaskRunning => RunningTask = {task}
    BY DEF RunningTask
  <2> QED BY <2>1, <2>2, ReadView, ReadViewNext DEF IInv
<1> USE DEF IInv, TypeOK, RequestsTypeOK, SharedTypeOK, readVars, gateVars, sharedVars
<1>1. ASSUME NEW k \in Reads, StartRead(r, k) PROVE Read!Begin(r)
  <2> USE <1>1 DEF StartRead, Submit
  <2>1. Reading = {} /\ Reading' = {r}
    BY <1>0 DEF Reading
  <2>2. r \notin cancelled /\ read'[r] # "closing"
    BY DEF ReadsOK
  <2>3. ReadIsEnding = FALSE /\ ReadIsEnding' = FALSE
    BY <1>0, <2>1, <2>2 DEF Ends
  <2>4. ControlRequests' = ControlRequests
    BY DEF ControlRequests, Reads
  <2> QED BY <1>0, <2>1, <2>3, <2>4 DEF Read!Begin
<1>2. ASSUME StartControl(r) PROVE Read!Ask(r)
  <2> USE <1>2 DEF StartControl, Submit, CancelTask
  <2>1. Reading' = Reading
    BY DEF Reading
  <2>2. ReadIsEnding' = (Reading # {})
    <3>1. \A q \in Reading : q \in cancelled'
      BY <1>0
    <3> QED BY <1>0, <2>1, <3>1 DEF Ends
  <2>3. r \notin ControlRequests /\ ControlRequests' = ControlRequests \cup {r}
    BY DEF ControlRequests
  <2> QED BY <1>0, <2>1, <2>2, <2>3 DEF Read!Ask
<1>3. ASSUME NEW k \in Reads, ReadIsBusy(r, k) PROVE UNCHANGED Read!vars
  <2> USE <1>3 DEF ReadIsBusy
  <2>1. Reading' = Reading /\ \A q \in Reading : Ends(q)' <=> Ends(q)
    BY DEF Reading, Ends
  <2>2. ReadIsEnding' = ReadIsEnding
    BY <1>0, <2>1
  <2>3. ControlRequests' = ControlRequests
    BY DEF ControlRequests
  <2> QED BY <1>0, <2>1, <2>2, <2>3 DEF Read!vars
<1>4. ASSUME StartPinWrite(r) \/ \E k \in Settings : StartSetting(r, k)
      PROVE  UNCHANGED Read!vars
  <2> USE <1>4 DEF StartPinWrite, StartSetting, Submit
  <2>1. Reading' = Reading /\ \A q \in Reading : Ends(q)' <=> Ends(q)
    BY DEF Reading, Ends
  <2>2. ReadIsEnding' = ReadIsEnding
    BY <1>0, <2>1
  <2>3. ControlRequests' = ControlRequests
    BY DEF ControlRequests, Settings
  <2> QED BY <1>0, <2>1, <2>2, <2>3 DEF Read!vars
<1> QED BY <1>1, <1>2, <1>3, <1>4 DEF Start, Read!Next

LEMMA TaskReadStep ==
    ASSUME IInv, ReadsOK, IInv', ReadsOK', NEW r \in Requests, ReadTask(r)
    PROVE  Read!Next \/ UNCHANGED Read!vars
<1>0. /\ RunningTask = Reading /\ RunningTask' = Reading'
      /\ ReadIsEnding = \E q \in Reading : Ends(q)
      /\ ReadIsEnding' = \E q \in Reading' : Ends(q)'
      /\ \A p, q \in Reading : p = q
  BY ReadView, ReadViewNext DEF IInv
<1> USE DEF IInv, TypeOK, RequestsTypeOK, SharedTypeOK, readVars, gateVars, sharedVars
<1>1. ControlRequests' = ControlRequests
  <2>1. step[r] \in {"idle", "reading"}
    BY DEF ReadTask, ReadGranted, Acquired, ReadReturns, ReadInterrupted, WaitInterrupted,
       TeardownEnds, ReadsOK, Inside
  <2>2. UNCHANGED kind /\ kind[r] # "control"
    BY <2>1 DEF StepsOfItsKind, Reads, ReadTask, ReadGranted, Acquired, ReadReturns,
       ReadInterrupted, ReadEnds, WaitInterrupted, TeardownEnds
  <2>3. \A q \in Requests : q # r => step'[q] = step[q]
    BY DEF ReadTask, ReadGranted, Acquired, ReadReturns,
       ReadInterrupted, ReadEnds, WaitInterrupted, TeardownEnds
  <2> QED BY <2>2, <2>3 DEF ControlRequests
<1>2. read[r] \in Inside \cup {"queued"} => Reading = {r}
  BY <1>0 DEF ReadsOK, Reading
<1>3. ASSUME ReadGranted(r) PROVE Read!Take
  <2> USE <1>3 DEF ReadGranted
  <2>1. Reading' = Reading /\ \A q \in Reading : Ends(q)' <=> Ends(q)
    BY DEF Reading, Ends
  <2>2. ReadIsEnding' = ReadIsEnding /\ ~ReadIsEnding
    BY <1>0, <1>2, <2>1 DEF Ends
  <2> QED BY <1>0, <1>1, <2>1, <2>2 DEF Read!Take
<1>4. ASSUME Acquired(r) PROVE UNCHANGED Read!vars
  <2> USE <1>4 DEF Acquired
  <2>1. Reading' = Reading /\ \A q \in Reading : Ends(q)' <=> Ends(q)
    BY DEF Reading, Ends
  <2>2. ReadIsEnding' = ReadIsEnding
    BY <1>0, <2>1
  <2> QED BY <1>0, <1>1, <2>1, <2>2 DEF Read!vars
<1>5. ASSUME ReadReturns(r) \/ ReadInterrupted(r) PROVE Read!End
  <2> USE <1>5 DEF ReadReturns, ReadInterrupted, ReadEnds
  <2>1. Reading' = Reading /\ Reading = {r}
    BY <1>2 DEF Reading, Inside
  <2>2. Ends(r)'
    BY DEF Ends
  <2>3. ReadIsEnding' = TRUE
    BY <1>0, <2>1, <2>2
  <2> QED BY <1>0, <1>1, <2>1, <2>3 DEF Read!End
<1>6. ASSUME WaitInterrupted(r) PROVE Read!Withdraw
  <2> USE <1>6 DEF WaitInterrupted
  <2>1. Reading = {r} /\ Reading' = {}
    BY <1>2 DEF Reading
  <2>2. ReadIsEnding = TRUE /\ ReadIsEnding' = FALSE
    BY <1>0, <2>1 DEF Ends
  <2>3. holder # r
    BY DEF ReadsOK, Inside
  <2> QED BY <1>0, <1>1, <2>1, <2>2, <2>3 DEF Read!Withdraw
<1>7. ASSUME NEW confirmed \in BOOLEAN, TeardownEnds(r, confirmed) PROVE Read!Leave
  <2> USE <1>7 DEF TeardownEnds
  <2>1. Reading = {r} /\ Reading' = {} /\ holder = r
    BY <1>2 DEF Reading, ReadsOK, Inside
  <2>2. ReadIsEnding = TRUE /\ ReadIsEnding' = FALSE
    BY <1>0, <2>1 DEF Ends
  <2>3. r \notin ControlRequests
    BY <2>1 DEF ControlRequests, StepsOfItsKind, Reads, Reading
  <2>4. ReadIsEnding' = (ReadIsEnding /\ RunningTask' # {})
    BY <1>0, <2>1, <2>2
  <2>5. /\ ControlRequests' = ControlRequests \ {holder} /\ RunningTask' = RunningTask \ {holder}
        /\ holder # None /\ holder' = None /\ UNCHANGED closing
    BY <1>0, <1>1, <2>1, <2>3, NoneAssumption
  <2> QED BY <2>2, <2>4, <2>5 DEF Read!Leave
<1> QED BY <1>3, <1>4, <1>5, <1>6, <1>7 DEF ReadTask, Read!Next

LEMMA RequestReadStep ==
    ASSUME IInv, ReadsOK, IInv', ReadsOK', NEW r \in Requests,
           \/ Wake(r) \/ PanelTimeout(r)
           \/ Granted(r) \/ Finished(r) \/ SettingSaved(r) \/ SettingFails(r)
    PROVE  Read!Next \/ UNCHANGED Read!vars
<1>0. /\ RunningTask = Reading /\ RunningTask' = Reading'
      /\ ReadIsEnding = \E q \in Reading : Ends(q)
      /\ ReadIsEnding' = \E q \in Reading' : Ends(q)'
  BY ReadView, ReadViewNext DEF IInv
<1> USE DEF IInv, TypeOK, RequestsTypeOK, SharedTypeOK, readVars, gateVars, sharedVars
<1>1. Reading' = Reading
  BY DEF Reading, Wake, PanelTimeout, Granted, Finished, SettingSaved, SettingFails, Answer
<1>2. ASSUME ~PanelTimeout(r) PROVE ReadIsEnding' = ReadIsEnding
  <2>1. \A q \in Reading : Ends(q)' <=> Ends(q)
    BY <1>2 DEF Reading, Ends, Wake, Granted, Finished, SettingSaved, SettingFails
  <2> QED BY <1>0, <1>1, <2>1
<1>3. ASSUME ~Finished(r) PROVE ControlRequests' = ControlRequests
  BY <1>3 DEF ControlRequests, Wake, PanelTimeout, Granted, SettingSaved, SettingFails,
     Answer, StepsOfItsKind, Reads, Settings
<1>4. ASSUME Wake(r) \/ SettingSaved(r) \/ SettingFails(r) PROVE UNCHANGED Read!vars
  <2>1. UNCHANGED <<holder, closing>>
    BY <1>4 DEF Wake, SettingSaved, SettingFails
  <2>2. ~PanelTimeout(r) /\ ~Finished(r)
    BY <1>4 DEF Wake, SettingSaved, SettingFails, PanelTimeout, Finished, Answer
  <2> QED BY <1>0, <1>1, <1>2, <1>3, <2>1, <2>2 DEF Read!vars
<1>5. ASSUME PanelTimeout(r) PROVE Read!End \/ UNCHANGED Read!vars
  <2>1. ControlRequests' = ControlRequests /\ UNCHANGED <<holder, closing>>
    BY <1>5 DEF PanelTimeout, ControlRequests
  <2>2. CASE step[r] = "reading"
    <3>1. r \in Reading /\ Ends(r)'
      BY <1>5, <2>2 DEF PanelTimeout, Reading, Ends
    <3>2. ReadIsEnding' = TRUE
      BY <1>0, <1>1, <3>1
    <3> QED BY <1>0, <1>1, <2>1, <3>1, <3>2 DEF Read!End
  <2>3. CASE step[r] # "reading"
    <3>1. \A q \in Reading : Ends(q)' <=> Ends(q)
      BY <1>5, <2>3 DEF PanelTimeout, Ends
    <3>2. ReadIsEnding' = ReadIsEnding
      BY <1>0, <1>1, <3>1
    <3> QED BY <1>0, <1>1, <2>1, <3>2 DEF Read!vars
  <2> QED BY <2>2, <2>3
<1>6. ASSUME Granted(r) PROVE Read!Take
  <2>1. holder = None /\ holder' = r /\ UNCHANGED closing /\ r \notin Reading
    BY <1>6 DEF Granted, Reading
  <2>2. ~PanelTimeout(r) /\ ~Finished(r)
    BY <1>6 DEF Granted, PanelTimeout, Finished, Answer
  <2> QED BY <1>0, <1>1, <1>2, <1>3, <2>1, <2>2 DEF Read!Take
<1>7. ASSUME Finished(r) PROVE Read!Leave
  <2>1. holder = r /\ holder' = None /\ UNCHANGED closing /\ r \notin Reading
    BY <1>7 DEF Finished, Reading, ReadsOK
  <2>2. ControlRequests' = ControlRequests \ {r}
    BY <1>7 DEF Finished, Answer, ControlRequests
  <2>3. ReadIsEnding' = ReadIsEnding /\ (ReadIsEnding => Reading # {})
    <3>1. ~PanelTimeout(r)
      BY <1>7 DEF Finished, PanelTimeout
    <3> QED BY <1>0, <1>2, <3>1
  <2>4. ReadIsEnding' = (ReadIsEnding /\ Reading # {})
    BY <1>0, <2>3
  <2> QED BY <1>0, <1>1, <2>1, <2>2, <2>4, NoneAssumption DEF Read!Leave
<1> QED BY <1>4, <1>5, <1>6, <1>7 DEF Read!Next

LEMMA CloseReadStep == ASSUME IInv, ReadsOK, IInv', ReadsOK', Close PROVE Read!Shut
<1>0. /\ RunningTask = Reading /\ RunningTask' = Reading'
      /\ ReadIsEnding' = \E q \in Reading' : Ends(q)'
      /\ TaskRunning <=> RunningTask # {}
      /\ TaskRunning => RunningTask = {task}
  BY ReadView, ReadViewNext DEF IInv, RunningTask
<1>1. /\ closing' = TRUE /\ UNCHANGED <<holder, kind, step>>
      /\ cancelled' = IF TaskRunning THEN cancelled \cup {task} ELSE cancelled
  BY DEF Close, CancelTask
<1>2. Reading' = Reading /\ ControlRequests' = ControlRequests
  BY <1>1 DEF Reading, ControlRequests
<1>3. ReadIsEnding' = (Reading # {})
  BY <1>0, <1>1, <1>2 DEF Ends
<1> QED BY <1>0, <1>1, <1>2, <1>3 DEF Read!Shut

(* Whatever is asked of the lock at the same time, its reads implement the  *)
(* one read that makes way for control and does not go on when told to end. *)
THEOREM ImplementsRead == Spec => ReadSpec
<1>1. Init => IInv /\ ReadsOK
  BY InitIInv, InitReads
<1>2. Init => Read!Init
  BY NoneAssumption DEF Init, Read!Init, ControlRequests, RunningTask, TaskRunning, ReadIsEnding
<1>3. IInv /\ ReadsOK /\ [Next]_vars => IInv' /\ ReadsOK'
  BY NextIInv, NextReads
<1>4. IInv /\ ReadsOK /\ IInv' /\ ReadsOK' /\ [Next]_vars => [Read!Next]_Read!vars
  <2>1. CASE UNCHANGED vars
    BY <2>1 DEF vars, readVars, gateVars, sharedVars, Read!vars, ControlRequests, RunningTask,
       TaskRunning, ReadIsEnding
  <2> QED BY <2>1, StartReadStep, TaskReadStep, RequestReadStep, CloseReadStep
          DEF Next, Read!Next
<1> QED BY <1>1, <1>2, <1>3, <1>4, PTL DEF Spec, ReadSpec, Read!Spec

================================================================================
