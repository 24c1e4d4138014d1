------------------------- MODULE LockSessionProofs -------------------------
(* Proofs about LockSession, for any callers and any number of clients.     *)
EXTENDS LockSession, TLAPS

(* What each place in the critical section knows of the two client fields.  *)
SectionInv ==
    /\ pc = "replace" => pending = NoClient
    /\ pc \in {"resolve", "scanning", "open", "again"} =>
           client = NoClient /\ pending = NoClient
    /\ pc \in {"connecting", "adopt", "cleaning"} => client = NoClient
    /\ pc = "confirming" => client # NoClient
    /\ pc \in {"connecting", "adopt"} => ~shownUp
    /\ pc = "adopt" => link[pending] = "up"

IInv == /\ TypeOK
        /\ EveryHandleIsOwned
        /\ OwnershipErrorsUnreachable
        /\ AnnouncedUpIsAccountedFor
        /\ SectionInv

(* The conjuncts of IInv besides the types.                                 *)
OwnershipInv == /\ EveryHandleIsOwned
                /\ OwnershipErrorsUnreachable
                /\ AnnouncedUpIsAccountedFor
                /\ SectionInv

----------------------------------------------------------------------------
(* What the section starts from, for whoever gets the lock.                 *)
LEMMA BeginTypes ==
    ASSUME NEW t \in Tasks, Begin(t)
    PROVE  owner' = t /\ SectionTypeOK' /\ pc' \in {"ensure", "closeout"}
<1>1. owner' = t /\ pc' \in {"ensure", "closeout"}
  BY DEF Begin
<1>2. active' \in BOOLEAN
  BY DEF Begin, ActiveScan
<1>3. /\ after' \in Reasons /\ scanned' \in BOOLEAN
      /\ committed' \in BOOLEAN /\ reconciling' \in BOOLEAN
  BY DEF Begin, Reasons
<1>4. pc' \in Awaits \cup Blocks
  BY <1>1 DEF Blocks
<1> QED
  BY <1>1, <1>2, <1>3, <1>4 DEF SectionTypeOK

(* What taking the lock, or waiting for it, does to the section.            *)
LEMMA AcquireTypes ==
    ASSUME TypeOK, NEW t \in Tasks, Acquire(t)
    PROVE  /\ owner' \in Tasks \cup {NoTask} /\ queue' \in Seq(Tasks)
           /\ SectionTypeOK'
           /\ pc' = pc \/ pc' \in {"ensure", "closeout"}
<1>1. CASE Begin(t) /\ UNCHANGED queue
  BY <1>1, BeginTypes DEF TypeOK, LockTypeOK
<1>2. CASE queue' = Append(queue, t) /\ UNCHANGED <<owner, sectionVars>>
  BY <1>2 DEF TypeOK, LockTypeOK, SectionTypeOK, sectionVars
<1> QED
  BY <1>1, <1>2 DEF Acquire

(* Whoever acts outside the section leaves the ownership alone.             *)
LEMMA OutsideStep ==
    ASSUME IInv, TypeOK', UNCHANGED <<clientVars, link, callbacks, shownUp>>,
           pc' = pc \/ pc' \in {"ensure", "closeout", "leave"}
    PROVE  IInv'
  BY DEF IInv, EveryHandleIsOwned, OwnershipErrorsUnreachable,
         AnnouncedUpIsAccountedFor, SectionInv, clientVars, OwnedClient, NoClient

(* The line keeps its type when a waiter leaves it.                         *)
LEMMA WithoutType ==
    ASSUME NEW S, NEW line \in Seq(S), NEW t, \E i \in DOMAIN line : line[i] = t
    PROVE  Without(line, t) \in Seq(S)
<1> DEFINE place == CHOOSE i \in DOMAIN line : line[i] = t
<1>1. place \in 1..Len(line)
  OBVIOUS
<1>2. \A i \in 1..(Len(line) - 1) :
          (IF i < place THEN line[i] ELSE line[i + 1]) \in S
  BY <1>1
<1>3. Len(line) - 1 \in Nat
  BY <1>1
<1> QED
  BY <1>2, <1>3 DEF Without

----------------------------------------------------------------------------
(* A step of the critical section.                                          *)
LEMMA SectionStep == ASSUME IInv, Section PROVE IInv'
<1> USE TasksAssumption, MaxClientsAssumption
  DEF IInv, TypeOK, LockTypeOK, SectionTypeOK, ClientTypeOK, OuterTypeOK,
      OwnershipInv, EveryHandleIsOwned, OwnershipErrorsUnreachable,
      AnnouncedUpIsAccountedFor, SectionInv,
      Tasks, Callers, Clients, NoClient, LinkStates, Awaits, Blocks, Reasons,
      lockVars, sectionVars, clientVars, signalVars, outerVars,
      OwnedClient, IsConnected, LoopFree,
      GoTo, Teardown, Disconnect, Resume, Rest
<1>1. CASE Ensure
  BY <1>1 DEF Ensure
<1>2. CASE Replace
  <2>1. TypeOK'
    <3>1. LockTypeOK'
      BY <1>2 DEF Replace, Obtained
    <3>2. SectionTypeOK'
      BY <1>2 DEF Replace, Obtained
    <3>3. ClientTypeOK'
      BY <1>2 DEF Replace, Obtained
    <3>4. OuterTypeOK'
      BY <1>2 DEF Replace, Obtained
    <3> QED
      BY <3>1, <3>2, <3>3, <3>4
  <2>2. OwnershipInv'
    BY <1>2 DEF Replace, Obtained
  <2> QED
    BY <2>1, <2>2
<1>3. CASE ResolveCandidate
  <2>1. TypeOK'
    <3>1. LockTypeOK'
      BY <1>3 DEF ResolveCandidate
    <3>2. SectionTypeOK'
      BY <1>3 DEF ResolveCandidate
    <3>3. ClientTypeOK'
      BY <1>3 DEF ResolveCandidate
    <3>4. OuterTypeOK'
      BY <1>3 DEF ResolveCandidate
    <3> QED
      BY <3>1, <3>2, <3>3, <3>4
  <2>2. OwnershipInv'
    BY <1>3 DEF ResolveCandidate
  <2> QED
    BY <2>1, <2>2
<1>4. CASE OpenCandidate
  <2>1. TypeOK'
    <3>1. LockTypeOK'
      BY <1>4 DEF OpenCandidate
    <3>2. SectionTypeOK'
      BY <1>4 DEF OpenCandidate
    <3>3. ClientTypeOK'
      BY <1>4 DEF OpenCandidate
    <3>4. OuterTypeOK'
      BY <1>4 DEF OpenCandidate
    <3> QED
      BY <3>1, <3>2, <3>3, <3>4
  <2>2. OwnershipInv'
    BY <1>4 DEF OpenCandidate
  <2> QED
    BY <2>1, <2>2
<1>5. CASE Adopt
  <2>1. TypeOK'
    <3>1. LockTypeOK'
      BY <1>5 DEF Adopt, Obtained
    <3>2. SectionTypeOK'
      BY <1>5 DEF Adopt, Obtained
    <3>3. ClientTypeOK'
      BY <1>5 DEF Adopt, Obtained
    <3>4. OuterTypeOK'
      BY <1>5 DEF Adopt, Obtained
    <3> QED
      BY <3>1, <3>2, <3>3, <3>4
  <2>2. OwnershipInv'
    BY <1>5 DEF Adopt, Obtained
  <2> QED
    BY <2>1, <2>2
<1>6. CASE TryAgain
  <2>1. TypeOK'
    <3>1. LockTypeOK'
      BY <1>6 DEF TryAgain
    <3>2. SectionTypeOK'
      BY <1>6 DEF TryAgain
    <3>3. ClientTypeOK'
      BY <1>6 DEF TryAgain
    <3>4. OuterTypeOK'
      BY <1>6 DEF TryAgain
    <3> QED
      BY <3>1, <3>2, <3>3, <3>4
  <2>2. OwnershipInv'
    BY <1>6 DEF TryAgain
  <2> QED
    BY <2>1, <2>2
<1>7. CASE AcquisitionFailed
  BY <1>7 DEF AcquisitionFailed
<1>8. CASE Closeout
  BY <1>8 DEF Closeout
<1>9. CASE Reconcile
  BY <1>9 DEF Reconcile
<1>10. CASE Leave
  BY <1>10 DEF Leave
<1>11. CASE ScanEnds
  BY <1>11 DEF ScanEnds, Interrupted
<1>12. CASE ConnectSucceeds
  <2>1. TypeOK'
    <3>1. LockTypeOK'
      BY <1>12 DEF ConnectSucceeds, Interrupted
    <3>2. SectionTypeOK'
      BY <1>12 DEF ConnectSucceeds, Interrupted
    <3>3. ClientTypeOK'
      BY <1>12 DEF ConnectSucceeds, Interrupted
    <3>4. OuterTypeOK'
      BY <1>12 DEF ConnectSucceeds, Interrupted
    <3> QED
      BY <3>1, <3>2, <3>3, <3>4
  <2>2. OwnershipInv'
    BY <1>12 DEF ConnectSucceeds, Interrupted
  <2> QED
    BY <2>1, <2>2
<1>13. CASE ConnectFails
  <2>1. TypeOK'
    <3>1. LockTypeOK'
      BY <1>13 DEF ConnectFails
    <3>2. SectionTypeOK'
      BY <1>13 DEF ConnectFails
    <3>3. ClientTypeOK'
      BY <1>13 DEF ConnectFails
    <3>4. OuterTypeOK'
      BY <1>13 DEF ConnectFails
    <3> QED
      BY <3>1, <3>2, <3>3, <3>4
  <2>2. OwnershipInv'
    BY <1>13 DEF ConnectFails
  <2> QED
    BY <2>1, <2>2
<1>14. CASE CleanupSucceeds
  <2>1. TypeOK'
    <3>1. LockTypeOK'
      BY <1>14 DEF CleanupSucceeds, AfterCleanup, Interrupted
    <3>2. SectionTypeOK'
      BY <1>14 DEF CleanupSucceeds, AfterCleanup, Interrupted
    <3>3. ClientTypeOK'
      BY <1>14 DEF CleanupSucceeds, AfterCleanup, Interrupted
    <3>4. OuterTypeOK'
      BY <1>14 DEF CleanupSucceeds, AfterCleanup, Interrupted
    <3> QED
      BY <3>1, <3>2, <3>3, <3>4
  <2>2. OwnershipInv'
    BY <1>14 DEF CleanupSucceeds, AfterCleanup, Interrupted
  <2> QED
    BY <2>1, <2>2
<1>15. CASE CleanupFails
  BY <1>15 DEF CleanupFails, AfterCleanup, Interrupted
<1>16. CASE UseEnds
  BY <1>16 DEF UseEnds, Interrupted
<1>17. CASE CommitControl
  <2>1. TypeOK'
    <3>1. LockTypeOK'
      BY <1>17 DEF CommitControl
    <3>2. SectionTypeOK'
      BY <1>17 DEF CommitControl
    <3>3. ClientTypeOK'
      BY <1>17 DEF CommitControl
    <3>4. OuterTypeOK'
      BY <1>17 DEF CommitControl
    <3> QED
      BY <3>1, <3>2, <3>3, <3>4
  <2>2. OwnershipInv'
    BY <1>17 DEF CommitControl
  <2> QED
    BY <2>1, <2>2
<1>18. CASE ControlEnds
  <2>1. TypeOK'
    <3>1. LockTypeOK'
      BY <1>18 DEF ControlEnds
    <3>2. SectionTypeOK'
      BY <1>18 DEF ControlEnds
    <3>3. ClientTypeOK'
      BY <1>18 DEF ControlEnds
    <3>4. OuterTypeOK'
      BY <1>18 DEF ControlEnds
    <3> QED
      BY <3>1, <3>2, <3>3, <3>4
  <2>2. OwnershipInv'
    BY <1>18 DEF ControlEnds
  <2> QED
    BY <2>1, <2>2
<1>19. CASE ConfirmEnds
  BY <1>19 DEF ConfirmEnds
<1> QED
  BY <1>1, <1>2, <1>3, <1>4, <1>5, <1>6, <1>7, <1>8, <1>9, <1>10, <1>11, <1>12, <1>13, <1>14, <1>15, <1>16, <1>17, <1>18, <1>19
    DEF Section

(* A step of a caller, of async_stop or of the maintain loop outside the    *)
(* section, or of a task that unwinds.                                      *)
LEMMA TaskStep ==
    ASSUME IInv, Requests \/ RequestStop \/ StopTakesLock \/ Grant \/ Unwind
                 \/ MaintainLoop \/ \E t \in Callers : Cancel(t)
    PROVE  IInv'
<1> USE TasksAssumption
<1>1. ASSUME NEW t \in Callers, RequestSession(t) PROVE IInv'
  <2>1. TypeOK'
    <3>1. LockTypeOK'
      BY <1>1, AcquireTypes DEF IInv, TypeOK, LockTypeOK, RequestSession,
        Callers, Tasks, Callers, InventoryTask
    <3>2. SectionTypeOK'
      BY <1>1, AcquireTypes DEF IInv, TypeOK, SectionTypeOK, RequestSession,
        Callers, Tasks, Callers
    <3>3. ClientTypeOK'
      BY <1>1 DEF IInv, TypeOK, ClientTypeOK, RequestSession, Callers,
                 clientVars
    <3>4. OuterTypeOK'
      BY <1>1 DEF IInv, TypeOK, OuterTypeOK, RequestSession, Callers,
                 signalVars, outerVars
    <3> QED
      BY <3>1, <3>2, <3>3, <3>4 DEF TypeOK
  <2> QED
    BY <1>1, <2>1, AcquireTypes, OutsideStep DEF IInv, RequestSession,
        Callers, clientVars, signalVars, outerVars, Tasks, Callers
<1>2. ASSUME NEW t \in Callers, RequestControl(t) PROVE IInv'
  <2>1. TypeOK'
    <3>1. LockTypeOK'
      BY <1>2, AcquireTypes DEF IInv, TypeOK, LockTypeOK, RequestControl,
        Callers, Tasks, Callers, InventoryTask
    <3>2. SectionTypeOK'
      BY <1>2, AcquireTypes DEF IInv, TypeOK, SectionTypeOK, RequestControl,
        Callers, Tasks, Callers
    <3>3. ClientTypeOK'
      BY <1>2 DEF IInv, TypeOK, ClientTypeOK, RequestControl, Callers,
                 clientVars
    <3>4. OuterTypeOK'
      BY <1>2 DEF IInv, TypeOK, OuterTypeOK, RequestControl, Callers,
                 signalVars, outerVars
    <3> QED
      BY <3>1, <3>2, <3>3, <3>4 DEF TypeOK
  <2> QED
    BY <1>2, <2>1, AcquireTypes, OutsideStep DEF IInv, RequestControl,
        Callers, clientVars, signalVars, outerVars, Tasks, Callers
<1>3. ASSUME NEW t \in Callers, RequestInventory(t) PROVE IInv'
  <2>1. TypeOK'
    <3>1. LockTypeOK'
      BY <1>3, AcquireTypes DEF IInv, TypeOK, LockTypeOK, RequestInventory,
        Callers, Tasks, Callers, InventoryTask
    <3>2. SectionTypeOK'
      BY <1>3, AcquireTypes DEF IInv, TypeOK, SectionTypeOK, RequestInventory,
        Callers, Tasks, Callers
    <3>3. ClientTypeOK'
      BY <1>3 DEF IInv, TypeOK, ClientTypeOK, RequestInventory, Callers,
                 clientVars
    <3>4. OuterTypeOK'
      BY <1>3 DEF IInv, TypeOK, OuterTypeOK, RequestInventory, Callers,
                 signalVars, outerVars
    <3> QED
      BY <3>1, <3>2, <3>3, <3>4 DEF TypeOK
  <2> QED
    BY <1>3, <2>1, AcquireTypes, OutsideStep DEF IInv, RequestInventory,
        Callers, clientVars, signalVars, outerVars, Tasks, Callers
<1>4. ASSUME NEW t \in Callers, Cancel(t) PROVE IInv'
  <2>1. TypeOK'
    <3>1. LockTypeOK'
      BY <1>4 DEF IInv, TypeOK, LockTypeOK, Cancel, lockVars, sectionVars,
                 Tasks, Callers, InventoryTask
    <3>2. SectionTypeOK'
      BY <1>4 DEF IInv, TypeOK, SectionTypeOK, Cancel, lockVars, sectionVars
    <3>3. ClientTypeOK'
      BY <1>4 DEF IInv, TypeOK, ClientTypeOK, Cancel, lockVars, sectionVars,
                 clientVars
    <3>4. OuterTypeOK'
      BY <1>4 DEF IInv, TypeOK, OuterTypeOK, Cancel, lockVars, sectionVars,
                 signalVars, outerVars
    <3> QED
      BY <3>1, <3>2, <3>3, <3>4 DEF TypeOK
  <2> QED
    BY <1>4, <2>1, OutsideStep DEF IInv, Cancel, lockVars, sectionVars,
        clientVars, signalVars, outerVars
<1>5. CASE RequestStop
  <2>1. TypeOK'
    <3>1. LockTypeOK'
      BY <1>5 DEF IInv, TypeOK, LockTypeOK, RequestStop, lockVars,
                 sectionVars, InventoryTask, Callers, Tasks
    <3>2. SectionTypeOK'
      BY <1>5 DEF IInv, TypeOK, SectionTypeOK, RequestStop, lockVars,
                 sectionVars, InventoryTask, Callers
    <3>3. ClientTypeOK'
      BY <1>5 DEF IInv, TypeOK, ClientTypeOK, RequestStop, lockVars,
                 sectionVars, InventoryTask, Callers, clientVars
    <3>4. OuterTypeOK'
      BY <1>5 DEF IInv, TypeOK, OuterTypeOK, RequestStop, lockVars,
                 sectionVars, InventoryTask, Callers, signalVars, outerVars
    <3> QED
      BY <3>1, <3>2, <3>3, <3>4 DEF TypeOK
  <2> QED
    BY <1>5, <2>1, OutsideStep DEF IInv, RequestStop, lockVars, sectionVars,
        InventoryTask, Callers, clientVars, signalVars, outerVars
<1>6. CASE StopTakesLock
  <2>1. TypeOK'
    <3>1. LockTypeOK'
      BY <1>6, AcquireTypes DEF IInv, TypeOK, LockTypeOK, StopTakesLock, Tasks
    <3>2. SectionTypeOK'
      BY <1>6, AcquireTypes DEF IInv, TypeOK, SectionTypeOK, StopTakesLock,
        Tasks, Callers
    <3>3. ClientTypeOK'
      BY <1>6 DEF IInv, TypeOK, ClientTypeOK, StopTakesLock, clientVars
    <3>4. OuterTypeOK'
      BY <1>6 DEF IInv, TypeOK, OuterTypeOK, StopTakesLock, signalVars,
                 outerVars
    <3> QED
      BY <3>1, <3>2, <3>3, <3>4 DEF TypeOK
  <2> QED
    BY <1>6, <2>1, AcquireTypes, OutsideStep DEF IInv, StopTakesLock,
        clientVars, signalVars, outerVars, Tasks, Callers
<1>7. CASE RequestMaintenance
  <2>1. TypeOK'
    <3>1. LockTypeOK'
      BY <1>7, AcquireTypes DEF IInv, TypeOK, LockTypeOK, RequestMaintenance,
        lockVars, sectionVars, Tasks
    <3>2. SectionTypeOK'
      BY <1>7, AcquireTypes DEF IInv, TypeOK, SectionTypeOK,
        RequestMaintenance, lockVars, sectionVars, Tasks, Callers
    <3>3. ClientTypeOK'
      BY <1>7 DEF IInv, TypeOK, ClientTypeOK, RequestMaintenance, lockVars,
                 sectionVars, clientVars
    <3>4. OuterTypeOK'
      BY <1>7 DEF IInv, TypeOK, OuterTypeOK, RequestMaintenance, lockVars,
                 sectionVars, signalVars, outerVars
    <3> QED
      BY <3>1, <3>2, <3>3, <3>4 DEF TypeOK
  <2> QED
    BY <1>7, <2>1, AcquireTypes, OutsideStep DEF IInv, RequestMaintenance,
        lockVars, sectionVars, clientVars, signalVars, outerVars, Tasks,
        Callers
<1>8. CASE UnwindHolder
  <2>1. TypeOK'
    <3>1. LockTypeOK'
      BY <1>8 DEF IInv, TypeOK, LockTypeOK, UnwindHolder, GoTo, lockVars,
                 sectionVars, Awaits, Blocks, Tasks
    <3>2. SectionTypeOK'
      BY <1>8 DEF IInv, TypeOK, SectionTypeOK, UnwindHolder, GoTo, lockVars,
                 sectionVars, Awaits, Blocks
    <3>3. ClientTypeOK'
      BY <1>8 DEF IInv, TypeOK, ClientTypeOK, UnwindHolder, GoTo, lockVars,
                 sectionVars, Awaits, Blocks, clientVars
    <3>4. OuterTypeOK'
      BY <1>8 DEF IInv, TypeOK, OuterTypeOK, UnwindHolder, GoTo, lockVars,
                 sectionVars, Awaits, Blocks, signalVars, outerVars
    <3> QED
      BY <3>1, <3>2, <3>3, <3>4 DEF TypeOK
  <2> QED
    BY <1>8, <2>1, OutsideStep DEF IInv, UnwindHolder, GoTo, lockVars,
        sectionVars, Awaits, Blocks, clientVars, signalVars, outerVars
<1>9. CASE UnwindLoop
  <2>1. TypeOK'
    <3>1. LockTypeOK'
      BY <1>9 DEF IInv, TypeOK, LockTypeOK, UnwindLoop, lockVars, sectionVars,
                 Tasks
    <3>2. SectionTypeOK'
      BY <1>9 DEF IInv, TypeOK, SectionTypeOK, UnwindLoop, lockVars,
                 sectionVars
    <3>3. ClientTypeOK'
      BY <1>9 DEF IInv, TypeOK, ClientTypeOK, UnwindLoop, lockVars,
                 sectionVars, clientVars
    <3>4. OuterTypeOK'
      BY <1>9 DEF IInv, TypeOK, OuterTypeOK, UnwindLoop, lockVars,
                 sectionVars, signalVars, outerVars
    <3> QED
      BY <3>1, <3>2, <3>3, <3>4 DEF TypeOK
  <2> QED
    BY <1>9, <2>1, OutsideStep DEF IInv, UnwindLoop, lockVars, sectionVars,
        clientVars, signalVars, outerVars
<1>10. CASE LoopHearsDrop
  <2>1. TypeOK'
    <3>1. LockTypeOK'
      BY <1>10 DEF IInv, TypeOK, LockTypeOK, LoopHearsDrop, lockVars,
                  sectionVars, Tasks
    <3>2. SectionTypeOK'
      BY <1>10 DEF IInv, TypeOK, SectionTypeOK, LoopHearsDrop, lockVars,
                  sectionVars
    <3>3. ClientTypeOK'
      BY <1>10 DEF IInv, TypeOK, ClientTypeOK, LoopHearsDrop, lockVars,
                  sectionVars, clientVars
    <3>4. OuterTypeOK'
      BY <1>10 DEF IInv, TypeOK, OuterTypeOK, LoopHearsDrop, lockVars,
                  sectionVars, signalVars, outerVars
    <3> QED
      BY <3>1, <3>2, <3>3, <3>4 DEF TypeOK
  <2> QED
    BY <1>10, <2>1, OutsideStep DEF IInv, LoopHearsDrop, lockVars,
        sectionVars, clientVars, signalVars, outerVars
<1>11. CASE LoopWakes
  <2>1. TypeOK'
    <3>1. LockTypeOK'
      BY <1>11 DEF IInv, TypeOK, LockTypeOK, LoopWakes, lockVars, sectionVars,
                  Tasks
    <3>2. SectionTypeOK'
      BY <1>11 DEF IInv, TypeOK, SectionTypeOK, LoopWakes, lockVars,
                  sectionVars
    <3>3. ClientTypeOK'
      BY <1>11 DEF IInv, TypeOK, ClientTypeOK, LoopWakes, lockVars,
                  sectionVars, clientVars
    <3>4. OuterTypeOK'
      BY <1>11 DEF IInv, TypeOK, OuterTypeOK, LoopWakes, lockVars,
                  sectionVars, signalVars, outerVars
    <3> QED
      BY <3>1, <3>2, <3>3, <3>4 DEF TypeOK
  <2> QED
    BY <1>11, <2>1, OutsideStep DEF IInv, LoopWakes, lockVars, sectionVars,
        clientVars, signalVars, outerVars
<1>12. ASSUME NEW t \in Tasks, UnwindWaiter(t) PROVE IInv'
  <2>1. TypeOK'
    <3>1. LockTypeOK'
      BY <1>12, WithoutType DEF IInv, TypeOK, LockTypeOK, UnwindWaiter,
        Waiting, sectionVars, Tasks
    <3>2. SectionTypeOK'
      BY <1>12, WithoutType DEF IInv, TypeOK, SectionTypeOK, UnwindWaiter,
        Waiting, sectionVars
    <3>3. ClientTypeOK'
      BY <1>12 DEF IInv, TypeOK, ClientTypeOK, UnwindWaiter, Waiting,
                  sectionVars, clientVars
    <3>4. OuterTypeOK'
      BY <1>12 DEF IInv, TypeOK, OuterTypeOK, UnwindWaiter, Waiting,
                  sectionVars, signalVars, outerVars
    <3> QED
      BY <3>1, <3>2, <3>3, <3>4 DEF TypeOK
  <2> QED
    BY <1>12, <2>1, OutsideStep DEF IInv, UnwindWaiter, Waiting, sectionVars,
        clientVars, signalVars, outerVars
<1>13. CASE Grant
  <2>1. Head(queue) \in Tasks /\ queue' \in Seq(Tasks)
    BY <1>13 DEF IInv, TypeOK, LockTypeOK, Grant
  <2>2. owner' \in Tasks /\ SectionTypeOK' /\ pc' \in {"ensure", "closeout"}
    BY <1>13, <2>1, BeginTypes DEF Grant
  <2>3. TypeOK'
    BY <1>13, <2>1, <2>2 DEF IInv, TypeOK, LockTypeOK, ClientTypeOK,
       OuterTypeOK, Grant, clientVars, signalVars, outerVars
  <2> QED
    BY <1>13, <2>2, <2>3, OutsideStep DEF Grant, clientVars, signalVars
<1> QED
  BY <1>1, <1>2, <1>3, <1>4, <1>5, <1>6, <1>7, <1>8, <1>9, <1>10, <1>11, <1>12, <1>13
    DEF Requests, Unwind, MaintainLoop

(* A step of the Bluetooth backend.                                         *)
LEMMA BackendStep == ASSUME IInv, Backend PROVE IInv'
<1> USE MaxClientsAssumption
  DEF IInv, TypeOK, LockTypeOK, SectionTypeOK, ClientTypeOK, OuterTypeOK,
      OwnershipInv, EveryHandleIsOwned, OwnershipErrorsUnreachable,
      AnnouncedUpIsAccountedFor, SectionInv,
      Tasks, Callers, Clients, NoClient, LinkStates, Awaits, Blocks, Reasons,
      lockVars, sectionVars, clientVars, signalVars, outerVars,
      OwnedClient, IsConnected, LoopFree,
      GoTo, Teardown, Disconnect, Resume, Rest
<1>1. CASE LinkEstablished
  BY <1>1 DEF LinkEstablished
<1>2. ASSUME NEW c \in Clients, LinkDrops(c) PROVE IInv'
  BY <1>2 DEF LinkDrops
<1>3. ASSUME NEW c \in Clients, OnDisconnected(c) PROVE IInv'
  <2>1. TypeOK'
    <3>1. LockTypeOK'
      BY <1>3 DEF OnDisconnected
    <3>2. SectionTypeOK'
      BY <1>3 DEF OnDisconnected
    <3>3. ClientTypeOK'
      BY <1>3 DEF OnDisconnected
    <3>4. OuterTypeOK'
      BY <1>3 DEF OnDisconnected
    <3> QED
      BY <3>1, <3>2, <3>3, <3>4
  <2>2. OwnershipInv'
    BY <1>3 DEF OnDisconnected
  <2> QED
    BY <2>1, <2>2
<1> QED
  BY <1>1, <1>2, <1>3 DEF Backend

(* IInv holds at first and no step breaks it.                               *)
LEMMA InitInv == Init => IInv
<1> SUFFICES ASSUME Init PROVE IInv
  OBVIOUS
<1> USE TasksAssumption, MaxClientsAssumption DEF Init
<1>1. LockTypeOK
  BY DEF LockTypeOK
<1>2. SectionTypeOK
  BY DEF SectionTypeOK, Awaits, Blocks, Reasons
<1>3. ClientTypeOK
  BY DEF ClientTypeOK, Clients, NoClient, LinkStates
<1>4. OuterTypeOK
  BY DEF OuterTypeOK
<1>5. OwnershipInv
  BY DEF OwnershipInv, EveryHandleIsOwned, OwnershipErrorsUnreachable,
         AnnouncedUpIsAccountedFor, SectionInv, OwnedClient, NoClient, Clients
<1> QED
  BY <1>1, <1>2, <1>3, <1>4, <1>5 DEF IInv, TypeOK, OwnershipInv

LEMMA NextInv == IInv /\ [Next]_vars => IInv'
<1> SUFFICES ASSUME IInv, [Next]_vars PROVE IInv'
  OBVIOUS
<1>1. CASE UNCHANGED vars
  <2>1. LockTypeOK' /\ SectionTypeOK' /\ ClientTypeOK' /\ OuterTypeOK'
    BY <1>1 DEF IInv, TypeOK, LockTypeOK, SectionTypeOK, ClientTypeOK,
       OuterTypeOK, vars, lockVars, sectionVars, clientVars, signalVars, outerVars
  <2> QED
    BY <1>1, <2>1, OutsideStep DEF TypeOK, vars, sectionVars, clientVars, signalVars
<1> QED
  BY <1>1, SectionStep, TaskStep, BackendStep DEF Next

THEOREM Invariance == Spec => []IInv
<1>1. Spec => Init /\ [][Next]_vars
  BY DEF Spec
<1> QED
  BY <1>1, InitInv, NextInv, PTL

(* Every variable keeps its type, whatever callers and cancellations do.    *)
THEOREM TypeCorrect == Spec => []TypeOK
  BY Invariance, PTL DEF IInv

(* At every moment at most one client holds anything of the backend, and it *)
(* is the one `_client` or `_pending_client` names.                         *)
THEOREM HandlesOwned == Spec => []EveryHandleIsOwned
  BY Invariance, PTL DEF IInv

(* No RuntimeError of the ownership protocol is ever raised.                *)
THEOREM NoOwnershipErrors == Spec => []OwnershipErrorsUnreachable
  BY Invariance, PTL DEF IInv

(* A connectivity announcement is never stale for good.                     *)
THEOREM AnnouncementsTrue == Spec => []AnnouncedUpIsAccountedFor
  BY Invariance, PTL DEF IInv

----------------------------------------------------------------------------
(* The line of the lock: no task stands in it twice, or holds the lock too. *)
LineOK ==
    /\ \A i, j \in DOMAIN queue : queue[i] = queue[j] => i = j
    /\ ~Waiting(owner)

(* async_stop takes the lock when the maintain task is gone, and is never   *)
(* cancelled itself; what it found released stays so.                       *)
ShutdownOK ==
    /\ Stop \notin cancelled
    /\ ~Idle(Maintain) => loop = "inLock"
    /\ ~Idle(Stop) => stop = "inLock"
    /\ closing <=> stop # "notCalled"
    /\ stop \in {"inLock", "done", "failed"} => loop = "off"
    /\ stop = "done" => OwnedClient = NoClient

(* Whose section it is, and what an inventory does while control waits.     *)
CommandOK ==
    /\ committed \/ reconciling => owner \in Controls
    /\ pc \in {"reconcile", "confirming"} => reconciling

WaitersYield == \A t \in Inventories : Waiting(t) /\ ControlRequests # {} => t \in cancelled

YieldOK == InventoryYieldsToControl /\ WaitersYield

JInv == LineOK /\ ShutdownOK /\ CommandOK /\ YieldOK

(* Who joins the line was not in it, and is the only one to join.           *)
LEMMA AcquireLine ==
    ASSUME TypeOK, LineOK, NEW t \in Tasks, Idle(t), Acquire(t)
    PROVE  /\ LineOK'
           /\ \A u \in Tasks : Idle(u)' <=> Idle(u) /\ u # t
           /\ \/ /\ owner = NoTask /\ Begin(t)
                 /\ \A u : ~Waiting(u)'
              \/ /\ UNCHANGED <<owner, sectionVars>>
                 /\ \A u : Waiting(u)' <=> Waiting(u) \/ u = t
<1>1. queue \in Seq(Tasks) /\ t # owner /\ ~Waiting(t)
  BY DEF TypeOK, LockTypeOK, Idle
<1>2. CASE owner = NoTask /\ queue = <<>> /\ Begin(t) /\ UNCHANGED queue
  <2>1. \A u : ~Waiting(u) /\ ~Waiting(u)'
    BY <1>2 DEF Waiting
  <2>2. owner' = t
    BY <1>2 DEF Begin
  <2>3. \A u \in Tasks : Idle(u)' <=> Idle(u) /\ u # t
    BY <1>2, <2>1, <2>2, TasksAssumption DEF Idle
  <2> QED BY <1>2, <2>1, <2>2, <2>3 DEF LineOK
<1>3. CASE queue' = Append(queue, t) /\ UNCHANGED <<owner, sectionVars>>
  <2> DEFINE n == Len(queue)
  <2>1. /\ n \in Nat /\ DOMAIN queue = 1 .. n /\ DOMAIN queue' = 1 .. n + 1
        /\ queue'[n + 1] = t
        /\ \A i \in 1 .. n : queue'[i] = queue[i]
    BY <1>1, <1>3
  <2>2. ASSUME NEW u PROVE Waiting(u)' <=> Waiting(u) \/ u = t
    <3>1. CASE u = t
      BY <2>1, <3>1 DEF Waiting
    <3>2. CASE u # t
      <4>1. ASSUME Waiting(u)' PROVE Waiting(u)
        <5>1. PICK i \in 1 .. n + 1 : queue'[i] = u
          BY <2>1, <4>1 DEF Waiting
        <5>2. i \in 1 .. n
          BY <2>1, <3>2, <5>1
        <5> QED BY <2>1, <5>1, <5>2 DEF Waiting
      <4>2. ASSUME Waiting(u) PROVE Waiting(u)'
        <5>1. PICK i \in 1 .. n : queue[i] = u
          BY <2>1, <4>2 DEF Waiting
        <5>2. i \in 1 .. n + 1
          BY <2>1
        <5> QED BY <2>1, <5>1, <5>2 DEF Waiting
      <4> QED BY <3>2, <4>1, <4>2
    <3> QED BY <3>1, <3>2
  <2>3. ASSUME NEW i \in 1 .. n + 1, NEW j \in 1 .. n + 1, queue'[i] = queue'[j]
        PROVE  i = j
    <3>1. \A k \in 1 .. n : queue[k] # t
      BY <1>1, <2>1 DEF Waiting
    <3> QED BY <2>1, <2>3, <3>1 DEF LineOK
  <2>4. ~Waiting(owner)'
    BY <1>1, <1>3, <2>2 DEF LineOK
  <2>5. \A u \in Tasks : Idle(u)' <=> Idle(u) /\ u # t
    BY <1>3, <2>2 DEF Idle
  <2>6. LineOK'
    BY <2>1, <2>3, <2>4 DEF LineOK
  <2> QED BY <1>3, <2>2, <2>5, <2>6
<1> QED BY <1>2, <1>3 DEF Acquire

(* The first of the line takes the lock.                                    *)
LEMMA GrantLine ==
    ASSUME TypeOK, LineOK, owner = NoTask, queue # <<>>, Begin(Head(queue)),
           queue' = Tail(queue)
    PROVE  /\ LineOK'
           /\ owner' = Head(queue) /\ Waiting(Head(queue))
           /\ \A u : Waiting(u)' <=> Waiting(u) /\ u # Head(queue)
           /\ \A u \in Tasks : Idle(u)' <=> Idle(u)
<1> DEFINE n == Len(queue)
<1>1. /\ n \in Nat \ {0} /\ DOMAIN queue = 1 .. n /\ Head(queue) = queue[1]
      /\ DOMAIN queue' = 1 .. n - 1
      /\ \A i \in 1 .. n - 1 : queue'[i] = queue[i + 1]
  BY DEF TypeOK, LockTypeOK
<1>2. owner' = Head(queue)
  BY DEF Begin
<1>3. Waiting(Head(queue))
  BY <1>1 DEF Waiting
<1>4. ASSUME NEW u PROVE Waiting(u)' <=> Waiting(u) /\ u # Head(queue)
  <2>1. ASSUME Waiting(u)' PROVE Waiting(u) /\ u # Head(queue)
    <3>1. PICK i \in 1 .. n - 1 : queue'[i] = u
      BY <1>1, <2>1 DEF Waiting
    <3>2. i + 1 \in 1 .. n /\ queue[i + 1] = u /\ i + 1 # 1 /\ 1 \in 1 .. n
      BY <1>1, <3>1
    <3> QED BY <1>1, <3>2 DEF Waiting, LineOK
  <2>2. ASSUME Waiting(u), u # Head(queue) PROVE Waiting(u)'
    <3>1. PICK i \in 1 .. n : queue[i] = u
      BY <1>1, <2>2 DEF Waiting
    <3>2. PICK k \in 1 .. n - 1 : k + 1 = i
      <4>1. i - 1 \in 1 .. n - 1
        BY <1>1, <2>2, <3>1
      <4> QED BY <1>1, <4>1
    <3> QED BY <1>1, <3>1, <3>2 DEF Waiting
  <2> QED BY <2>1, <2>2
<1>5. ASSUME NEW i \in 1 .. n - 1, NEW j \in 1 .. n - 1, queue'[i] = queue'[j]
      PROVE  i = j
  <2>1. i + 1 \in 1 .. n /\ j + 1 \in 1 .. n /\ queue[i + 1] = queue[j + 1]
    BY <1>1, <1>5
  <2>2. i + 1 = j + 1
    BY <1>1, <2>1 DEF LineOK
  <2> QED BY <1>1, <2>2
<1>6. LineOK'
  BY <1>1, <1>2, <1>4, <1>5 DEF LineOK
<1>7. \A u \in Tasks : Idle(u)' <=> Idle(u)
  BY <1>2, <1>3, <1>4, TasksAssumption DEF Idle
<1> QED BY <1>2, <1>3, <1>4, <1>6, <1>7

(* A waiter leaves the line, and nobody else.                               *)
LEMMA WithoutLine ==
    ASSUME TypeOK, LineOK, NEW t \in Tasks, Waiting(t), queue' = Without(queue, t),
           UNCHANGED owner
    PROVE  /\ LineOK'
           /\ \A u : Waiting(u)' <=> Waiting(u) /\ u # t
           /\ \A u : Idle(u)' <=> Idle(u) \/ u = t
<1> DEFINE n == Len(queue)
           place == CHOOSE i \in DOMAIN queue : queue[i] = t
<1>1. n \in Nat /\ DOMAIN queue = 1 .. n
  BY DEF TypeOK, LockTypeOK
<1>2. place \in 1 .. n /\ queue[place] = t
  BY <1>1 DEF Waiting
<1>3. queue' = [i \in 1 .. n - 1 |-> IF i < place THEN queue[i] ELSE queue[i + 1]]
  BY DEF Without
<1> HIDE DEF place
<1>4. /\ DOMAIN queue' = 1 .. n - 1
      /\ \A i \in 1 .. n - 1 : queue'[i] = IF i < place THEN queue[i] ELSE queue[i + 1]
  BY <1>3
<1>5. ASSUME NEW u PROVE Waiting(u)' <=> Waiting(u) /\ u # t
  <2>1. ASSUME Waiting(u)' PROVE Waiting(u) /\ u # t
    <3>1. PICK i \in 1 .. n - 1 : queue'[i] = u
      BY <1>4, <2>1 DEF Waiting
    <3>2. PICK k \in 1 .. n : queue[k] = u /\ k # place
      <4>1. CASE i < place
        BY <1>1, <1>4, <3>1, <4>1
      <4>2. CASE ~(i < place)
        <5>1. i + 1 \in 1 .. n /\ i + 1 # place /\ queue[i + 1] = u
          BY <1>1, <1>2, <1>4, <3>1, <4>2
        <5> QED BY <5>1
      <4> QED BY <4>1, <4>2
    <3> QED BY <1>1, <1>2, <3>2 DEF Waiting, LineOK
  <2>2. ASSUME Waiting(u), u # t PROVE Waiting(u)'
    <3>1. PICK k \in 1 .. n : queue[k] = u
      BY <1>1, <2>2 DEF Waiting
    <3>2. CASE k < place
      <4>1. k \in 1 .. n - 1
        BY <1>1, <1>2, <3>2
      <4> QED BY <1>4, <3>1, <3>2, <4>1 DEF Waiting
    <3>3. CASE k > place
      <4>1. PICK m \in 1 .. n - 1 : m + 1 = k
        <5>1. k - 1 \in 1 .. n - 1
          BY <1>1, <1>2, <3>3
        <5> QED BY <1>1, <5>1
      <4>2. ~(m < place)
        BY <1>1, <1>2, <3>3, <4>1
      <4> QED BY <1>4, <3>1, <4>1, <4>2 DEF Waiting
    <3> QED BY <1>1, <1>2, <2>2, <3>1, <3>2, <3>3
  <2> QED BY <2>1, <2>2
<1>6. ASSUME NEW i \in 1 .. n - 1, NEW j \in 1 .. n - 1, queue'[i] = queue'[j]
      PROVE  i = j
  <2> DEFINE from(k) == IF k < place THEN k ELSE k + 1
  <2>1. \A k \in 1 .. n - 1 : from(k) \in 1 .. n /\ queue'[k] = queue[from(k)]
    BY <1>1, <1>2, <1>4
  <2>2. from(i) = from(j)
    <3> HIDE DEF from
    <3> QED BY <1>1, <1>6, <2>1 DEF LineOK
  <2> QED BY <1>1, <1>2, <2>2
<1>7. LineOK'
  BY <1>4, <1>5, <1>6 DEF LineOK
<1>8. \A u : Idle(u)' <=> Idle(u) \/ u = t
  BY <1>5 DEF Idle, LineOK
<1> QED BY <1>5, <1>7, <1>8

(* The tasks besides the callers are neither controls nor inventories.      *)
LEMMA WhoIsWho ==
    /\ Controls \subseteq Tasks /\ Inventories \subseteq Tasks
    /\ Maintain \in Tasks /\ Stop \in Tasks /\ Maintain # Stop
    /\ Stop \notin Callers /\ Stop \notin Inventories /\ Maintain \notin Callers
    /\ Controls \cap Inventories = {} /\ NoTask \notin Tasks
  BY TasksAssumption DEF Tasks, Callers

(* The section goes on: the lock keeps its holder, and an inventory that    *)
(* yields goes on yielding.                                                 *)
LEMMA SectionYields ==
    ASSUME IInv, JInv, Section, ~Leave
    PROVE  /\ UNCHANGED <<owner, queue, outerVars>>
           /\ CommandOK'
           /\ cancelled' \in {cancelled, cancelled \ {owner}}
           /\ owner \in Inventories =>
                 \/ cancelled' = cancelled /\ pc \notin {"closeout", "leave"}
                    /\ ~(pc = "cleaning" /\ after = "close")
                 \/ pc' \in {"closeout", "leave"}
                 \/ pc' = "cleaning" /\ after' = "close"
<1> USE WhoIsWho
    DEF JInv, CommandOK, Rest, GoTo, Teardown, Disconnect, Obtained, Resume,
        lockVars, sectionVars, clientVars, signalVars, outerVars, Awaits, Blocks
<1>1. CASE Ensure
  BY <1>1 DEF Ensure
<1>2. CASE Replace
  BY <1>2 DEF Replace
<1>3. CASE ResolveCandidate
  BY <1>3 DEF ResolveCandidate
<1>4. CASE OpenCandidate
  BY <1>4 DEF OpenCandidate
<1>5. CASE Adopt
  BY <1>5 DEF Adopt
<1>6. CASE TryAgain
  BY <1>6 DEF TryAgain
<1>7. CASE AcquisitionFailed
  BY <1>7 DEF AcquisitionFailed
<1>8. CASE Closeout
  BY <1>8 DEF Closeout
<1>9. CASE Reconcile
  BY <1>9 DEF Reconcile
<1>10. CASE ScanEnds
  BY <1>10 DEF ScanEnds
<1>11. CASE ConnectSucceeds
  BY <1>11 DEF ConnectSucceeds
<1>12. CASE ConnectFails
  BY <1>12 DEF ConnectFails
<1>13. CASE CleanupSucceeds \/ CleanupFails
  BY <1>13 DEF CleanupSucceeds, CleanupFails, AfterCleanup
<1>14. CASE UseEnds
  BY <1>14 DEF UseEnds
<1>15. CASE CommitControl
  BY <1>15 DEF CommitControl
<1>16. CASE ControlEnds
  BY <1>16 DEF ControlEnds
<1>17. CASE ConfirmEnds
  BY <1>17 DEF ConfirmEnds
<1> QED
  BY <1>1, <1>2, <1>3, <1>4, <1>5, <1>6, <1>7, <1>8, <1>9, <1>10, <1>11, <1>12, <1>13,
     <1>14, <1>15, <1>16, <1>17 DEF Section

(* Once the entry is closing no client comes into being.                    *)
LEMMA NothingComesBack ==
    ASSUME IInv, Next, closing, OwnedClient = NoClient
    PROVE  OwnedClient' = NoClient
<1> USE DEF OwnedClient, NoClient, clientVars
<1>1. CASE OpenCandidate
  BY <1>1 DEF OpenCandidate, GoTo
<1>2. CASE Adopt
  BY <1>2 DEF Adopt, GoTo, Teardown
<1>3. CASE Replace \/ Closeout \/ Reconcile
  BY <1>3 DEF Replace, Closeout, Reconcile, Disconnect, GoTo, Teardown
<1>4. CASE CleanupSucceeds \/ CleanupFails
  BY <1>4 DEF CleanupSucceeds, CleanupFails
<1>5. CASE Ensure \/ ResolveCandidate \/ TryAgain \/ AcquisitionFailed \/ Leave
           \/ ScanEnds \/ ConnectSucceeds \/ ConnectFails \/ UseEnds
           \/ CommitControl \/ ControlEnds \/ ConfirmEnds
  BY <1>5 DEF Ensure, ResolveCandidate, TryAgain, AcquisitionFailed, Leave,
     ScanEnds, ConnectSucceeds, ConnectFails, UseEnds, CommitControl,
     ControlEnds, ConfirmEnds
<1>6. CASE Requests \/ RequestStop \/ StopTakesLock \/ Grant \/ Unwind \/ MaintainLoop
           \/ Backend \/ \E t \in Callers : Cancel(t)
  BY <1>6 DEF Requests, RequestSession, RequestControl, RequestInventory, RequestStop,
     StopTakesLock, Grant, Unwind, UnwindHolder, UnwindLoop, UnwindWaiter, MaintainLoop,
     RequestMaintenance, LoopHearsDrop, LoopWakes, Cancel, Backend, LinkEstablished,
     LinkDrops, OnDisconnected
<1> QED BY <1>1, <1>2, <1>3, <1>4, <1>5, <1>6 DEF Next, Section

(* Whatever leaves the line and the loops alone keeps the shutdown in order. *)
LEMMA ShutdownStays ==
    ASSUME IInv, JInv, Next, UNCHANGED <<closing, stop, loop>>, Stop \notin cancelled',
           \A u \in {Maintain, Stop} : ~Idle(u)' => ~Idle(u)
    PROVE  ShutdownOK'
  BY NothingComesBack DEF JInv, ShutdownOK

(* A line in which nothing happened.                                        *)
LEMMA SameLine ==
    ASSUME LineOK, UNCHANGED <<owner, queue>>
    PROVE  /\ LineOK'
           /\ \A u : (Idle(u)' <=> Idle(u)) /\ (Waiting(u)' <=> Waiting(u))
           /\ ControlRequests' = ControlRequests
  BY DEF LineOK, Idle, Waiting, ControlRequests

(* The critical section, but for its end.                                   *)
LEMMA SectionStepJ == ASSUME IInv, JInv, Section, ~Leave PROVE JInv'
<1>1. /\ UNCHANGED <<owner, queue, outerVars>> /\ CommandOK'
      /\ cancelled' \subseteq cancelled /\ cancelled \ {owner} \subseteq cancelled'
  BY SectionYields
<1>2. /\ LineOK' /\ ControlRequests' = ControlRequests
      /\ \A u : (Idle(u)' <=> Idle(u)) /\ (Waiting(u)' <=> Waiting(u))
  BY <1>1, SameLine DEF JInv
<1>3. ShutdownOK'
  BY <1>1, <1>2, ShutdownStays DEF Next, JInv, ShutdownOK, outerVars
<1>4. InventoryYieldsToControl'
  BY <1>1, <1>2, SectionYields DEF JInv, YieldOK, InventoryYieldsToControl
<1>5. WaitersYield'
  BY <1>1, <1>2 DEF JInv, LineOK, YieldOK, WaitersYield
<1> QED BY <1>1, <1>2, <1>3, <1>4, <1>5 DEF JInv, YieldOK

(* The end of the section.                                                  *)
LEMMA LeaveStepJ == ASSUME IInv, JInv, Leave PROVE JInv'
<1>1. /\ owner' = NoTask /\ UNCHANGED <<queue, closing, clientVars>>
      /\ cancelled' = cancelled \ {owner} /\ pc' = "free" /\ ~committed' /\ ~reconciling'
      /\ owner # Maintain => loop' = loop
      /\ owner # Stop => stop' = stop
      /\ owner = Stop => stop' \in {"done", "failed"}
                         /\ (stop' = "done" => OwnedClient = NoClient)
  BY DEF Leave
<1>2. \A u : Waiting(u)' <=> Waiting(u)
  BY <1>1 DEF Waiting
<1>3. \A u \in Tasks : Idle(u)' <=> Idle(u) \/ u = owner
  BY <1>1, <1>2, WhoIsWho DEF JInv, LineOK, Idle
<1>4. LineOK'
  <2>1. ~Waiting(NoTask)
    BY WhoIsWho DEF IInv, TypeOK, LockTypeOK, Waiting
  <2> QED BY <1>1, <1>2, <2>1 DEF JInv, LineOK
<1>5. ShutdownOK'
  <2>1. ~Idle(owner)
    BY DEF Idle
  <2>2. owner = Maintain => loop = "inLock" /\ stop \notin {"inLock", "done", "failed"}
    BY <2>1 DEF JInv, ShutdownOK
  <2>3. owner = Stop => stop = "inLock" /\ loop = "off"
    BY <2>1 DEF JInv, ShutdownOK
  <2>4. OwnedClient' = OwnedClient
    BY <1>1 DEF OwnedClient, clientVars
  <2> QED BY <1>1, <1>3, <2>2, <2>3, <2>4, WhoIsWho DEF JInv, ShutdownOK
<1>6. CommandOK'
  BY <1>1 DEF CommandOK
<1>7. InventoryYieldsToControl'
  BY <1>1, WhoIsWho DEF InventoryYieldsToControl
<1>8. WaitersYield'
  <2>1. ControlRequests' \subseteq ControlRequests
    BY <1>3, WhoIsWho DEF ControlRequests
  <2> QED BY <1>1, <1>2, <2>1 DEF JInv, LineOK, YieldOK, WaitersYield
<1> QED BY <1>4, <1>5, <1>6, <1>7, <1>8 DEF JInv, YieldOK

(* Steps that leave the lock and its section alone, and at most cancel.     *)
LEMMA QuietStepJ ==
    ASSUME IInv, JInv, Next, UNCHANGED <<owner, queue, sectionVars, closing, stop>>,
           loop' = loop \/ (Idle(Maintain) /\ (loop' = "off" \/ loop # "off")),
           Stop \notin cancelled', cancelled \cap Inventories \subseteq cancelled'
    PROVE  JInv'
<1>1. /\ LineOK' /\ ControlRequests' = ControlRequests
      /\ \A u : (Idle(u)' <=> Idle(u)) /\ (Waiting(u)' <=> Waiting(u))
  BY SameLine DEF JInv
<1>2. ShutdownOK'
  BY <1>1, NothingComesBack DEF JInv, ShutdownOK
<1>3. CommandOK'
  BY DEF JInv, CommandOK, sectionVars
<1>4. InventoryYieldsToControl'
  BY <1>1 DEF JInv, YieldOK, InventoryYieldsToControl, sectionVars
<1>5. WaitersYield'
  BY <1>1 DEF JInv, YieldOK, WaitersYield
<1> QED BY <1>1, <1>2, <1>3, <1>4, <1>5 DEF JInv, YieldOK

(* A request that takes or waits for the lock.  Only a command finds an     *)
(* inventory before it, and it cancels that one.                            *)
LEMMA JoinStepJ ==
    ASSUME IInv, JInv, Next, NEW t \in Tasks, Idle(t), Acquire(t), UNCHANGED closing,
           Stop \notin cancelled', cancelled \subseteq cancelled',
           t \in Controls => InventoryTask \subseteq cancelled',
           t \in Inventories => ControlRequests = {},
           t = Maintain => loop' = "inLock" /\ loop = "ready",
           t # Maintain => UNCHANGED loop,
           t = Stop => stop' = "inLock" /\ loop = "off" /\ stop # "notCalled",
           t # Stop => UNCHANGED stop
    PROVE  JInv'
<1>1. /\ LineOK'
      /\ \A u \in Tasks : Idle(u)' <=> Idle(u) /\ u # t
      /\ \/ /\ owner = NoTask /\ Begin(t)
            /\ \A u : ~Waiting(u)'
         \/ /\ UNCHANGED <<owner, sectionVars>>
            /\ \A u : Waiting(u)' <=> Waiting(u) \/ u = t
  BY AcquireLine DEF IInv, JInv
<1>2. ShutdownOK'
  BY <1>1, NothingComesBack, WhoIsWho DEF JInv, ShutdownOK
<1>3. CommandOK'
  BY <1>1 DEF JInv, CommandOK, Begin, sectionVars
<1>4. /\ t \notin Controls => ControlRequests' = ControlRequests
      /\ t \in Controls => \A u \in Inventories : ~Idle(u) => u \in cancelled'
  BY <1>1, WhoIsWho DEF ControlRequests, InventoryTask
<1>5. InventoryYieldsToControl'
  <2>1. CASE owner = NoTask /\ Begin(t)
    <3>1. owner' = t
      BY <2>1 DEF Begin
    <3> QED BY <1>4, <3>1, WhoIsWho DEF InventoryYieldsToControl
  <2>2. CASE UNCHANGED <<owner, sectionVars>>
    BY <1>4, <2>2 DEF JInv, YieldOK, InventoryYieldsToControl, sectionVars, Idle
  <2> QED BY <1>1, <2>1, <2>2
<1>6. WaitersYield'
  BY <1>1, <1>4, WhoIsWho DEF JInv, YieldOK, WaitersYield, Idle
<1> QED BY <1>1, <1>2, <1>3, <1>5, <1>6 DEF JInv, YieldOK

(* The first of the line starts: an inventory only if no command waits.     *)
LEMMA GrantStepJ == ASSUME IInv, JInv, Grant PROVE JInv'
<1> DEFINE h == Head(queue)
<1>1. /\ owner = NoTask /\ queue # <<>> /\ h \notin cancelled /\ Begin(h)
      /\ queue' = Tail(queue) /\ UNCHANGED <<cancelled, closing, loop, stop>>
  BY DEF Grant, outerVars
<1>2. /\ LineOK' /\ owner' = h /\ Waiting(h)
      /\ \A u : Waiting(u)' <=> Waiting(u) /\ u # h
      /\ \A u \in Tasks : Idle(u)' <=> Idle(u)
  BY <1>1, GrantLine DEF IInv, JInv
<1> HIDE DEF h
<1>3. ShutdownOK'
  BY <1>1, <1>2, WhoIsWho, ShutdownStays DEF Next, JInv, ShutdownOK
<1>4. CommandOK'
  BY <1>1 DEF CommandOK, Begin
<1>5. ControlRequests' = ControlRequests
  BY <1>2, WhoIsWho DEF ControlRequests
<1>6. InventoryYieldsToControl'
  BY <1>1, <1>2, <1>5 DEF JInv, YieldOK, WaitersYield, InventoryYieldsToControl
<1>7. WaitersYield'
  BY <1>1, <1>2, <1>5 DEF JInv, YieldOK, WaitersYield
<1> QED BY <1>2, <1>3, <1>4, <1>6, <1>7 DEF JInv, YieldOK

(* The holder unwinds: an inventory goes to its final disconnect.           *)
LEMMA UnwindHolderStepJ == ASSUME IInv, JInv, UnwindHolder PROVE JInv'
<1>1. /\ UNCHANGED <<owner, queue, committed, reconciling, closing, loop, stop>>
      /\ cancelled' = cancelled \ {owner}
      /\ pc' \notin {"reconcile", "confirming"} \/ pc' = pc
      /\ owner \in Inventories => pc' = "closeout"
  BY WhoIsWho DEF UnwindHolder, GoTo, lockVars, sectionVars, outerVars, JInv, CommandOK
<1>2. /\ LineOK' /\ ControlRequests' = ControlRequests
      /\ \A u : (Idle(u)' <=> Idle(u)) /\ (Waiting(u)' <=> Waiting(u))
  BY <1>1, SameLine DEF JInv
<1>3. ShutdownOK'
  BY <1>1, <1>2, ShutdownStays DEF Next, Unwind, JInv, ShutdownOK
<1>4. CommandOK'
  BY <1>1 DEF JInv, CommandOK
<1>5. InventoryYieldsToControl'
  BY <1>1 DEF InventoryYieldsToControl
<1>6. WaitersYield'
  BY <1>1, <1>2 DEF JInv, LineOK, YieldOK, WaitersYield
<1> QED BY <1>2, <1>3, <1>4, <1>5, <1>6 DEF JInv, YieldOK

(* A waiter gives up: it is then neither cancelled nor in the line.         *)
LEMMA UnwindWaiterStepJ == ASSUME IInv, JInv, NEW t \in Tasks, UnwindWaiter(t) PROVE JInv'
<1>1. /\ UNCHANGED <<owner, sectionVars, closing, stop>> /\ t \in cancelled
      /\ Waiting(t) /\ queue' = Without(queue, t) /\ cancelled' = cancelled \ {t}
      /\ loop' = IF t = Maintain THEN "off" ELSE loop
  BY DEF UnwindWaiter
<1>2. /\ LineOK'
      /\ \A u : Waiting(u)' <=> Waiting(u) /\ u # t
      /\ \A u : Idle(u)' <=> Idle(u) \/ u = t
  BY <1>1, WithoutLine DEF IInv, JInv
<1>3. ShutdownOK'
  BY <1>1, <1>2, NothingComesBack DEF Next, Unwind, JInv, ShutdownOK
<1>4. CommandOK'
  BY <1>1 DEF JInv, CommandOK, sectionVars
<1>5. ControlRequests' \subseteq ControlRequests /\ t # owner
  BY <1>1, <1>2 DEF ControlRequests, JInv, LineOK
<1>6. InventoryYieldsToControl'
  BY <1>1, <1>5 DEF JInv, YieldOK, InventoryYieldsToControl, sectionVars
<1>7. WaitersYield'
  BY <1>1, <1>2, <1>5 DEF JInv, YieldOK, WaitersYield
<1> QED BY <1>2, <1>3, <1>4, <1>6, <1>7 DEF JInv, YieldOK

(* async_stop announces itself.                                             *)
LEMMA StopStepJ == ASSUME IInv, JInv, RequestStop PROVE JInv'
<1>1. /\ UNCHANGED <<owner, queue, sectionVars, clientVars, loop>>
      /\ stop = "notCalled" /\ stop' = "joining" /\ closing'
      /\ cancelled \subseteq cancelled' /\ Stop \notin cancelled'
  BY WhoIsWho DEF RequestStop, InventoryTask, lockVars, JInv, ShutdownOK
<1>2. /\ LineOK' /\ ControlRequests' = ControlRequests
      /\ \A u : (Idle(u)' <=> Idle(u)) /\ (Waiting(u)' <=> Waiting(u))
  BY <1>1, SameLine DEF JInv
<1>3. ShutdownOK'
  BY <1>1, <1>2 DEF JInv, ShutdownOK
<1>4. CommandOK' /\ InventoryYieldsToControl' /\ WaitersYield'
  BY <1>1, <1>2 DEF JInv, YieldOK, CommandOK, InventoryYieldsToControl, WaitersYield,
                    sectionVars
<1> QED BY <1>2, <1>3, <1>4 DEF JInv, YieldOK

(* Whoever asks for the lock.                                               *)
LEMMA RequestStepJ ==
    ASSUME IInv, JInv, Requests \/ StopTakesLock \/ RequestMaintenance PROVE JInv'
<1>1. ASSUME NEW t \in Callers, RequestSession(t) PROVE JInv'
  <2>1. /\ Idle(t) /\ Acquire(t) /\ UNCHANGED <<cancelled, closing, loop, stop>>
        /\ t \in Tasks /\ t \notin Controls /\ t \notin Inventories
        /\ t # Maintain /\ t # Stop
    BY <1>1, TasksAssumption DEF RequestSession, outerVars, Callers, Tasks
  <2> QED BY <1>1, <2>1, JoinStepJ DEF Next, Requests, JInv, ShutdownOK
<1>2. ASSUME NEW t \in Callers, RequestControl(t) PROVE JInv'
  <2>1. /\ Idle(t) /\ Acquire(t) /\ UNCHANGED <<closing, loop, stop>>
        /\ cancelled' = cancelled \cup InventoryTask
        /\ t \in Tasks /\ t \notin Inventories /\ t # Maintain /\ t # Stop
    BY <1>2, WhoIsWho DEF RequestControl, outerVars
  <2>2. Stop \notin cancelled'
    BY <2>1, WhoIsWho DEF InventoryTask, JInv, ShutdownOK
  <2> QED BY <1>2, <2>1, <2>2, JoinStepJ DEF Next, Requests
<1>3. ASSUME NEW t \in Callers, RequestInventory(t) PROVE JInv'
  <2>1. /\ Acquire(t) /\ UNCHANGED <<cancelled, closing, loop, stop>>
        /\ InventoryTask = {} /\ ControlRequests = {} /\ t \in Inventories
        /\ t \in Tasks /\ t \notin Controls /\ t # Maintain /\ t # Stop
    BY <1>3, WhoIsWho DEF RequestInventory, outerVars
  <2>2. Idle(t)
    BY <2>1 DEF InventoryTask
  <2> QED BY <1>3, <2>1, <2>2, JoinStepJ DEF Next, Requests, JInv, ShutdownOK
<1>4. CASE StopTakesLock
  <2>1. /\ Acquire(Stop) /\ UNCHANGED <<cancelled, closing, loop>>
        /\ stop = "joining" /\ loop = "off" /\ stop' = "inLock"
        /\ Stop \in Tasks /\ Stop \notin Controls /\ Stop \notin Inventories /\ Stop # Maintain
    BY <1>4, WhoIsWho DEF StopTakesLock, Callers
  <2>2. Idle(Stop) /\ Stop \notin cancelled
    BY <2>1 DEF JInv, ShutdownOK
  <2> QED BY <1>4, <2>1, <2>2, JoinStepJ DEF Next
<1>5. CASE RequestMaintenance
  <2>1. loop = "ready" /\ Idle(Maintain) /\ UNCHANGED <<cancelled, closing, stop>>
        /\ Stop \notin cancelled
    BY <1>5 DEF RequestMaintenance, JInv, ShutdownOK
  <2>2. CASE closing
    <3>1. UNCHANGED <<owner, queue, sectionVars>> /\ loop' = "off"
      BY <1>5, <2>2 DEF RequestMaintenance, lockVars
    <3> QED BY <1>5, <2>1, <3>1, QuietStepJ DEF Next, MaintainLoop
  <2>3. CASE ~closing
    <3>1. Acquire(Maintain) /\ loop' = "inLock"
      BY <1>5, <2>3 DEF RequestMaintenance
    <3>2. /\ Maintain \in Tasks /\ Maintain \notin Controls /\ Maintain \notin Inventories
          /\ Maintain # Stop
      BY WhoIsWho DEF Callers
    <3> QED BY <1>5, <2>1, <3>1, <3>2, JoinStepJ DEF Next, MaintainLoop
  <2> QED BY <2>2, <2>3
<1> QED BY <1>1, <1>2, <1>3, <1>4, <1>5 DEF Requests

(* Everything that happens beside the lock.                                 *)
LEMMA BesideStepJ ==
    ASSUME IInv, JInv,
           Backend \/ UnwindLoop \/ LoopHearsDrop \/ LoopWakes \/ \E t \in Callers : Cancel(t)
    PROVE  JInv'
<1>1. CASE Backend
  <2>1. UNCHANGED <<owner, queue, sectionVars, cancelled, closing, stop, loop>>
    BY <1>1 DEF Backend, LinkEstablished, LinkDrops, OnDisconnected, lockVars, outerVars
  <2> QED BY <1>1, <2>1, QuietStepJ DEF Next, JInv, ShutdownOK
<1>2. CASE UnwindLoop
  <2>1. /\ UNCHANGED <<owner, queue, sectionVars, closing, stop>>
        /\ cancelled' = cancelled \ {Maintain}
        /\ loop' = "off" /\ loop \in {"ready", "listening", "asleep"}
    BY <1>2 DEF UnwindLoop, lockVars
  <2>2. Idle(Maintain) /\ Stop \notin cancelled' /\ Maintain \notin Inventories
    BY <2>1, WhoIsWho DEF JInv, ShutdownOK, Callers
  <2> QED BY <1>2, <2>1, <2>2, QuietStepJ DEF Next, Unwind
<1>3. CASE LoopHearsDrop \/ LoopWakes
  <2>1. /\ UNCHANGED <<owner, queue, sectionVars, cancelled, closing, stop>>
        /\ loop \in {"listening", "asleep"} /\ loop' \in {"asleep", "ready"}
    BY <1>3 DEF LoopHearsDrop, LoopWakes, lockVars
  <2>2. Idle(Maintain) /\ Stop \notin cancelled'
    BY <2>1 DEF JInv, ShutdownOK
  <2> QED BY <1>3, <2>1, <2>2, QuietStepJ DEF Next, MaintainLoop
<1>4. ASSUME NEW t \in Callers, Cancel(t) PROVE JInv'
  <2>1. UNCHANGED <<owner, queue, sectionVars, closing, stop, loop>>
        /\ cancelled' = cancelled \cup {t}
    BY <1>4 DEF Cancel, lockVars, outerVars
  <2>2. Stop \notin cancelled'
    BY <2>1, WhoIsWho DEF JInv, ShutdownOK
  <2> QED BY <1>4, <2>1, <2>2, QuietStepJ DEF Next
<1> QED BY <1>1, <1>2, <1>3, <1>4

(* The same for all of them.                                                *)
LEMMA NextJ == IInv /\ JInv /\ [Next]_vars => JInv'
<1> SUFFICES ASSUME IInv, JInv, [Next]_vars PROVE JInv'
  OBVIOUS
<1>1. CASE UNCHANGED vars
  <2>1. /\ LineOK' /\ ControlRequests' = ControlRequests
        /\ \A u : (Idle(u)' <=> Idle(u)) /\ (Waiting(u)' <=> Waiting(u))
    BY <1>1, SameLine DEF vars, lockVars, JInv
  <2>2. UNCHANGED <<owner, sectionVars, cancelled, clientVars, outerVars>>
    BY <1>1 DEF vars, lockVars
  <2>3. ShutdownOK'
    BY <2>1, <2>2 DEF clientVars, outerVars, JInv, ShutdownOK, OwnedClient
  <2>4. CommandOK' /\ InventoryYieldsToControl' /\ WaitersYield'
    BY <2>1, <2>2 DEF sectionVars, JInv, YieldOK, CommandOK, InventoryYieldsToControl,
                      WaitersYield
  <2> QED BY <2>1, <2>3, <2>4 DEF JInv, YieldOK
<1> QED
  BY <1>1, SectionStepJ, LeaveStepJ, GrantStepJ, UnwindHolderStepJ, UnwindWaiterStepJ,
     StopStepJ, RequestStepJ, BesideStepJ DEF Next, Unwind, MaintainLoop

LEMMA InitJ == Init => JInv
<1> SUFFICES ASSUME Init PROVE JInv
  OBVIOUS
<1>1. \A u : ~Waiting(u)
  BY DEF Init, Waiting
<1>2. \A u \in Tasks : Idle(u)
  BY <1>1, WhoIsWho DEF Init, Idle
<1> QED BY <1>1, <1>2, WhoIsWho
        DEF Init, JInv, LineOK, ShutdownOK, CommandOK, YieldOK, InventoryYieldsToControl,
            WaitersYield, NoClient

LEMMA InvarianceJ == Spec => []JInv
<1>1. Spec => Init /\ [][Next]_vars
  BY DEF Spec
<1> QED
  BY <1>1, InitJ, NextJ, Invariance, PTL

(* Explicit control never waits for an inventory read that was not told to  *)
(* stop, however callers arrive, are cancelled and give up the line.        *)
THEOREM InventoriesYield == Spec => []InventoryYieldsToControl
  BY InvarianceJ, PTL DEF JInv, YieldOK

(* After an async_stop without an error nothing is held, and nothing comes. *)
THEOREM StopIsClean == Spec => []StopLeavesNothing
<1>1. IInv /\ JInv => StopLeavesNothing
  <2> SUFFICES ASSUME IInv, JInv, stop = "done" PROVE StopLeavesNothing
    BY DEF StopLeavesNothing
  <2>1. OwnedClient = NoClient /\ loop = "off"
    BY DEF JInv, ShutdownOK
  <2>2. \A c \in Clients : c # NoClient
    BY MaxClientsAssumption DEF Clients, NoClient
  <2> QED BY <2>1, <2>2 DEF IInv, EveryHandleIsOwned, StopLeavesNothing
<1> QED BY <1>1, Invariance, InvarianceJ, PTL

----------------------------------------------------------------------------
(* Who is using a client does not reconcile, and only async_stop has a last *)
(* chance: what keeps a section from starting over.                         *)
RetryOK ==
    /\ pc = "using" => ~reconciling
    /\ after = "lastChance" => owner = Stop

LEMMA SectionRetry == ASSUME RetryOK, Section PROVE RetryOK'
<1> USE DEF RetryOK, Rest, GoTo, Teardown, Disconnect, Obtained, Resume
<1>1. CASE Ensure \/ Replace \/ ResolveCandidate
  BY <1>1 DEF Ensure, Replace, ResolveCandidate
<1>2. CASE OpenCandidate \/ Adopt \/ TryAgain
  BY <1>2 DEF OpenCandidate, Adopt, TryAgain
<1>3. CASE AcquisitionFailed \/ Closeout \/ Reconcile \/ Leave
  BY <1>3 DEF AcquisitionFailed, Closeout, Reconcile, Leave
<1>4. CASE ScanEnds \/ ConnectSucceeds \/ ConnectFails
  BY <1>4 DEF ScanEnds, ConnectSucceeds, ConnectFails
<1>5. CASE CleanupSucceeds \/ CleanupFails
  BY <1>5 DEF CleanupSucceeds, CleanupFails, AfterCleanup
<1>6. CASE UseEnds \/ CommitControl \/ ControlEnds \/ ConfirmEnds
  BY <1>6 DEF UseEnds, CommitControl, ControlEnds, ConfirmEnds
<1> QED BY <1>1, <1>2, <1>3, <1>4, <1>5, <1>6 DEF Section

(* What a step outside the section does to it: nothing, or a fresh start    *)
(* for whoever finds the lock free, or the holder is sent to its end.       *)
LEMMA BesideTheSection ==
    ASSUME Next, ~Section
    PROVE  \/ UNCHANGED <<owner, sectionVars>>
           \/ (queue = <<>> /\ \E t \in Tasks : Begin(t))
           \/ Grant
           \/ UnwindHolder
<1>1. ASSUME NEW t \in Tasks, Acquire(t)
      PROVE  UNCHANGED <<owner, sectionVars>> \/ (queue = <<>> /\ Begin(t))
  BY <1>1 DEF Acquire
<1>2. ASSUME NEW t \in Callers, RequestSession(t) \/ RequestControl(t) \/ RequestInventory(t)
      PROVE  Acquire(t) /\ t \in Tasks
  BY <1>2 DEF RequestSession, RequestControl, RequestInventory, Tasks
<1>3. CASE StopTakesLock
  BY <1>1, <1>3 DEF StopTakesLock, Tasks
<1>4. CASE RequestMaintenance
  BY <1>1, <1>4 DEF RequestMaintenance, Tasks, lockVars
<1>5. ASSUME NEW t \in Tasks, UnwindWaiter(t) PROVE UNCHANGED <<owner, sectionVars>>
  BY <1>5 DEF UnwindWaiter
<1>6. CASE RequestStop \/ UnwindLoop \/ LoopHearsDrop \/ LoopWakes \/ Backend
           \/ \E t \in Callers : Cancel(t)
  BY <1>6 DEF RequestStop, UnwindLoop, LoopHearsDrop, LoopWakes, Backend, LinkEstablished,
     LinkDrops, OnDisconnected, Cancel, lockVars
<1> QED BY <1>1, <1>2, <1>3, <1>4, <1>5, <1>6 DEF Next, Requests, Unwind, MaintainLoop

LEMMA NextRetry == RetryOK /\ [Next]_vars => RetryOK'
<1> SUFFICES ASSUME RetryOK, [Next]_vars PROVE RetryOK'
  OBVIOUS
<1>1. CASE UNCHANGED <<owner, sectionVars>>
  BY <1>1 DEF RetryOK, sectionVars
<1>2. CASE Grant \/ \E t \in Tasks : Begin(t)
  BY <1>2 DEF RetryOK, Grant, Begin
<1>3. CASE UnwindHolder
  BY <1>3 DEF RetryOK, UnwindHolder, GoTo, lockVars, sectionVars
<1>4. CASE UNCHANGED vars
  BY <1>1, <1>4 DEF vars, lockVars
<1> QED BY <1>1, <1>2, <1>3, <1>4, SectionRetry, BesideTheSection

LEMMA InvarianceRetry == Spec => []RetryOK
<1>1. Spec => Init /\ [][Next]_vars
  BY DEF Spec
<1>2. Init => RetryOK
  BY DEF Init, RetryOK
<1> QED BY <1>1, <1>2, NextRetry, PTL

(* How much work is left is a number, and depends on the section only.      *)
LEMMA WorkIsANumber == WorkLeft \in Nat
<1>1. PlacesLeft \in Nat
  BY DEF PlacesLeft, SecondTry
<1> QED BY <1>1 DEF WorkLeft

LEMMA SameWork == UNCHANGED sectionVars => WorkLeft' = WorkLeft
  BY DEF sectionVars, WorkLeft, PlacesLeft, SecondTry

(* Every step of the section, and an unwinding holder, leaves less to do.   *)
LEMMA SectionWork == ASSUME SectionTypeOK, RetryOK, Section PROVE WorkLeft' < WorkLeft
<1> USE DEF WorkLeft, PlacesLeft, SecondTry, GoTo, Teardown, Disconnect, Resume
<1>1. CASE Ensure
  BY <1>1 DEF Ensure
<1>2. CASE Replace
  BY <1>2 DEF Replace, Obtained
<1>3. CASE ResolveCandidate
  BY <1>3 DEF ResolveCandidate
<1>4. CASE OpenCandidate
  BY <1>4 DEF OpenCandidate
<1>5. CASE Adopt
  BY <1>5 DEF Adopt, Obtained
<1>6. CASE TryAgain
  BY <1>6 DEF TryAgain
<1>7. CASE AcquisitionFailed
  BY <1>7 DEF AcquisitionFailed
<1>8. CASE Closeout
  BY <1>8 DEF Closeout
<1>9. CASE Reconcile
  BY <1>9 DEF Reconcile
<1>10. CASE Leave
  BY <1>10 DEF Leave
<1>11. CASE ScanEnds
  BY <1>11 DEF ScanEnds
<1>12. CASE ConnectSucceeds
  BY <1>12 DEF ConnectSucceeds
<1>13. CASE ConnectFails
  BY <1>13 DEF ConnectFails
<1>14. CASE CleanupSucceeds \/ CleanupFails
  <2>1. after = "lastChance" => owner = Stop
    BY DEF RetryOK
  <2>2. Stop \notin Inventories
    BY WhoIsWho
  <2>3. /\ pc = "cleaning"
        /\ \/ owner \in Inventories /\ after # "close" /\ GoTo("closeout")
           \/ GoTo("leave")
           \/ \E ok \in BOOLEAN : GoTo(Resume(after, ok))
    <3> HIDE DEF GoTo, Resume
    <3> QED BY <1>14 DEF CleanupSucceeds, CleanupFails, AfterCleanup
  <2>4. CASE owner \in Inventories /\ after # "close" /\ GoTo("closeout")
    BY <2>1, <2>2, <2>3, <2>4 DEF SectionTypeOK, Reasons
  <2>5. CASE GoTo("leave")
    BY <2>3, <2>5
  <2>6. ASSUME NEW ok \in BOOLEAN, GoTo(Resume(after, ok)) PROVE WorkLeft' < WorkLeft
    BY <2>3, <2>6
  <2> QED BY <2>3, <2>4, <2>5, <2>6
<1>15. CASE UseEnds
  BY <1>15 DEF UseEnds
<1>16. CASE CommitControl
  BY <1>16 DEF CommitControl
<1>17. CASE ControlEnds
  BY <1>17 DEF ControlEnds, RetryOK
<1>18. CASE ConfirmEnds
  BY <1>18 DEF ConfirmEnds
<1> QED
  BY <1>1, <1>2, <1>3, <1>4, <1>5, <1>6, <1>7, <1>8, <1>9, <1>10, <1>11, <1>12, <1>13,
     <1>14, <1>15, <1>16, <1>17, <1>18 DEF Section

LEMMA UnwindingWork == ASSUME UnwindHolder PROVE WorkLeft' <= WorkLeft
<1>1. CASE UNCHANGED sectionVars
  BY <1>1, SameWork, WorkIsANumber
<1>2. CASE pc \in {"scanning", "using"} /\ \E next \in {"closeout", "leave"} : GoTo(next)
  BY <1>2 DEF WorkLeft, PlacesLeft, SecondTry, GoTo
<1> QED BY <1>1, <1>2 DEF UnwindHolder

(* In a line where nobody stands twice: when the first leaves everybody     *)
(* moves up, when somebody joins nobody moves, when one gives up those      *)
(* behind move up.                                                          *)
Line(line, S) == line \in Seq(S) /\ \A i, j \in DOMAIN line : line[i] = line[j] => i = j

LEMMA TailPlace ==
    ASSUME NEW S, NEW line, Line(line, S), line # <<>>,
           NEW i \in DOMAIN line, NEW j \in DOMAIN Tail(line), line[i] = Tail(line)[j]
    PROVE  i \in Nat /\ j \in Nat /\ j < i
<1>1. /\ line \in Seq(S) /\ Len(line) \in Nat /\ DOMAIN line = 1 .. Len(line)
      /\ DOMAIN Tail(line) = 1 .. Len(line) - 1
      /\ \A k \in 1 .. Len(line) - 1 : Tail(line)[k] = line[k + 1]
  BY DEF Line
<1>2. j + 1 \in DOMAIN line /\ line[j + 1] = line[i]
  BY <1>1
<1>3. j + 1 = i
  BY <1>2 DEF Line
<1> QED BY <1>1, <1>3

LEMMA AppendPlace ==
    ASSUME NEW S, NEW line, Line(line, S), NEW t \in S, \A k \in DOMAIN line : line[k] # t,
           NEW i \in DOMAIN line, NEW j \in DOMAIN Append(line, t),
           line[i] = Append(line, t)[j]
    PROVE  i \in Nat /\ j = i
<1>1. /\ line \in Seq(S) /\ Len(line) \in Nat /\ DOMAIN line = 1 .. Len(line)
      /\ DOMAIN Append(line, t) = 1 .. Len(line) + 1
      /\ Append(line, t)[Len(line) + 1] = t
      /\ \A k \in 1 .. Len(line) : Append(line, t)[k] = line[k]
  BY DEF Line
<1>2. j # Len(line) + 1
  BY <1>1
<1>3. j \in DOMAIN line /\ line[j] = line[i]
  BY <1>1, <1>2
<1>4. j = i
  BY <1>3 DEF Line
<1> QED BY <1>1, <1>4

LEMMA WithoutPlace ==
    ASSUME NEW S, NEW line, Line(line, S), NEW t, \E k \in DOMAIN line : line[k] = t,
           NEW i \in DOMAIN line, NEW j \in DOMAIN Without(line, t),
           line[i] = Without(line, t)[j]
    PROVE  i \in Nat /\ j \in Nat /\ j <= i
<1> DEFINE place == CHOOSE k \in DOMAIN line : line[k] = t
<1>1. Len(line) \in Nat /\ DOMAIN line = 1 .. Len(line) /\ place \in 1 .. Len(line)
  BY DEF Line
<1>2. /\ j \in 1 .. Len(line) - 1
      /\ Without(line, t)[j] = IF j < place THEN line[j] ELSE line[j + 1]
  BY <1>1 DEF Without
<1> HIDE DEF place
<1>3. j \in DOMAIN line /\ j + 1 \in DOMAIN line
  BY <1>1, <1>2
<1>4. j = i \/ j + 1 = i
  BY <1>2, <1>3 DEF Line
<1> QED BY <1>1, <1>2, <1>4

(* A place in the line stays what it is or moves up.                        *)
LEMMA PlacesInLine ==
    ASSUME IInv, JInv, Next, NEW i \in DOMAIN queue, NEW j \in DOMAIN queue',
           queue[i] = queue'[j]
    PROVE  i \in Nat /\ j \in Nat /\ j <= i /\ (Grant => j < i)
<1>0. Line(queue, Tasks)
  BY DEF IInv, JInv, TypeOK, LockTypeOK, LineOK, Line
<1>1. ASSUME UNCHANGED queue PROVE i \in Nat /\ j = i
  <2>1. i \in Nat /\ j \in DOMAIN queue /\ queue[i] = queue[j]
    BY <1>0, <1>1 DEF Line
  <2> QED BY <1>0, <2>1 DEF Line
<1>2. ASSUME NEW t \in Tasks, Idle(t), Acquire(t) PROVE i \in Nat /\ j = i
  <2>1. CASE UNCHANGED queue
    BY <1>1, <2>1
  <2>2. CASE queue' = Append(queue, t)
    <3>1. \A k \in DOMAIN queue : queue[k] # t
      BY <1>2 DEF Idle, Waiting
    <3>2. j \in DOMAIN Append(queue, t) /\ queue[i] = Append(queue, t)[j]
      BY <2>2
    <3> QED BY <1>0, <3>1, <3>2, AppendPlace
  <2> QED BY <1>2, <2>1, <2>2 DEF Acquire
<1>3. ASSUME Grant PROVE i \in Nat /\ j \in Nat /\ j < i
  <2>1. queue # <<>> /\ j \in DOMAIN Tail(queue) /\ queue[i] = Tail(queue)[j]
    BY <1>3 DEF Grant
  <2>2. i \in Nat /\ j \in Nat /\ j < i
    BY <1>0, <2>1, TailPlace
  <2> QED BY <2>2
<1>4. ASSUME NEW t \in Tasks, UnwindWaiter(t) PROVE i \in Nat /\ j \in Nat /\ j <= i
  <2>1. /\ \E k \in DOMAIN queue : queue[k] = t
        /\ j \in DOMAIN Without(queue, t) /\ queue[i] = Without(queue, t)[j]
    BY <1>4 DEF UnwindWaiter, Waiting
  <2> QED BY <1>0, <2>1, WithoutPlace
<1>5. ASSUME NEW t \in Callers, RequestSession(t) \/ RequestControl(t) \/ RequestInventory(t)
      PROVE  Acquire(t) /\ Idle(t) /\ t \in Tasks
  BY <1>5 DEF RequestSession, RequestControl, RequestInventory, InventoryTask, Tasks
<1>6. ASSUME StopTakesLock PROVE i \in Nat /\ j \in Nat /\ j <= i
  BY <1>2, <1>6, WhoIsWho DEF StopTakesLock, JInv, ShutdownOK
<1>7. ASSUME RequestMaintenance PROVE i \in Nat /\ j \in Nat /\ j <= i
  BY <1>1, <1>2, <1>7, WhoIsWho DEF RequestMaintenance, JInv, ShutdownOK, lockVars
<1>8. ASSUME Section PROVE i \in Nat /\ j \in Nat /\ j <= i
  <2>1. UNCHANGED queue
    BY <1>8, SectionYields DEF Leave
  <2> QED BY <1>1, <2>1
<1>9. ASSUME UnwindHolder PROVE i \in Nat /\ j \in Nat /\ j <= i
  BY <1>1, <1>9 DEF UnwindHolder, GoTo, lockVars
<1>10. ASSUME RequestStop \/ UnwindLoop \/ LoopHearsDrop \/ LoopWakes \/ Backend
              \/ \E t \in Callers : Cancel(t)
       PROVE  i \in Nat /\ j \in Nat /\ j <= i
  BY <1>1, <1>10 DEF RequestStop, UnwindLoop, LoopHearsDrop, LoopWakes, Backend,
     LinkEstablished, LinkDrops, OnDisconnected, Cancel, lockVars
<1>11. i \in Nat /\ j \in Nat /\ j <= i
  BY <1>2, <1>3, <1>4, <1>5, <1>6, <1>7, <1>8, <1>9, <1>10
     DEF Next, Requests, Unwind, MaintainLoop
<1> QED BY <1>3, <1>11

(* Nobody is overtaken in the line of `_lock`, and its holder has ever less *)
(* to do: with fairness, everybody is served.                               *)
THEOREM WaitersServed == Spec => WaitersGetCloser
<1> DEFINE A == \A t \in Tasks : \A i \in DOMAIN queue, j \in DOMAIN queue' :
                   queue[i] = t /\ queue'[j] = t =>
                       \/ j < i
                       \/ /\ j = i
                          /\ WorkLeft' <= WorkLeft
                          /\ Section => WorkLeft' < WorkLeft
<1>1. ASSUME IInv, JInv, RetryOK, Next PROVE A
  <2> SUFFICES ASSUME NEW i \in DOMAIN queue, NEW j \in DOMAIN queue', queue[i] = queue'[j]
               PROVE  \/ j < i
                      \/ /\ j = i
                         /\ WorkLeft' <= WorkLeft
                         /\ Section => WorkLeft' < WorkLeft
    OBVIOUS
  <2>1. i \in Nat /\ j \in Nat /\ j <= i /\ (Grant => j < i)
    BY <1>1, PlacesInLine
  <2>2. WorkLeft \in Nat /\ WorkLeft' \in Nat
    BY WorkIsANumber DEF WorkLeft, PlacesLeft, SecondTry
  <2>3. Section => WorkLeft' < WorkLeft
    BY <1>1, SectionWork DEF IInv, TypeOK
  <2>4. CASE Section \/ UnwindHolder \/ UNCHANGED <<owner, sectionVars>>
    BY <2>1, <2>2, <2>3, <2>4, UnwindingWork, SameWork
  <2>5. CASE queue = <<>>
    BY <2>5
  <2>6. CASE Grant
    BY <2>1, <2>6
  <2> QED BY <1>1, <2>4, <2>5, <2>6, BesideTheSection
<1>2. IInv /\ JInv /\ RetryOK /\ [Next]_vars => [A]_vars
  BY <1>1
<1>3. Spec => [][Next]_vars
  BY DEF Spec
<1> QED BY <1>2, <1>3, Invariance, InvarianceJ, InvarianceRetry, PTL DEF WaitersGetCloser

----------------------------------------------------------------------------
LEMMA SlotInit == Init => Slot!Init
  BY MaxClientsAssumption
     DEF Init, Slot!Init, Slot!Nobody, OwnedClient, NoClient, Clients

(* Every step of the session maps to a step of the slot or to none.         *)
LEMMA SlotStep == ASSUME IInv, Next PROVE Slot!Next \/ UNCHANGED Slot!vars
<1> USE MaxClientsAssumption
  DEF IInv, TypeOK, ClientTypeOK, EveryHandleIsOwned,
      OwnershipErrorsUnreachable, SectionInv, Clients, NoClient,
      OwnedClient, IsConnected, clientVars, signalVars, outerVars,
      Slot!vars, Slot!Nobody
<1>1. CASE OpenCandidate
  <2>1. Slot!Claim \/ UNCHANGED Slot!vars
    BY <1>1 DEF OpenCandidate, GoTo, Slot!Claim
  <2> QED
    BY <2>1 DEF Slot!Next
<1>2. CASE Adopt
  <2>1. Slot!Offer \/ UNCHANGED Slot!vars
    BY <1>2 DEF Adopt, GoTo, Teardown, Slot!Offer
  <2> QED
    BY <2>1 DEF Slot!Next
<1>3. CASE Replace \/ Closeout \/ Reconcile
  <2>1. Slot!Withdraw \/ UNCHANGED Slot!vars
    BY <1>3 DEF Replace, Closeout, Reconcile, Disconnect, GoTo, Teardown, Rest,
       Slot!Withdraw
  <2> QED
    BY <2>1 DEF Slot!Next
<1>4. CASE CleanupSucceeds
  <2>1. Slot!Release
    BY <1>4 DEF CleanupSucceeds, Slot!Release
  <2> QED
    BY <2>1 DEF Slot!Next
<1>5. CASE ConnectFails
  <2>1. Slot!Drop \/ UNCHANGED Slot!vars
    BY <1>5 DEF ConnectFails, Teardown, Slot!Drop
  <2> QED
    BY <2>1 DEF Slot!Next
<1>6. CASE LinkEstablished
  <2>1. Slot!Connect
    BY <1>6 DEF LinkEstablished, Slot!Connect
  <2> QED
    BY <2>1 DEF Slot!Next
<1>7. ASSUME NEW c \in Clients, LinkDrops(c) PROVE Slot!Next
  <2>1. Slot!Drop
    BY <1>7 DEF LinkDrops, Slot!Drop
  <2> QED
    BY <2>1 DEF Slot!Next
<1>8. CASE RequestStop
  <2>1. Slot!Shut
    BY <1>8 DEF RequestStop, Slot!Shut
  <2> QED
    BY <2>1 DEF Slot!Next
<1>9. CASE Ensure \/ ResolveCandidate \/ TryAgain \/ AcquisitionFailed \/ Leave
           \/ ScanEnds \/ ConnectSucceeds \/ CleanupFails \/ UseEnds
           \/ CommitControl \/ ControlEnds \/ ConfirmEnds
  BY <1>9 DEF Ensure, ResolveCandidate, TryAgain, AcquisitionFailed, Leave, Rest,
     ScanEnds, ConnectSucceeds, CleanupFails, UseEnds, CommitControl,
     ControlEnds, ConfirmEnds
<1>10. CASE Requests \/ StopTakesLock \/ Grant \/ Unwind \/ MaintainLoop
            \/ \E t \in Callers : Cancel(t)
  BY <1>10 DEF Requests, RequestSession, RequestControl, RequestInventory,
     StopTakesLock, Grant, Unwind, UnwindHolder, UnwindLoop, UnwindWaiter,
     MaintainLoop, RequestMaintenance, LoopHearsDrop, LoopWakes, Cancel
<1>11. ASSUME NEW c \in Clients, OnDisconnected(c) PROVE UNCHANGED Slot!vars
  BY <1>11 DEF OnDisconnected
<1> QED
  BY <1>1, <1>2, <1>3, <1>4, <1>5, <1>6, <1>7, <1>8, <1>9, <1>10, <1>11
     DEF Next, Section, Backend

(* The session, whoever uses it and whatever fails, implements the single   *)
(* central slot.                                                            *)
THEOREM ImplementsSlot == Spec => SlotSpec
<1>1. Spec => Init /\ [][Next]_vars
  BY DEF Spec
<1>2. IInv /\ [Next]_vars => [Slot!Next]_Slot!vars
  <2> SUFFICES ASSUME IInv, [Next]_vars PROVE [Slot!Next]_Slot!vars
    OBVIOUS
  <2>1. CASE UNCHANGED vars
    BY <2>1 DEF vars, clientVars, outerVars, Slot!vars, OwnedClient
  <2> QED
    BY <2>1, SlotStep
<1> QED
  BY <1>1, <1>2, SlotInit, Invariance, PTL DEF SlotSpec, Slot!Spec

----------------------------------------------------------------------------
(* One inventory read at a time; no cancellation is left over from an       *)
(* earlier one, which would end the next.                                   *)
ReadsOK ==
    /\ \A t, u \in Inventories : ~Idle(t) /\ ~Idle(u) => t = u
    /\ \A t \in Inventories \cap cancelled : ~Idle(t)

(* A read that was told to end, or gives up its client.                     *)
GivesUp(t) ==
    t = owner /\ (pc \in {"closeout", "leave"} \/ (pc = "cleaning" /\ after = "close"))

Ends(t) == t \in cancelled \/ GivesUp(t)

(* What the session shows of its reads, in terms of who is idle.            *)
LEMMA ReadView ==
    /\ ReadIsEnding = \E t \in InventoryTask : Ends(t)
    /\ ReadIsEnding' = \E t \in InventoryTask' : Ends(t)'
    /\ ReadIsEnding \in BOOLEAN /\ ReadIsEnding' \in BOOLEAN
    /\ \A t : t \in InventoryTask <=> t \in Inventories /\ ~Idle(t)
    /\ \A t : t \in InventoryTask' <=> t \in Inventories /\ ~Idle(t)'
    /\ \A t : t \in ControlRequests <=> t \in Controls /\ ~Idle(t)
    /\ \A t : t \in ControlRequests' <=> t \in Controls /\ ~Idle(t)'
  BY DEF ReadIsEnding, Ends, GivesUp, InventoryTask, ControlRequests

LEMMA ReadsOKView ==
    ASSUME ReadsOK
    PROVE  /\ \A t, u \in InventoryTask : t = u
           /\ \A t \in Inventories : t \notin InventoryTask => ~(t \in cancelled)
  BY DEF ReadsOK, InventoryTask

(* The reads under way stay the same, or one of them ends.                  *)
LEMMA ReadsStayOK ==
    ASSUME ReadsOK, InventoryTask' \subseteq InventoryTask,
           \A t \in Inventories : t \in cancelled' => t \in InventoryTask'
    PROVE  ReadsOK'
  BY ReadView DEF ReadsOK

(* The section goes on, and a read that ends goes on ending.                *)
LEMMA ReadSection ==
    ASSUME IInv, JInv, ReadsOK, Section, ~Leave
    PROVE  ReadsOK' /\ (UNCHANGED Read!vars \/ Read!End)
<1>1. /\ UNCHANGED <<owner, queue, closing>>
      /\ cancelled' \in {cancelled, cancelled \ {owner}}
      /\ owner \in Inventories =>
            \/ cancelled' = cancelled /\ pc \notin {"closeout", "leave"}
               /\ ~(pc = "cleaning" /\ after = "close")
            \/ pc' \in {"closeout", "leave"}
            \/ pc' = "cleaning" /\ after' = "close"
  BY SectionYields DEF outerVars
<1>2. /\ ControlRequests' = ControlRequests
      /\ \A u : Idle(u)' <=> Idle(u)
  BY <1>1, SameLine DEF JInv
<1>3. InventoryTask' = InventoryTask
  BY <1>2 DEF InventoryTask
<1>4. ASSUME NEW t \in InventoryTask, Ends(t) PROVE Ends(t)'
  <2>1. t \in Inventories
    BY DEF InventoryTask
  <2>2. CASE t = owner
    BY <1>1, <1>4, <2>1, <2>2 DEF Ends, GivesUp
  <2>3. CASE t # owner
    BY <1>1, <1>4, <2>3 DEF Ends, GivesUp
  <2> QED BY <2>2, <2>3
<1>5. ReadIsEnding => ReadIsEnding'
  BY <1>3, <1>4, ReadView
<1>6. ReadIsEnding' => InventoryTask # {}
  BY <1>3, ReadView
<1>7. ReadsOK'
  BY <1>1, <1>3, ReadsStayOK, ReadsOKView
<1>8. ReadIsEnding' = ReadIsEnding \/ (ReadIsEnding' = TRUE /\ InventoryTask # {})
  BY <1>5, <1>6, ReadView
<1> QED BY <1>1, <1>2, <1>3, <1>7, <1>8 DEF Read!vars, Read!End

(* Whoever held the lock lets go of it.                                     *)
LEMMA ReadLeave ==
    ASSUME IInv, JInv, ReadsOK, Leave
    PROVE  ReadsOK' /\ (UNCHANGED Read!vars \/ Read!Leave)
<1>1. /\ owner' = NoTask /\ UNCHANGED <<queue, closing>>
      /\ cancelled' = cancelled \ {owner} /\ pc = "leave" /\ pc' = "free"
  BY DEF Leave
<1>2. \A u \in Tasks : Idle(u)' <=> Idle(u) \/ u = owner
  BY <1>1, WhoIsWho DEF JInv, LineOK, Idle, Waiting
<1>3. /\ ControlRequests' = ControlRequests \ {owner}
      /\ InventoryTask' = InventoryTask \ {owner}
  BY <1>2, WhoIsWho DEF ControlRequests, InventoryTask
<1>4. ReadsOK'
  BY <1>1, <1>3, ReadsStayOK, ReadsOKView
<1>5. owner \in InventoryTask => ReadIsEnding
  BY <1>1, ReadView DEF Ends, GivesUp
<1>6. ASSUME NEW t \in InventoryTask, t # owner PROVE Ends(t)' <=> Ends(t)
  BY <1>1, <1>6, WhoIsWho DEF Ends, GivesUp, InventoryTask
<1>7. ReadIsEnding' = (ReadIsEnding /\ InventoryTask' # {})
  <2>1. CASE InventoryTask' = {}
    BY <2>1, ReadView
  <2>2. CASE InventoryTask' # {}
    <3>1. PICK t \in InventoryTask' : TRUE
      BY <2>2
    <3>2. InventoryTask = {t} /\ InventoryTask' = {t} /\ t # owner
      BY <1>3, <3>1, ReadsOKView
    <3>3. ReadIsEnding' <=> ReadIsEnding
      BY <1>6, <3>2, ReadView
    <3> QED BY <2>2, <3>3, ReadView
  <2> QED BY <2>1, <2>2
<1>8. owner = NoTask => /\ NoTask \notin ControlRequests /\ NoTask \notin InventoryTask
                        /\ (ReadIsEnding => InventoryTask # {})
  BY WhoIsWho, ReadView DEF ControlRequests, InventoryTask
<1>9. CASE owner # NoTask
  <2>1. Read!Leave
    BY <1>1, <1>3, <1>5, <1>7, <1>9 DEF Read!Leave
  <2> QED BY <1>4, <2>1
<1>10. CASE owner = NoTask
  <2>1. ControlRequests' = ControlRequests /\ InventoryTask' = InventoryTask
    BY <1>3, <1>8, <1>10
  <2>2. ReadIsEnding' = ReadIsEnding
    BY <1>7, <1>8, <1>10, <2>1, ReadView
  <2> QED BY <1>1, <1>4, <1>10, <2>1, <2>2 DEF Read!vars
<1> QED BY <1>9, <1>10

(* What an arrival means to the reads that are there already.               *)
LEMMA ReadArrival ==
    ASSUME IInv, JInv, NEW t \in Tasks, Idle(t), Acquire(t)
    PROVE  /\ t \notin InventoryTask /\ t \notin ControlRequests
           /\ InventoryTask' = InventoryTask \cup ({t} \cap Inventories)
           /\ ControlRequests' = ControlRequests \cup ({t} \cap Controls)
           /\ owner' = owner \/ (owner = NoTask /\ owner' = t)
           /\ \A u \in InventoryTask : GivesUp(u)' <=> GivesUp(u)
           /\ t \in Inventories => ~GivesUp(t)'
<1>1. /\ \A u \in Tasks : Idle(u)' <=> Idle(u) /\ u # t
      /\ \/ owner = NoTask /\ Begin(t)
         \/ UNCHANGED <<owner, sectionVars>>
  BY AcquireLine DEF IInv, JInv
<1>2. /\ t \notin InventoryTask /\ t \notin ControlRequests
      /\ InventoryTask' = InventoryTask \cup ({t} \cap Inventories)
      /\ ControlRequests' = ControlRequests \cup ({t} \cap Controls)
  BY <1>1, WhoIsWho DEF ControlRequests, InventoryTask
<1>3. CASE owner = NoTask /\ Begin(t)
  <2>1. owner' = t /\ (t \in Inventories => pc' = "ensure")
    BY <1>3, WhoIsWho DEF Begin
  <2>2. \A u \in InventoryTask : u # owner /\ u # t
    BY <1>2, <1>3, WhoIsWho DEF InventoryTask
  <2> QED BY <1>2, <1>3, <2>1, <2>2 DEF GivesUp
<1>4. CASE UNCHANGED <<owner, sectionVars>>
  BY <1>2, <1>4 DEF GivesUp, sectionVars, Idle
<1> QED BY <1>1, <1>3, <1>4

(* A query, a management call, the maintain loop or async_stop arrives.     *)
LEMMA ReadOtherArrives ==
    ASSUME IInv, JInv, ReadsOK, NEW t \in Tasks, Idle(t), Acquire(t),
           t \notin Inventories, t \notin Controls, UNCHANGED <<cancelled, closing>>
    PROVE  ReadsOK' /\ (UNCHANGED Read!vars \/ Read!Take)
<1>1. /\ t \notin InventoryTask
      /\ InventoryTask' = InventoryTask /\ ControlRequests' = ControlRequests
      /\ owner' = owner \/ (owner = NoTask /\ owner' = t)
      /\ \A u \in InventoryTask : GivesUp(u)' <=> GivesUp(u)
  BY ReadArrival
<1>2. ReadIsEnding' = ReadIsEnding
  BY <1>1, ReadView DEF Ends
<1>3. ReadsOK'
  BY <1>1, ReadsStayOK, ReadsOKView
<1> QED BY <1>1, <1>2, <1>3 DEF Read!vars, Read!Take

(* Explicit control arrives.                                                *)
LEMMA ReadControlArrives ==
    ASSUME IInv, JInv, ReadsOK, NEW t \in Controls, RequestControl(t)
    PROVE  ReadsOK' /\ Read!Ask(t)
<1>1. /\ t \notin Inventories /\ t \in Tasks /\ UNCHANGED closing
      /\ cancelled' = cancelled \cup InventoryTask
      /\ Idle(t) /\ Acquire(t)
  BY WhoIsWho DEF RequestControl, outerVars
<1>2. /\ t \notin ControlRequests
      /\ InventoryTask' = InventoryTask /\ ControlRequests' = ControlRequests \cup {t}
      /\ owner' = owner \/ (owner = NoTask /\ owner' = t)
  BY <1>1, ReadArrival
<1>3. ReadIsEnding' = (InventoryTask # {})
  BY <1>1, <1>2, ReadView DEF Ends
<1>4. ReadsOK'
  BY <1>1, <1>2, ReadsStayOK, ReadsOKView
<1> QED BY <1>1, <1>2, <1>3, <1>4 DEF Read!Ask

(* A read arrives, if nobody else needs the lock.                           *)
LEMMA ReadArrives ==
    ASSUME IInv, JInv, ReadsOK, NEW t \in Inventories, RequestInventory(t)
    PROVE  ReadsOK' /\ Read!Begin(t)
<1>1. /\ t \notin Controls /\ t \in Tasks /\ UNCHANGED <<cancelled, closing>>
      /\ InventoryTask = {} /\ ControlRequests = {} /\ owner = NoTask /\ ~closing
      /\ Acquire(t)
  BY WhoIsWho DEF RequestInventory, outerVars
<1>2. Idle(t)
  BY <1>1 DEF InventoryTask
<1>3. /\ InventoryTask' = {t} /\ ControlRequests' = {}
      /\ owner' = owner \/ owner' = t
      /\ ~GivesUp(t)'
  BY <1>1, <1>2, ReadArrival
<1>4. \A u \in Inventories : u \notin cancelled
  BY <1>1, ReadsOKView
<1>5. ReadIsEnding = FALSE /\ ReadIsEnding' = FALSE
  BY <1>1, <1>3, <1>4, ReadView DEF Ends
<1>6. ReadsOK'
  BY <1>1, <1>3, <1>4, ReadView DEF ReadsOK
<1> QED BY <1>1, <1>3, <1>5, <1>6 DEF Read!Begin

(* The first of the line takes the lock; a read only if it is not to end.   *)
LEMMA ReadGrant ==
    ASSUME IInv, JInv, ReadsOK, Grant
    PROVE  ReadsOK' /\ Read!Take
<1> DEFINE h == Head(queue)
<1>1. /\ owner = NoTask /\ queue # <<>> /\ h \notin cancelled /\ Begin(h)
      /\ queue' = Tail(queue) /\ UNCHANGED <<cancelled, closing>>
  BY DEF Grant, outerVars
<1>2. /\ owner' = h /\ \A u \in Tasks : Idle(u)' <=> Idle(u)
  BY <1>1, GrantLine DEF IInv, JInv
<1>3. h \in Tasks
  BY <1>1 DEF IInv, TypeOK, LockTypeOK
<1>4. h \in Inventories => pc' = "ensure"
  BY <1>1, WhoIsWho DEF Begin
<1> HIDE DEF h
<1>5. ControlRequests' = ControlRequests /\ InventoryTask' = InventoryTask
  BY <1>2, WhoIsWho DEF ControlRequests, InventoryTask
<1>6. \A u \in InventoryTask : ~GivesUp(u) /\ ~GivesUp(u)'
  BY <1>1, <1>2, <1>4, WhoIsWho DEF GivesUp, InventoryTask
<1>7. ReadIsEnding' = ReadIsEnding
  BY <1>1, <1>5, <1>6, ReadView DEF Ends
<1>8. ReadIsEnding => h \notin InventoryTask
  BY <1>1, <1>6, ReadView, ReadsOKView DEF Ends
<1>9. ReadsOK'
  BY <1>1, <1>5, ReadsStayOK, ReadsOKView
<1> QED BY <1>1, <1>2, <1>3, <1>5, <1>7, <1>8, <1>9 DEF Read!Take

(* The holder unwinds: a read has ended by that.                            *)
LEMMA ReadUnwindHolder ==
    ASSUME IInv, JInv, ReadsOK, UnwindHolder
    PROVE  ReadsOK' /\ UNCHANGED Read!vars
<1>1. /\ UNCHANGED <<owner, queue, closing>> /\ owner \in cancelled
      /\ cancelled' = cancelled \ {owner}
      /\ owner \in Inventories => pc' = "closeout"
  BY WhoIsWho DEF UnwindHolder, GoTo, lockVars, sectionVars, outerVars, JInv, CommandOK
<1>2. /\ ControlRequests' = ControlRequests
      /\ \A u : Idle(u)' <=> Idle(u)
  BY <1>1, SameLine DEF JInv
<1>3. InventoryTask' = InventoryTask
  BY <1>2 DEF InventoryTask
<1>4. ASSUME NEW u \in InventoryTask PROVE Ends(u)' <=> Ends(u)
  BY <1>1 DEF Ends, GivesUp, InventoryTask
<1>5. ReadIsEnding' = ReadIsEnding
  BY <1>3, <1>4, ReadView
<1>6. ReadsOK'
  BY <1>1, <1>3, ReadsStayOK, ReadsOKView
<1> QED BY <1>1, <1>2, <1>3, <1>5, <1>6 DEF Read!vars

(* A waiter gives up.                                                       *)
LEMMA ReadUnwindWaiter ==
    ASSUME IInv, JInv, ReadsOK, NEW t \in Tasks, UnwindWaiter(t)
    PROVE  /\ ReadsOK'
           /\ \/ UNCHANGED Read!vars \/ Read!Withdraw
              \/ t \in Controls /\ Read!GiveUp(t)
<1>1. /\ UNCHANGED <<owner, sectionVars, closing>> /\ t \in cancelled
      /\ Waiting(t) /\ queue' = Without(queue, t) /\ cancelled' = cancelled \ {t}
  BY DEF UnwindWaiter
<1>2. \A u : Idle(u)' <=> Idle(u) \/ u = t
  BY <1>1, WithoutLine DEF IInv, JInv
<1>3. ~Idle(t) /\ t # owner
  BY <1>1 DEF JInv, LineOK, Idle
<1>4. /\ ControlRequests' = ControlRequests \ {t}
      /\ InventoryTask' = InventoryTask \ {t}
  BY <1>2 DEF ControlRequests, InventoryTask
<1>5. ReadsOK'
  BY <1>1, <1>4, ReadsStayOK, ReadsOKView
<1>6. CASE t \in Inventories
  <2>1. t \notin Controls /\ t \in InventoryTask /\ t \notin ControlRequests
    BY <1>3, <1>6, WhoIsWho DEF InventoryTask, ControlRequests
  <2>2. InventoryTask = {t}
    BY <2>1, ReadsOKView
  <2>3. InventoryTask' = {}
    BY <1>4, <2>2
  <2>4. ReadIsEnding = TRUE /\ ReadIsEnding' = FALSE
    BY <1>1, <2>1, <2>3, ReadView DEF Ends
  <2>5. ControlRequests' = ControlRequests
    BY <1>4, <2>1
  <2> QED BY <1>1, <1>3, <1>5, <2>2, <2>3, <2>4, <2>5 DEF Read!Withdraw
<1>7. CASE t \notin Inventories
  <2>1. InventoryTask' = InventoryTask /\ \A u \in InventoryTask : u # t
    BY <1>4, <1>7 DEF InventoryTask
  <2>2. \A u \in InventoryTask : Ends(u)' <=> Ends(u)
    BY <1>1, <2>1 DEF Ends, GivesUp, sectionVars
  <2>3. ReadIsEnding' = ReadIsEnding
    BY <2>1, <2>2, ReadView
  <2>4. CASE t \in Controls
    <3>1. t \in ControlRequests
      BY <1>3, <2>4 DEF ControlRequests
    <3> QED BY <1>1, <1>3, <1>4, <1>5, <2>1, <2>3, <2>4, <3>1 DEF Read!GiveUp
  <2>5. CASE t \notin Controls
    <3>1. ControlRequests' = ControlRequests
      BY <1>4, <2>5 DEF ControlRequests
    <3> QED BY <1>1, <1>5, <2>1, <2>3, <3>1 DEF Read!vars
  <2> QED BY <2>4, <2>5
<1> QED BY <1>6, <1>7

(* What happens beside the lock only adds cancellations of callers: a read  *)
(* that is cancelled ends, async_stop cancels every one of them.            *)
LEMMA ReadBeside ==
    ASSUME IInv, JInv, ReadsOK, UNCHANGED <<owner, queue, sectionVars>>,
           \/ UNCHANGED closing /\ \E S \in SUBSET (Tasks \ Inventories) : cancelled' = cancelled \ S
           \/ UNCHANGED closing /\ \E t \in Tasks : ~Idle(t) /\ cancelled' = cancelled \cup {t}
           \/ RequestStop
    PROVE  ReadsOK' /\ (UNCHANGED Read!vars \/ Read!End \/ Read!Shut)
<1>1. /\ ControlRequests' = ControlRequests
      /\ \A u : Idle(u)' <=> Idle(u)
  BY SameLine DEF JInv
<1>2. InventoryTask' = InventoryTask
  BY <1>1 DEF InventoryTask
<1>3. \A u : GivesUp(u)' <=> GivesUp(u)
  BY DEF GivesUp, sectionVars
<1>4. CASE UNCHANGED closing /\ \E S \in SUBSET (Tasks \ Inventories) : cancelled' = cancelled \ S
  <2>1. \A u \in Inventories : u \in cancelled' <=> u \in cancelled
    BY <1>4
  <2>2. ReadIsEnding' = ReadIsEnding
    BY <1>2, <1>3, <2>1, ReadView DEF Ends
  <2>3. ReadsOK'
    BY <1>2, <2>1, ReadsStayOK, ReadsOKView
  <2> QED BY <1>1, <1>2, <1>4, <2>2, <2>3 DEF Read!vars
<1>5. ASSUME UNCHANGED closing, NEW t \in Tasks, ~Idle(t), cancelled' = cancelled \cup {t}
      PROVE  ReadsOK' /\ (UNCHANGED Read!vars \/ Read!End)
  <2>1. CASE t \in Inventories
    <3>1. t \in InventoryTask
      BY <1>5, <2>1 DEF InventoryTask
    <3>2. ReadIsEnding' = TRUE /\ InventoryTask # {}
      BY <1>2, <1>5, <3>1, ReadView DEF Ends
    <3>3. ReadsOK'
      BY <1>2, <1>5, <3>1, ReadsStayOK, ReadsOKView
    <3> QED BY <1>1, <1>2, <1>5, <3>2, <3>3 DEF Read!End
  <2>2. CASE t \notin Inventories
    <3>1. \A u \in Inventories : u \in cancelled' <=> u \in cancelled
      BY <1>5, <2>2
    <3>2. ReadIsEnding' = ReadIsEnding
      BY <1>2, <1>3, <3>1, ReadView DEF Ends
    <3>3. ReadsOK'
      BY <1>2, <3>1, ReadsStayOK, ReadsOKView
    <3> QED BY <1>1, <1>2, <1>5, <3>2, <3>3 DEF Read!vars
  <2> QED BY <2>1, <2>2
<1>6. CASE RequestStop
  <2>1. closing' = TRUE /\ InventoryTask \subseteq cancelled'
        /\ \A u \in Inventories : u \in cancelled' => u \in cancelled \/ u \in InventoryTask
    BY <1>6, WhoIsWho DEF RequestStop, Callers
  <2>2. ReadIsEnding' = (InventoryTask # {})
    BY <1>2, <2>1, ReadView DEF Ends
  <2>3. ReadsOK'
    BY <1>2, <2>1, ReadsStayOK, ReadsOKView
  <2> QED BY <1>1, <1>2, <2>1, <2>2, <2>3 DEF Read!Shut
<1> QED BY <1>4, <1>5, <1>6

(* Every step of the session is a step of the one read or leaves it alone.  *)
LEMMA ReadStep ==
    ASSUME IInv, JInv, ReadsOK, Next
    PROVE  ReadsOK' /\ (Read!Next \/ UNCHANGED Read!vars)
<1> USE DEF Read!Next
<1>1. CASE Section
  BY <1>1, ReadSection, ReadLeave
<1>2. ASSUME NEW t \in Callers, RequestSession(t) PROVE ReadsOK' /\ (Read!Take \/ UNCHANGED Read!vars)
  <2>1. /\ Idle(t) /\ Acquire(t) /\ UNCHANGED <<cancelled, closing>>
        /\ t \in Tasks /\ t \notin Controls /\ t \notin Inventories
    BY <1>2, TasksAssumption DEF RequestSession, outerVars, Callers, Tasks
  <2> QED BY <2>1, ReadOtherArrives
<1>3. ASSUME NEW t \in Callers, RequestControl(t)
      PROVE  ReadsOK' /\ \E c \in Controls : Read!Ask(c)
  <2>1. t \in Controls
    BY <1>3 DEF RequestControl
  <2> QED BY <1>3, <2>1, ReadControlArrives
<1>4. ASSUME NEW t \in Callers, RequestInventory(t)
      PROVE  ReadsOK' /\ \E r \in Inventories : Read!Begin(r)
  <2>1. t \in Inventories
    BY <1>4 DEF RequestInventory
  <2> QED BY <1>4, <2>1, ReadArrives
<1>5. CASE StopTakesLock
  <2>1. /\ Acquire(Stop) /\ UNCHANGED <<cancelled, closing>> /\ stop = "joining"
        /\ Stop \in Tasks /\ Stop \notin Controls /\ Stop \notin Inventories
    BY <1>5, WhoIsWho DEF StopTakesLock, Callers
  <2>2. Idle(Stop)
    BY <2>1 DEF JInv, ShutdownOK
  <2> QED BY <2>1, <2>2, ReadOtherArrives
<1>6. CASE RequestMaintenance
  <2>1. Idle(Maintain) /\ UNCHANGED <<cancelled, closing>>
    BY <1>6 DEF RequestMaintenance, JInv, ShutdownOK
  <2>2. Maintain \in Tasks /\ Maintain \notin Controls /\ Maintain \notin Inventories
    BY WhoIsWho DEF Callers
  <2>3. CASE closing
    <3>1. UNCHANGED <<owner, queue, sectionVars>>
      BY <1>6, <2>3 DEF RequestMaintenance, lockVars
    <3>2. \E S \in SUBSET (Tasks \ Inventories) : cancelled' = cancelled \ S
      BY <2>1
    <3> QED BY <2>1, <3>1, <3>2, ReadBeside
  <2>4. CASE ~closing
    <3>1. Acquire(Maintain)
      BY <1>6, <2>4 DEF RequestMaintenance
    <3> QED BY <2>1, <2>2, <3>1, ReadOtherArrives
  <2> QED BY <2>3, <2>4
<1>7. CASE Grant
  BY <1>7, ReadGrant
<1>8. CASE UnwindHolder
  BY <1>8, ReadUnwindHolder
<1>9. ASSUME NEW t \in Tasks, UnwindWaiter(t)
      PROVE  ReadsOK' /\ (Read!Next \/ UNCHANGED Read!vars)
  BY <1>9, ReadUnwindWaiter
<1>10. CASE RequestStop
  <2>1. UNCHANGED <<owner, queue, sectionVars>>
    BY <1>10 DEF RequestStop, lockVars
  <2> QED BY <1>10, <2>1, ReadBeside
<1>11. CASE UnwindLoop \/ LoopHearsDrop \/ LoopWakes \/ Backend
  <2>1. /\ UNCHANGED <<owner, queue, sectionVars, closing>>
        /\ cancelled' = cancelled \ {} \/ cancelled' = cancelled \ {Maintain}
    BY <1>11 DEF UnwindLoop, LoopHearsDrop, LoopWakes, Backend, LinkEstablished,
       LinkDrops, OnDisconnected, lockVars, outerVars
  <2>2. {} \in SUBSET (Tasks \ Inventories) /\ {Maintain} \in SUBSET (Tasks \ Inventories)
    BY WhoIsWho DEF Callers
  <2> QED BY <2>1, <2>2, ReadBeside
<1>12. ASSUME NEW t \in Callers, Cancel(t)
       PROVE  ReadsOK' /\ (Read!Next \/ UNCHANGED Read!vars)
  <2>1. /\ UNCHANGED <<owner, queue, sectionVars, closing>> /\ t \in Tasks
        /\ ~Idle(t) /\ cancelled' = cancelled \cup {t}
    BY <1>12 DEF Cancel, lockVars, outerVars, Tasks
  <2> QED BY <2>1, ReadBeside
<1> QED BY <1>1, <1>2, <1>3, <1>4, <1>5, <1>6, <1>7, <1>8, <1>9, <1>10, <1>11, <1>12
        DEF Next, Requests, Unwind, MaintainLoop

(* Whoever uses the session, at most one inventory read is under way, it    *)
(* is told to end when control is asked for, and what was told to end does  *)
(* not go on.                                                               *)
THEOREM ImplementsRead == Spec => ReadSpec
<1>1. Init => ReadsOK /\ Read!Init
  <2> SUFFICES ASSUME Init PROVE ReadsOK /\ Read!Init
    OBVIOUS
  <2>1. \A u \in Tasks : Idle(u)
    BY WhoIsWho DEF Init, Idle, Waiting
  <2>2. InventoryTask = {} /\ ControlRequests = {}
    BY <2>1, WhoIsWho DEF InventoryTask, ControlRequests
  <2>3. ReadIsEnding = FALSE
    BY <2>2 DEF ReadIsEnding
  <2> QED BY <2>1, <2>2, <2>3, WhoIsWho DEF Init, ReadsOK, Read!Init
<1>2. IInv /\ JInv /\ ReadsOK /\ [Next]_vars => ReadsOK' /\ [Read!Next]_Read!vars
  <2> SUFFICES ASSUME IInv, JInv, ReadsOK, UNCHANGED vars
               PROVE  ReadsOK' /\ UNCHANGED Read!vars
    BY ReadStep
  <2>1. UNCHANGED <<owner, queue, sectionVars, cancelled, closing>>
    BY DEF vars, lockVars, outerVars
  <2>2. ControlRequests' = ControlRequests /\ \A u : Idle(u)' <=> Idle(u)
    BY <2>1, SameLine DEF JInv
  <2>3. InventoryTask' = InventoryTask
    BY <2>2 DEF InventoryTask
  <2>4. ReadIsEnding' = ReadIsEnding
    BY <2>1, <2>3, ReadView DEF Ends, GivesUp, sectionVars
  <2> QED BY <2>1, <2>2, <2>3, <2>4 DEF ReadsOK, Read!vars
<1>3. Spec => Init /\ [][Next]_vars
  BY DEF Spec
<1> QED BY <1>1, <1>2, <1>3, Invariance, InvarianceJ, PTL DEF ReadSpec, Read!Spec
=============================================================================
