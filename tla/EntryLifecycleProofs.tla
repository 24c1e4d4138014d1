-------------------------- MODULE EntryLifecycleProofs --------------------------
(***************************************************************************)
(* For any number of locks and set-ups: what a set-up, a reload or an      *)
(* unload leaves behind is accounted for, and only the latest runtime is   *)
(* told of advertisements.                                                 *)
(***************************************************************************)
EXTENDS EntryLifecycle, TLAPS

(* No instance is spoken of before the first set-up began.                  *)
Begun ==
    phase \in {"records", "history", "forwarding", "loaded", "unloading", "draining",
               "setupError", "failedUnload"} => instance # 0

(* An instance has no sessions and no stopper until its history is read.    *)
BlankBefore ==
    \A i \in Instances :
        i > instance \/ (i = instance /\ phase \in {"records", "history"}) =>
            /\ \A l \in Locks : session[i][l] = "none"
            /\ stopper[i] = "none"

(* While the runtime is up nothing of it has been stopped.                  *)
UpIsWhole ==
    Up => /\ instance \in tracking
          /\ stopper[instance] = "none"
          /\ \A l \in configured[instance] : session[instance][l] = "open"

(* One connection at a time is being stopped, by a task that still runs; a  *)
(* disconnect that was not confirmed ended its task.                        *)
StopsAreOrdered ==
    \A i \in Instances, l \in Locks :
        /\ session[i][l] = "closing" =>
              /\ stopper[i] = "running"
              /\ \A k \in Locks : session[i][k] = "closing" => k = l
        /\ session[i][l] = "unconfirmed" => stopper[i] = "raised"

(* Outside of the latest runtime, while it is up or its entry was deleted,  *)
(* a connection that may hold its slot has its task to account for it.      *)
Accounted ==
    \A i \in Instances, l \in Locks :
        Live(i, l) /\ (i # instance \/ ~(Up \/ phase = "removed"))
            => stopper[i] \in {"running", "raised"}

(* The one that tracks is the latest, and not one that is being released.   *)
TracksTheLatest ==
    \A i \in tracking : i = instance /\ (Up \/ phase = "removed")

(* From the start of a set-up on: no device of a dropped lock, and keys     *)
(* that have changed since have a reload waiting.                           *)
DevicesSettled ==
    phase \in {"records", "history", "forwarding", "loaded"} =>
        /\ devices \subseteq configured[instance]
        /\ ~reload => keys = configured[instance]
        /\ phase = "loaded" /\ ~reload => devices = keys

IInv == TypeOK /\ Begun /\ BlankBefore /\ UpIsWhole /\ StopsAreOrdered
               /\ Accounted /\ TracksTheLatest /\ DevicesSettled

(* Releasing the runtime of the latest set-up begins at most one stop, and  *)
(* gives every session of it a task to account for it (Release).            *)
LEMMA ReleaseStarts ==
    ASSUME IInv, Up, Release, phase' = "draining",
           UNCHANGED <<instance, configured>>
    PROVE  (StopsAreOrdered /\ Accounted)'
<1> USE InstancesAssumption DEF Release, StartStopping, IInv, TypeOK, EntryTypeOK,
        RuntimeTypeOK, Instances, Begun, UpIsWhole, Up
<1>1. CASE configured[instance] = {} /\ UNCHANGED session
              /\ stopper' = [stopper EXCEPT ![instance] = "done"]
  BY <1>1, SMTT(20) DEF StopsAreOrdered, Accounted, Live
<1>2. ASSUME NEW l \in configured[instance],
             session' = [session EXCEPT ![instance][l] = "closing"],
             stopper' = [stopper EXCEPT ![instance] = "running"]
      PROVE  (StopsAreOrdered /\ Accounted)'
  <2>1. l \in Locks /\ instance \in Instances
    OBVIOUS
  <2>2. \A k \in Locks : session[instance][k] \in {"none", "open"}
    BY SMTT(20) DEF Sessions
  <2>3. StopsAreOrdered'
    BY <1>2, <2>1, <2>2, SMTT(20) DEF StopsAreOrdered
  <2>4. Accounted'
    BY <1>2, <2>1, SMTT(20) DEF Accounted, Live
  <2> QED BY <2>3, <2>4
<1> QED BY <1>1, <1>2

(* The steps of a set-up.                                                   *)
LEMMA SetupKeeps == IInv /\ Setup => IInv'
<1> SUFFICES ASSUME IInv, Setup PROVE IInv'
  OBVIOUS
<1> USE InstancesAssumption DEF entryVars, runtimeVars, IInv, TypeOK, Instances
<1>1. CASE BeginSetup
  <2> USE <1>1 DEF BeginSetup
  <2>1. TypeOK'
    BY SMTT(20) DEF EntryTypeOK, RuntimeTypeOK, Phases, Purposes, Sessions, Begun, BlankBefore
  <2>2. (Begun /\ TracksTheLatest /\ DevicesSettled)'
    BY SMTT(20) DEF EntryTypeOK, RuntimeTypeOK, Begun, TracksTheLatest, Up, DevicesSettled
  <2>3. (BlankBefore /\ UpIsWhole)'
    BY SMTT(20) DEF EntryTypeOK, RuntimeTypeOK, Begun, BlankBefore, UpIsWhole, Up, StopsAreOrdered
  <2>4. (StopsAreOrdered /\ Accounted)'
    BY SMTT(20) DEF EntryTypeOK, RuntimeTypeOK, Sessions, Begun, BlankBefore, UpIsWhole, Up, StopsAreOrdered, Accounted, Live
  <2> QED BY <2>1, <2>2, <2>3, <2>4
<1>2. CASE RecordsLoaded
  <2> USE <1>2 DEF RecordsLoaded
  <2>1. TypeOK'
    BY SMTT(20) DEF EntryTypeOK, RuntimeTypeOK, Phases, Purposes, Sessions, Begun, BlankBefore
  <2>2. (Begun /\ TracksTheLatest /\ DevicesSettled)'
    BY SMTT(20) DEF EntryTypeOK, RuntimeTypeOK, Begun, TracksTheLatest, Up, DevicesSettled
  <2>3. (BlankBefore /\ UpIsWhole)'
    BY SMTT(20) DEF EntryTypeOK, RuntimeTypeOK, Begun, BlankBefore, UpIsWhole, Up, StopsAreOrdered
  <2>4. (StopsAreOrdered /\ Accounted)'
    BY SMTT(20) DEF EntryTypeOK, RuntimeTypeOK, Sessions, Begun, BlankBefore, UpIsWhole, Up, StopsAreOrdered, Accounted, Live
  <2> QED BY <2>1, <2>2, <2>3, <2>4
<1>3. CASE HistoryLoaded
  <2> USE <1>3 DEF HistoryLoaded
  <2>1. TypeOK'
    BY SMTT(20) DEF EntryTypeOK, RuntimeTypeOK, Phases, Purposes, Sessions, Begun, BlankBefore
  <2>2. (Begun /\ TracksTheLatest /\ DevicesSettled)'
    BY SMTT(20) DEF EntryTypeOK, RuntimeTypeOK, Begun, TracksTheLatest, Up, DevicesSettled
  <2>3. (BlankBefore /\ UpIsWhole)'
    BY SMTT(20) DEF EntryTypeOK, RuntimeTypeOK, Begun, BlankBefore, UpIsWhole, Up, StopsAreOrdered
  <2>4. (StopsAreOrdered /\ Accounted)'
    BY SMTT(20) DEF EntryTypeOK, RuntimeTypeOK, Sessions, Begun, BlankBefore, UpIsWhole, Up, StopsAreOrdered, Accounted, Live
  <2> QED BY <2>1, <2>2, <2>3, <2>4
<1>4. CASE HistoryFails
  <2> USE <1>4 DEF HistoryFails
  <2>1. TypeOK'
    BY SMTT(20) DEF EntryTypeOK, RuntimeTypeOK, Phases, Purposes, Sessions, Begun, BlankBefore
  <2>2. (Begun /\ TracksTheLatest /\ DevicesSettled)'
    BY SMTT(20) DEF EntryTypeOK, RuntimeTypeOK, Begun, TracksTheLatest, Up, DevicesSettled
  <2>3. (BlankBefore /\ UpIsWhole)'
    BY SMTT(20) DEF EntryTypeOK, RuntimeTypeOK, Begun, BlankBefore, UpIsWhole, Up, StopsAreOrdered
  <2>4. (StopsAreOrdered /\ Accounted)'
    BY SMTT(20) DEF EntryTypeOK, RuntimeTypeOK, Sessions, Begun, BlankBefore, UpIsWhole, Up, StopsAreOrdered, Accounted, Live
  <2> QED BY <2>1, <2>2, <2>3, <2>4
<1>5. CASE PlatformsForwarded
  <2> USE <1>5 DEF PlatformsForwarded
  <2>1. TypeOK'
    BY SMTT(20) DEF EntryTypeOK, RuntimeTypeOK, Phases, Purposes, Sessions, Begun, BlankBefore
  <2>2. (Begun /\ TracksTheLatest /\ DevicesSettled)'
    BY SMTT(20) DEF EntryTypeOK, RuntimeTypeOK, Begun, TracksTheLatest, Up, DevicesSettled
  <2>3. (BlankBefore /\ UpIsWhole)'
    BY SMTT(20) DEF EntryTypeOK, RuntimeTypeOK, Begun, BlankBefore, UpIsWhole, Up, StopsAreOrdered
  <2>4. (StopsAreOrdered /\ Accounted)'
    BY SMTT(20) DEF EntryTypeOK, RuntimeTypeOK, Sessions, Begun, BlankBefore, UpIsWhole, Up, StopsAreOrdered, Accounted, Live
  <2> QED BY <2>1, <2>2, <2>3, <2>4
<1>6. CASE PlatformFails
  <2> USE <1>6 DEF PlatformFails, Release, StartStopping
  <2>1. TypeOK'
    <3>1. EntryTypeOK'
      BY DEF EntryTypeOK, Phases, Purposes
    <3>2. instance \in Instances
      BY DEF EntryTypeOK, Begun
    <3>3. configured[instance] \in SUBSET Locks
      BY <3>2 DEF RuntimeTypeOK
    <3>4. tracking' \subseteq Instances /\ devices' \subseteq Locks
      BY <3>3 DEF RuntimeTypeOK
    <3>5. UNCHANGED <<configured, instance>>
      OBVIOUS
    <3>6. CASE UNCHANGED session /\ stopper' = [stopper EXCEPT ![instance] = "done"]
      BY <3>1, <3>4, <3>5, <3>6 DEF RuntimeTypeOK
    <3>7. ASSUME NEW l \in configured[instance],
                 session' = [session EXCEPT ![instance][l] = "closing"],
                 stopper' = [stopper EXCEPT ![instance] = "running"]
          PROVE  TypeOK'
      BY <3>1, <3>2, <3>4, <3>5, <3>7, SMTT(20) DEF RuntimeTypeOK, Sessions
    <3> QED BY <3>6, <3>7
  <2>2. (Begun /\ TracksTheLatest /\ DevicesSettled)'
    BY SMTT(20) DEF EntryTypeOK, RuntimeTypeOK, Begun, TracksTheLatest, Up, DevicesSettled
  <2>3. (BlankBefore /\ UpIsWhole)'
    BY SMTT(20) DEF EntryTypeOK, RuntimeTypeOK, Begun, BlankBefore, UpIsWhole, Up, StopsAreOrdered
  <2>4. (StopsAreOrdered /\ Accounted)'
    BY ReleaseStarts DEF Up, entryVars, runtimeVars
  <2> QED BY <2>1, <2>2, <2>3, <2>4
<1> QED BY <1>1, <1>2, <1>3, <1>4, <1>5, <1>6 DEF Setup

(* The stops of the connections, of whichever instance.                     *)
LEMMA StoppingKeeps == IInv /\ Stopping => IInv'
<1> SUFFICES ASSUME IInv, Stopping PROVE IInv'
  OBVIOUS
<1> USE InstancesAssumption DEF entryVars, runtimeVars, IInv, TypeOK, Instances
<1>1. ASSUME NEW i \in Instances, NEW l \in Locks, StopConfirmed(i, l) PROVE IInv'
  <2> USE <1>1 DEF StopConfirmed
  <2>1. TypeOK'
    <3>1. EntryTypeOK'
      BY DEF EntryTypeOK, Phases, Purposes
    <3>2. UNCHANGED <<configured, tracking, devices, instance>>
      OBVIOUS
    <3>3. CASE session' = [session EXCEPT ![i][l] = "closed"]
               /\ stopper' = [stopper EXCEPT ![i] = "done"]
      BY <3>1, <3>2, <3>3, SMTT(20) DEF RuntimeTypeOK, Sessions
    <3>4. ASSUME NEW k \in Locks, session[i][k] = "open", UNCHANGED stopper,
                 session' = [session EXCEPT ![i][l] = "closed", ![i][k] = "closing"]
          PROVE  TypeOK'
      BY <3>1, <3>2, <3>4, SMTT(20) DEF RuntimeTypeOK, Sessions
    <3> QED BY <3>3, <3>4
  <2>2. (Begun /\ TracksTheLatest /\ DevicesSettled)'
    BY SMTT(20) DEF EntryTypeOK, RuntimeTypeOK, Begun, TracksTheLatest, Up, DevicesSettled
  <2>3. (BlankBefore /\ UpIsWhole)'
    BY SMTT(20) DEF EntryTypeOK, RuntimeTypeOK, Begun, BlankBefore, UpIsWhole, Up, StopsAreOrdered
  <2>4. (StopsAreOrdered /\ Accounted)'
    BY SMTT(20) DEF EntryTypeOK, RuntimeTypeOK, Sessions, Begun, BlankBefore, UpIsWhole, Up, StopsAreOrdered, Accounted, Live
  <2> QED BY <2>1, <2>2, <2>3, <2>4
<1>2. ASSUME NEW i \in Instances, NEW l \in Locks, StopRaises(i, l) PROVE IInv'
  <2> USE <1>2 DEF StopRaises
  <2>1. TypeOK'
    BY SMTT(20) DEF EntryTypeOK, RuntimeTypeOK, Phases, Purposes, Sessions, Begun, BlankBefore
  <2>2. (Begun /\ TracksTheLatest /\ DevicesSettled)'
    BY SMTT(20) DEF EntryTypeOK, RuntimeTypeOK, Begun, TracksTheLatest, Up, DevicesSettled
  <2>3. (BlankBefore /\ UpIsWhole)'
    BY SMTT(20) DEF EntryTypeOK, RuntimeTypeOK, Begun, BlankBefore, UpIsWhole, Up, StopsAreOrdered
  <2>4. (StopsAreOrdered /\ Accounted)'
    BY SMTT(20) DEF EntryTypeOK, RuntimeTypeOK, Sessions, Begun, BlankBefore, UpIsWhole, Up, StopsAreOrdered, Accounted, Live
  <2> QED BY <2>1, <2>2, <2>3, <2>4
<1>3. ASSUME NEW i \in Instances, NEW l \in Locks, LinkGone(i, l) PROVE IInv'
  <2> USE <1>3 DEF LinkGone
  <2>1. TypeOK'
    BY SMTT(20) DEF EntryTypeOK, RuntimeTypeOK, Phases, Purposes, Sessions, Begun, BlankBefore
  <2>2. (Begun /\ TracksTheLatest /\ DevicesSettled)'
    BY SMTT(20) DEF EntryTypeOK, RuntimeTypeOK, Begun, TracksTheLatest, Up, DevicesSettled
  <2>3. (BlankBefore /\ UpIsWhole)'
    BY SMTT(20) DEF EntryTypeOK, RuntimeTypeOK, Begun, BlankBefore, UpIsWhole, Up, StopsAreOrdered
  <2>4. (StopsAreOrdered /\ Accounted)'
    BY SMTT(20) DEF EntryTypeOK, RuntimeTypeOK, Sessions, Begun, BlankBefore, UpIsWhole, Up, StopsAreOrdered, Accounted, Live
  <2> QED BY <2>1, <2>2, <2>3, <2>4
<1> QED BY <1>1, <1>2, <1>3 DEF Stopping

(* The steps of an unload.                                                  *)
LEMMA UnloadKeeps == IInv /\ Unload => IInv'
<1> SUFFICES ASSUME IInv, Unload PROVE IInv'
  OBVIOUS
<1> USE InstancesAssumption DEF entryVars, runtimeVars, IInv, TypeOK, Instances
<1>1. ASSUME NEW purpose \in {"setup", "stay", "remove"}, BeginUnload(purpose) PROVE IInv'
  <2> USE <1>1 DEF BeginUnload
  <2>1. TypeOK'
    BY SMTT(20) DEF EntryTypeOK, RuntimeTypeOK, Phases, Purposes, Sessions, Begun, BlankBefore
  <2>2. (Begun /\ TracksTheLatest /\ DevicesSettled)'
    BY SMTT(20) DEF EntryTypeOK, RuntimeTypeOK, Begun, TracksTheLatest, Up, DevicesSettled
  <2>3. (BlankBefore /\ UpIsWhole)'
    BY SMTT(20) DEF EntryTypeOK, RuntimeTypeOK, Begun, BlankBefore, UpIsWhole, Up, StopsAreOrdered
  <2>4. (StopsAreOrdered /\ Accounted)'
    BY SMTT(20) DEF EntryTypeOK, RuntimeTypeOK, Sessions, Begun, BlankBefore, UpIsWhole, Up, StopsAreOrdered, Accounted, Live
  <2> QED BY <2>1, <2>2, <2>3, <2>4
<1>2. CASE PlatformsUnloaded
  <2> USE <1>2 DEF PlatformsUnloaded, Release, StartStopping
  <2>1. TypeOK'
    <3>1. EntryTypeOK'
      BY DEF EntryTypeOK, Phases, Purposes
    <3>2. instance \in Instances
      BY DEF EntryTypeOK, Begun
    <3>3. configured[instance] \in SUBSET Locks
      BY <3>2 DEF RuntimeTypeOK
    <3>4. tracking' \subseteq Instances /\ devices' \subseteq Locks
      BY <3>3 DEF RuntimeTypeOK
    <3>5. UNCHANGED <<configured, instance>>
      OBVIOUS
    <3>6. CASE UNCHANGED session /\ stopper' = [stopper EXCEPT ![instance] = "done"]
      BY <3>1, <3>4, <3>5, <3>6 DEF RuntimeTypeOK
    <3>7. ASSUME NEW l \in configured[instance],
                 session' = [session EXCEPT ![instance][l] = "closing"],
                 stopper' = [stopper EXCEPT ![instance] = "running"]
          PROVE  TypeOK'
      BY <3>1, <3>2, <3>4, <3>5, <3>7, SMTT(20) DEF RuntimeTypeOK, Sessions
    <3> QED BY <3>6, <3>7
  <2>2. (Begun /\ TracksTheLatest /\ DevicesSettled)'
    BY SMTT(20) DEF EntryTypeOK, RuntimeTypeOK, Begun, TracksTheLatest, Up, DevicesSettled
  <2>3. (BlankBefore /\ UpIsWhole)'
    BY SMTT(20) DEF EntryTypeOK, RuntimeTypeOK, Begun, BlankBefore, UpIsWhole, Up, StopsAreOrdered
  <2>4. (StopsAreOrdered /\ Accounted)'
    BY ReleaseStarts DEF Up, entryVars, runtimeVars
  <2> QED BY <2>1, <2>2, <2>3, <2>4
<1>3. CASE UnloadFails
  <2> USE <1>3 DEF UnloadFails
  <2>1. TypeOK'
    BY SMTT(20) DEF EntryTypeOK, RuntimeTypeOK, Phases, Purposes, Sessions, Begun, BlankBefore
  <2>2. (Begun /\ TracksTheLatest /\ DevicesSettled)'
    BY SMTT(20) DEF EntryTypeOK, RuntimeTypeOK, Begun, TracksTheLatest, Up, DevicesSettled
  <2>3. (BlankBefore /\ UpIsWhole)'
    BY SMTT(20) DEF EntryTypeOK, RuntimeTypeOK, Begun, BlankBefore, UpIsWhole, Up, StopsAreOrdered
  <2>4. (StopsAreOrdered /\ Accounted)'
    BY SMTT(20) DEF EntryTypeOK, RuntimeTypeOK, Sessions, Begun, BlankBefore, UpIsWhole, Up, StopsAreOrdered, Accounted, Live
  <2> QED BY <2>1, <2>2, <2>3, <2>4
<1>4. CASE DrainEnds
  <2> USE <1>4 DEF DrainEnds
  <2>1. TypeOK'
    BY SMTT(20) DEF EntryTypeOK, RuntimeTypeOK, Phases, Purposes, Sessions, Begun, BlankBefore
  <2>2. (Begun /\ TracksTheLatest /\ DevicesSettled)'
    BY SMTT(20) DEF EntryTypeOK, RuntimeTypeOK, Begun, TracksTheLatest, Up, DevicesSettled
  <2>3. (BlankBefore /\ UpIsWhole)'
    BY SMTT(20) DEF EntryTypeOK, RuntimeTypeOK, Begun, BlankBefore, UpIsWhole, Up, StopsAreOrdered
  <2>4. (StopsAreOrdered /\ Accounted)'
    BY SMTT(20) DEF EntryTypeOK, RuntimeTypeOK, Sessions, Begun, BlankBefore, UpIsWhole, Up, StopsAreOrdered, Accounted, Live
  <2> QED BY <2>1, <2>2, <2>3, <2>4
<1> QED BY <1>1, <1>2, <1>3, <1>4 DEF Unload

(* What the user does to the entry.                                         *)
LEMMA UserKeeps ==
    ASSUME IInv,
           \/ TryAgain \/ RemoveDown \/ \E K \in SUBSET Locks : UpdateKeys(K)
           \/ \E l \in Locks : DeleteDevice(l)
    PROVE  IInv'
<1> USE InstancesAssumption DEF entryVars, runtimeVars, IInv, TypeOK, Instances
<1>1. CASE TryAgain
  <2> USE <1>1 DEF TryAgain
  <2>1. TypeOK'
    <3>1. reload' \in BOOLEAN
      OBVIOUS
    <3> QED BY <3>1 DEF EntryTypeOK, RuntimeTypeOK, Phases, Purposes
  <2>2. (Begun /\ TracksTheLatest /\ DevicesSettled)'
    BY SMTT(20) DEF EntryTypeOK, RuntimeTypeOK, Begun, TracksTheLatest, Up, DevicesSettled
  <2>3. (BlankBefore /\ UpIsWhole)'
    BY SMTT(20) DEF EntryTypeOK, RuntimeTypeOK, Begun, BlankBefore, UpIsWhole, Up, StopsAreOrdered
  <2>4. (StopsAreOrdered /\ Accounted)'
    BY SMTT(20) DEF EntryTypeOK, RuntimeTypeOK, Sessions, Begun, BlankBefore, UpIsWhole, Up, StopsAreOrdered, Accounted, Live
  <2> QED BY <2>1, <2>2, <2>3, <2>4
<1>2. CASE RemoveDown
  <2> USE <1>2 DEF RemoveDown
  <2>1. TypeOK'
    BY SMTT(20) DEF EntryTypeOK, RuntimeTypeOK, Phases, Purposes, Sessions, Begun, BlankBefore
  <2>2. (Begun /\ TracksTheLatest /\ DevicesSettled)'
    BY SMTT(20) DEF EntryTypeOK, RuntimeTypeOK, Begun, TracksTheLatest, Up, DevicesSettled
  <2>3. (BlankBefore /\ UpIsWhole)'
    BY SMTT(20) DEF EntryTypeOK, RuntimeTypeOK, Begun, BlankBefore, UpIsWhole, Up, StopsAreOrdered
  <2>4. (StopsAreOrdered /\ Accounted)'
    BY SMTT(20) DEF EntryTypeOK, RuntimeTypeOK, Sessions, Begun, BlankBefore, UpIsWhole, Up, StopsAreOrdered, Accounted, Live
  <2> QED BY <2>1, <2>2, <2>3, <2>4
<1>3. ASSUME NEW K \in SUBSET Locks, UpdateKeys(K) PROVE IInv'
  <2> USE <1>3 DEF UpdateKeys
  <2>1. TypeOK'
    BY SMTT(20) DEF EntryTypeOK, RuntimeTypeOK, Phases, Purposes, Sessions, Begun, BlankBefore
  <2>2. (Begun /\ TracksTheLatest /\ DevicesSettled)'
    BY SMTT(20) DEF EntryTypeOK, RuntimeTypeOK, Begun, TracksTheLatest, Up, DevicesSettled
  <2>3. (BlankBefore /\ UpIsWhole)'
    BY SMTT(20) DEF EntryTypeOK, RuntimeTypeOK, Begun, BlankBefore, UpIsWhole, Up, StopsAreOrdered
  <2>4. (StopsAreOrdered /\ Accounted)'
    BY SMTT(20) DEF EntryTypeOK, RuntimeTypeOK, Sessions, Begun, BlankBefore, UpIsWhole, Up, StopsAreOrdered, Accounted, Live
  <2> QED BY <2>1, <2>2, <2>3, <2>4
<1>4. ASSUME NEW l \in Locks, DeleteDevice(l) PROVE IInv'
  <2> USE <1>4 DEF DeleteDevice
  <2>1. TypeOK'
    BY SMTT(20) DEF EntryTypeOK, RuntimeTypeOK, Phases, Purposes, Sessions, Begun, BlankBefore
  <2>2. (Begun /\ TracksTheLatest /\ DevicesSettled)'
    BY SMTT(20) DEF EntryTypeOK, RuntimeTypeOK, Begun, TracksTheLatest, Up, DevicesSettled
  <2>3. (BlankBefore /\ UpIsWhole)'
    BY SMTT(20) DEF EntryTypeOK, RuntimeTypeOK, Begun, BlankBefore, UpIsWhole, Up, StopsAreOrdered
  <2>4. (StopsAreOrdered /\ Accounted)'
    BY SMTT(20) DEF EntryTypeOK, RuntimeTypeOK, Sessions, Begun, BlankBefore, UpIsWhole, Up, StopsAreOrdered, Accounted, Live
  <2> QED BY <2>1, <2>2, <2>3, <2>4
<1> QED BY <1>1, <1>2, <1>3, <1>4

-----------------------------------------------------------------------------
(* The invariant holds from the start.                                      *)
LEMMA InitIInv == Init => IInv
<1> SUFFICES ASSUME Init PROVE IInv
  OBVIOUS
<1> USE InstancesAssumption DEF Init, Instances
<1>1. TypeOK
  <2>1. reload \in BOOLEAN
    OBVIOUS
  <2> QED BY <2>1 DEF TypeOK, EntryTypeOK, RuntimeTypeOK, Phases, Purposes, Sessions
<1>2. Begun /\ TracksTheLatest /\ DevicesSettled /\ UpIsWhole
  BY DEF Begun, TracksTheLatest, DevicesSettled, UpIsWhole, Up
<1>3. BlankBefore /\ StopsAreOrdered /\ Accounted
  BY DEF BlankBefore, StopsAreOrdered, Accounted, Live
<1> QED BY <1>1, <1>2, <1>3 DEF IInv

(* Every step keeps it.                                                     *)
LEMMA NextIInv == IInv /\ [Next]_vars => IInv'
<1> SUFFICES ASSUME IInv, [Next]_vars PROVE IInv'
  OBVIOUS
<1>1. CASE Next
  BY <1>1, SetupKeeps, StoppingKeeps, UnloadKeeps, UserKeeps DEF Next
<1>2. CASE UNCHANGED vars
  <2> USE <1>2 DEF vars, entryVars, runtimeVars, IInv, TypeOK
  <2>1. TypeOK'
    <3>1. reload' \in BOOLEAN
      BY Zenon DEF EntryTypeOK
    <3> QED BY <3>1 DEF EntryTypeOK, RuntimeTypeOK
  <2>2. (Begun /\ TracksTheLatest /\ DevicesSettled /\ UpIsWhole)'
    BY DEF Begun, TracksTheLatest, DevicesSettled, UpIsWhole, Up
  <2>3. (BlankBefore /\ StopsAreOrdered)'
    BY DEF BlankBefore, StopsAreOrdered, Instances
  <2>4. Accounted'
    BY DEF Accounted, Live, Up
  <2> QED BY <2>1, <2>2, <2>3, <2>4
<1> QED BY <1>1, <1>2

(* Type correctness: a session is only ever for a lock its instance was     *)
(* configured with, though the keys may change while it is set up           *)
(* (async_setup_entry, async_update_entry of the flows).                    *)
THEOREM TypeCorrect == Spec => []TypeOK
<1>1. Init => IInv
  BY InitIInv
<1>2. IInv /\ [Next]_vars => IInv'
  BY NextIInv
<1>3. IInv => TypeOK
  BY DEF IInv
<1> QED BY <1>1, <1>2, <1>3, PTL DEF Spec

(* However often an entry is set up, reloaded, fails half-way or is taken   *)
(* down: a connection of an earlier runtime, or of an entry that is down,   *)
(* is only still there because its stop is under way or could not confirm   *)
(* the disconnect (async_setup_entry registers the stop before the          *)
(* platforms, _stop_connections).                                           *)
THEOREM LeftoversAccountedFor == Spec => []LeftoversAreAccountedFor
<1>1. Init => IInv
  BY InitIInv
<1>2. IInv /\ [Next]_vars => IInv'
  BY NextIInv
<1>3. IInv => LeftoversAreAccountedFor
  BY DEF IInv, Accounted, Up, LeftoversAreAccountedFor
<1> QED BY <1>1, <1>2, <1>3, PTL DEF Spec

(* Advertisements reach the latest runtime or none (the callbacks are       *)
(* unregistered first when an entry is released).                           *)
THEOREM LatestTracks == Spec => []OnlyTheLatestTracks
<1>1. Init => IInv
  BY InitIInv
<1>2. IInv /\ [Next]_vars => IInv'
  BY NextIInv
<1>3. IInv => OnlyTheLatestTracks
  BY DEF IInv, TracksTheLatest, Up, OnlyTheLatestTracks
<1> QED BY <1>1, <1>2, <1>3, PTL DEF Spec

(* An unload that failed left the runtime as it was (async_unload_entry     *)
(* stops nothing itself).                                                   *)
THEOREM FailedUnloadKeepsRuntime == Spec => []FailedUnloadStopsNothing
<1>1. Init => IInv
  BY InitIInv
<1>2. IInv /\ [Next]_vars => IInv'
  BY NextIInv
<1>3. IInv => FailedUnloadStopsNothing
  BY DEF IInv, UpIsWhole, Up, FailedUnloadStopsNothing
<1> QED BY <1>1, <1>2, <1>3, PTL DEF Spec

(* The devices of a loaded entry are those of its locks, unless a reload is *)
(* due that will bring that about (_prune_stale_devices).                   *)
THEOREM DevicesAreTheLocks == Spec => []DevicesFollowKeys
<1>1. Init => IInv
  BY InitIInv
<1>2. IInv /\ [Next]_vars => IInv'
  BY NextIInv
<1>3. IInv => DevicesFollowKeys
  BY DEF IInv, DevicesSettled, DevicesFollowKeys
<1> QED BY <1>1, <1>2, <1>3, PTL DEF Spec

================================================================================
