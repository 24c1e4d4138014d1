------------------------- MODULE StatePublicationProofs -------------------------
(* Proofs about StatePublication, for any number of commands, turns and pushes. *)
EXTENDS StatePublication, TLAPS

(* The command lock admits one call at a time. *)
OneRuns == \A c, d \in Running : c = d

IInv == TypeOK /\ OneRuns /\ MovingIsTruthful /\ SettledOnCommand

(* Between start and end a call is the only one running, and what it asks for *)
(* is a position.                                                             *)
LEMMA TheRunningCall ==
    ASSUME IInv, NEW c \in Commands, call[c].stage = "running"
    PROVE  Running = {c} /\ call[c].to \in Positions
<1> QED
  BY DEF IInv, TypeOK, EntityTypeOK, Calls, NotCalled, Answered, OneRuns, Running

(* A notification leaves the entity with a reading, and within the settle     *)
(* window with what it shows.                                                 *)
LEMMA SyncedStays ==
    ASSUME TypeOK, NEW l \in Readings
    PROVE  /\ Synced(l) \in Readings
           /\ settling => Synced(l) = shown
<1> QED
  BY DEF Synced, Contests, TypeOK, EntityTypeOK, Readings

(* The bolt and the clock. *)
LEMMA WorldStep == ASSUME IInv, Turn \/ WindowEnds PROVE IInv'
<1> USE BoundsAssumption
  DEF IInv, TypeOK, BoltTypeOK, CoordinatorTypeOK, EntityTypeOK, HistoryTypeOK,
      OneRuns, MovingIsTruthful, SettledOnCommand, Running,
      boltVars, coordinatorVars, entityVars, historyVars
<1>1. TypeOK'
  <2>1. CASE Turn
    BY <2>1 DEF Turn, Positions
  <2>2. CASE WindowEnds
    BY <2>2 DEF WindowEnds
  <2> QED
    BY <2>1, <2>2
<1>2. (OneRuns /\ MovingIsTruthful /\ SettledOnCommand)'
  BY DEF Turn, WindowEnds
<1> QED
  BY <1>1, <1>2

(* The poll round. *)
LEMMA RefreshStep == ASSUME IInv, Refresh PROVE IInv'
<1> USE DEF boltVars, coordinatorVars, entityVars, historyVars
<1>1. (BoltTypeOK /\ HistoryTypeOK)'
  BY DEF Refresh, RefreshStarts, PollReads, PollFails, MergeFailed, MergeRead, IInv,
     TypeOK, BoltTypeOK, HistoryTypeOK, Contests, EntityTypeOK
<1>2. CoordinatorTypeOK'
  <2> USE DEF IInv, TypeOK, CoordinatorTypeOK, Polls, Idle
  <2>1. CASE RefreshStarts
    <3>1. poll' \in Polls /\ poll'.stage # "read" /\ requested' \in BOOLEAN
      BY <2>1 DEF RefreshStarts, Known
    <3>2. newest' \in Nat /\ published' \in 0 .. newest'
      BY <2>1 DEF RefreshStarts
    <3> QED
      BY <2>1, <3>1, <3>2 DEF RefreshStarts
  <2>2. ASSUME NEW v \in Readings, PollReads(v) PROVE CoordinatorTypeOK'
    BY <2>2 DEF PollReads
  <2>3. CASE PollFails
    BY <2>3 DEF PollFails
  <2>4. CASE MergeFailed
    BY <2>4 DEF MergeFailed, Known
  <2>5. CASE MergeRead
    <3>1. poll.value \in Readings /\ poll.revision \in 1 .. newest
      BY <2>5 DEF MergeRead
    <3>2. locked' \in Readings /\ published' \in 0 .. newest
      BY <2>5, <3>1 DEF MergeRead
    <3> QED
      BY <2>5, <3>2 DEF MergeRead
  <2> QED
    BY <2>1, <2>2, <2>3, <2>4, <2>5 DEF Refresh
<1>3. locked' \in Readings
  BY <1>2 DEF CoordinatorTypeOK
<1>4. shown' \in Readings /\ (settling => shown' = shown)
  <2>1. CASE MergeFailed \/ MergeRead
    BY <2>1, <1>3, SyncedStays DEF MergeFailed, MergeRead, Notify, IInv, TypeOK,
       CoordinatorTypeOK, EntityTypeOK
  <2>2. CASE ~(MergeFailed \/ MergeRead)
    BY <2>2 DEF Refresh, RefreshStarts, PollReads, PollFails, IInv, TypeOK, EntityTypeOK
  <2> QED
    BY <2>1, <2>2
<1>5. UNCHANGED <<settling, moving, call, queries, pushes, commanded>>
  BY DEF Refresh, RefreshStarts, PollReads, PollFails, MergeFailed, MergeRead
<1> QED
  BY <1>1, <1>2, <1>4, <1>5 DEF IInv, TypeOK, EntityTypeOK, OneRuns, MovingIsTruthful,
     SettledOnCommand, Running

(* Advertisements and supplementary work. *)
LEMMA SupplementaryStep ==
    ASSUME IInv, (\E h \in Hints : Advertise(h)) \/ RetryWakes \/ Shutdown
    PROVE  IInv'
<1> USE DEF boltVars, coordinatorVars, entityVars, historyVars
<1>1. (BoltTypeOK /\ HistoryTypeOK)'
  BY DEF Advertise, RetryWakes, Shutdown, IInv, TypeOK, BoltTypeOK,
     HistoryTypeOK
<1>2. CoordinatorTypeOK'
  <2> USE DEF IInv, TypeOK, CoordinatorTypeOK
  <2>1. ASSUME NEW h \in Hints, Advertise(h) PROVE CoordinatorTypeOK'
    <3>1. requested' \in BOOLEAN
      BY <2>1 DEF Advertise
    <3> QED
      BY <2>1, <3>1 DEF Advertise
  <2>2. CASE RetryWakes
    <3>1. retry' \in BOOLEAN /\ requested' \in BOOLEAN
      BY <2>2 DEF RetryWakes
    <3> QED
      BY <2>2, <3>1 DEF RetryWakes
  <2>3. CASE Shutdown
    <3>1. down' \in BOOLEAN /\ retry' \in BOOLEAN
      BY <2>3 DEF Shutdown
    <3>2. poll' = poll \/ poll' = Idle
      BY <2>3 DEF Shutdown
    <3>3. poll' \in Polls /\ (poll'.stage = "read" => poll'.revision \in 1 .. newest)
      BY <3>2 DEF Polls, Idle
    <3> QED
      BY <2>3, <3>1, <3>3 DEF Shutdown
  <2> QED
    BY <2>1, <2>2, <2>3
<1>3. shown' \in Readings /\ (settling => shown' = shown)
  <2>1. ASSUME NEW h \in Hints, Advertise(h)
        PROVE  shown' \in Readings /\ (settling => shown' = shown)
    BY <2>1, SyncedStays DEF Advertise, Notify, IInv, TypeOK, CoordinatorTypeOK, EntityTypeOK
  <2> QED
    BY <2>1 DEF RetryWakes, Shutdown, IInv, TypeOK, EntityTypeOK
<1>4. UNCHANGED <<settling, moving, call, queries, pushes, commanded>>
  BY DEF Advertise, RetryWakes, Shutdown
<1> QED
  BY <1>1, <1>2, <1>3, <1>4 DEF IInv, TypeOK, EntityTypeOK, OneRuns, MovingIsTruthful,
     SettledOnCommand, Running

(* A service call. *)
LEMMA CommandStep == ASSUME IInv, NEW c \in Commands, Command(c) PROVE IInv'
<1> USE DEF boltVars, coordinatorVars, entityVars, historyVars
<1>1. ASSUME NEW to \in Positions, Ask(c, to) PROVE IInv'
  <2>1. TypeOK'
    BY <1>1 DEF Ask, IInv, TypeOK, BoltTypeOK, CoordinatorTypeOK, EntityTypeOK,
       HistoryTypeOK, Calls, Answered, NotCalled
  <2>2. Running' = Running /\ \A d \in Running : call'[d] = call[d]
    BY <1>1 DEF Ask, IInv, TypeOK, EntityTypeOK, Running, NotCalled, Answered
  <2> QED
    BY <1>1, <2>1, <2>2 DEF Ask, IInv, OneRuns, MovingIsTruthful, SettledOnCommand
<1>2. CASE Start(c)
  <2>1. call[c].to \in Positions
    BY <1>2 DEF Start, IInv, TypeOK, EntityTypeOK, Calls, NotCalled, Answered
  <2>2. TypeOK'
    BY <1>2, <2>1 DEF Start, IInv, TypeOK, BoltTypeOK, CoordinatorTypeOK, EntityTypeOK,
       HistoryTypeOK, Calls, NotCalled, Answered
  <2>3. Running' = {c} /\ call'[c].to = call[c].to
    BY <1>2 DEF Start, IInv, TypeOK, EntityTypeOK, Running
  <2> QED
    BY <1>2, <2>1, <2>2, <2>3 DEF Start, IInv, OneRuns, MovingIsTruthful,
       SettledOnCommand, Positions
<1>3. CASE Succeed(c)
  <2>1. Running = {c} /\ call[c].to \in Positions
    BY <1>3, TheRunningCall DEF Succeed
  <2>2. TypeOK'
    <3>1. BoltTypeOK' /\ HistoryTypeOK'
      BY <1>3, <2>1 DEF Succeed, Apply, IInv, TypeOK, BoltTypeOK, HistoryTypeOK, Readings
    <3>2. CoordinatorTypeOK'
      <4>1. newest' = newest + 1 /\ published' = newest + 1 /\ locked' \in Readings
        BY <1>3, <2>1 DEF Succeed, Apply, Readings
      <4> QED
        BY <1>3, <2>1, <4>1 DEF Succeed, IInv, TypeOK, CoordinatorTypeOK
    <3>3. EntityTypeOK'
      BY <1>3, <2>1 DEF Succeed, IInv, TypeOK, EntityTypeOK, Readings, Calls, NotCalled, Answered
    <3> QED
      BY <3>1, <3>2, <3>3 DEF TypeOK
  <2>3. Running' = {}
    BY <1>3, <2>1 DEF Succeed, IInv, TypeOK, EntityTypeOK, Running, Answered
  <2> QED
    BY <1>3, <2>2, <2>3 DEF Succeed, IInv, OneRuns, MovingIsTruthful, SettledOnCommand
<1>4. CASE Fail(c)
  <2>1. Running = {c} /\ call[c].to \in Positions
    BY <1>4, TheRunningCall DEF Fail
  <2>2. TypeOK'
    BY <1>4, <2>1 DEF Fail, IInv, TypeOK, BoltTypeOK, CoordinatorTypeOK, EntityTypeOK,
       HistoryTypeOK, Calls, NotCalled, Answered
  <2>3. Running' = {}
    BY <1>4, <2>1 DEF Fail, IInv, TypeOK, EntityTypeOK, Running, Answered
  <2> QED
    BY <1>4, <2>2, <2>3 DEF Fail, IInv, OneRuns, MovingIsTruthful, SettledOnCommand
<1>5. CASE GiveUp(c)
  <2>1. TypeOK'
    BY <1>5 DEF GiveUp, IInv, TypeOK, BoltTypeOK, CoordinatorTypeOK, EntityTypeOK,
       HistoryTypeOK, Calls, NotCalled, Answered
  <2>2. Running' = Running /\ \A d \in Running : call'[d] = call[d]
    BY <1>5 DEF GiveUp, IInv, TypeOK, EntityTypeOK, Running, Answered
  <2> QED
    BY <1>5, <2>1, <2>2 DEF GiveUp, IInv, OneRuns, MovingIsTruthful, SettledOnCommand
<1> QED
  BY <1>1, <1>2, <1>3, <1>4, <1>5 DEF Command

(* A push notification and the query behind it. *)
LEMMA PushStep == ASSUME IInv, Push \/ Query PROVE IInv'
<1> USE BoundsAssumption DEF boltVars, coordinatorVars, entityVars, historyVars
<1>1. CASE Push \/ QueryDropped
  BY <1>1 DEF Push, QueryDropped, IInv, TypeOK, BoltTypeOK, CoordinatorTypeOK,
     EntityTypeOK, HistoryTypeOK, OneRuns, MovingIsTruthful, SettledOnCommand, Running
<1>2. ASSUME NEW v \in Positions, QueryReads(v) PROVE IInv'
  <2>1. TypeOK'
    <3>1. BoltTypeOK' /\ HistoryTypeOK'
      BY <1>2 DEF QueryReads, Apply, IInv, TypeOK, BoltTypeOK, HistoryTypeOK, Readings
    <3>2. CoordinatorTypeOK'
      <4>1. newest' = newest + 1 /\ published' = newest + 1 /\ locked' \in Readings
        BY <1>2 DEF QueryReads, Apply, Readings
      <4> QED
        BY <1>2, <4>1 DEF QueryReads, IInv, TypeOK, CoordinatorTypeOK
    <3>3. EntityTypeOK'
      BY <1>2 DEF QueryReads, IInv, TypeOK, EntityTypeOK, Readings, Calls, NotCalled, Answered
    <3> QED
      BY <3>1, <3>2, <3>3 DEF TypeOK
  <2>2. settling => shown' = shown
    BY <1>2 DEF QueryReads, Contests
  <2> QED
    BY <1>2, <2>1, <2>2 DEF QueryReads, IInv, OneRuns, MovingIsTruthful,
       SettledOnCommand, Running
<1> QED
  BY <1>1, <1>2 DEF Query

(* The inductive invariant. *)
THEOREM Invariance == Spec => []IInv
<1>1. Init => IInv
  <2> SUFFICES ASSUME Init PROVE IInv
    OBVIOUS
  <2>1. BoltTypeOK /\ HistoryTypeOK
    BY BoundsAssumption DEF Init, BoltTypeOK, HistoryTypeOK, Readings
  <2>2. CoordinatorTypeOK
    <3>1. requested \in BOOLEAN /\ retry \in BOOLEAN /\ down \in BOOLEAN
      BY DEF Init
    <3>2. poll \in Polls /\ poll.stage # "read"
      BY DEF Init, Polls, Idle
    <3>3. hint \in Hints
      BY DEF Init, Hints, Readings
    <3> QED
      BY <3>1, <3>2, <3>3 DEF Init, CoordinatorTypeOK, Readings
  <2>3. EntityTypeOK
    <3>1. settling \in BOOLEAN
      BY DEF Init
    <3>2. call \in [Commands -> Calls]
      BY DEF Init, Calls
    <3> QED
      BY BoundsAssumption, <3>1, <3>2 DEF Init, EntityTypeOK, Readings
  <2>4. Running = {}
    BY DEF Init, Running, NotCalled, Answered
  <2> QED
    BY <2>1, <2>2, <2>3, <2>4 DEF Init, IInv, TypeOK, OneRuns, MovingIsTruthful,
       SettledOnCommand
<1>2. IInv /\ [Next]_vars => IInv'
  <2>1. CASE UNCHANGED vars
    BY <2>1 DEF vars, boltVars, coordinatorVars, entityVars, historyVars, IInv, TypeOK,
       BoltTypeOK, CoordinatorTypeOK, EntityTypeOK, HistoryTypeOK, OneRuns,
       MovingIsTruthful, SettledOnCommand, Running
  <2> QED
    BY <2>1, WorldStep, RefreshStep, SupplementaryStep, CommandStep, PushStep DEF Next
<1> QED
  BY <1>1, <1>2, PTL DEF Spec

(* The types hold, and with them that nothing is published that was not     *)
(* observed: published never runs ahead of the revision counter.            *)
THEOREM TypeCorrect == Spec => []TypeOK
<1> QED
  BY Invariance, PTL DEF IInv

(* The entity claims a movement exactly while a command is under way, for   *)
(* any number of overlapping calls (lock.py:256 and 286).                   *)
THEOREM MovementIsReal == Spec => []MovingIsTruthful
<1> QED
  BY Invariance, PTL DEF IInv

(* Nothing but a command moves the entity within the settle window          *)
(* (lock.py:157 and 215).                                                   *)
THEOREM WindowHolds == Spec => []SettledOnCommand
<1> QED
  BY Invariance, PTL DEF IInv

(* The coordinator's state only changes to a newer observation              *)
(* (coordinator.py:235).                                                    *)
THEOREM AuthorityAdvances == Spec => NeverGoesBack
<1>1. IInv /\ [Next]_vars => (locked' # locked => published' > published)
  <2> SUFFICES ASSUME IInv, [Next]_vars, locked' # locked PROVE published' > published
    OBVIOUS
  <2> USE DEF coordinatorVars, IInv, TypeOK, CoordinatorTypeOK
  <2>1. CASE UNCHANGED vars
    BY <2>1 DEF vars
  <2>2. CASE Refresh
    BY <2>2 DEF Refresh, RefreshStarts, PollReads, PollFails, MergeFailed, MergeRead
  <2>3. CASE Turn \/ WindowEnds \/ Push
    BY <2>3 DEF Turn, WindowEnds, Push
  <2>4. ASSUME NEW h \in Hints, Advertise(h) PROVE FALSE
    BY <2>4 DEF Advertise
  <2>5. CASE RetryWakes \/ Shutdown
    BY <2>5 DEF RetryWakes, Shutdown
  <2>6. ASSUME NEW c \in Commands, Command(c) PROVE published' > published
    BY <2>6 DEF Command, Ask, Start, Succeed, Fail, GiveUp, Apply
  <2>7. CASE Query
    BY <2>7 DEF Query, QueryReads, QueryDropped, Apply
  <2> QED
    BY <2>1, <2>2, <2>3, <2>4, <2>5, <2>6, <2>7 DEF Next
<1> QED
  BY <1>1, Invariance, PTL DEF Spec, NeverGoesBack

=============================================================================
