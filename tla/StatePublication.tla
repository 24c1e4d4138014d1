---------------------------- MODULE StatePublication ----------------------------
(***************************************************************************)
(* How one lock's state reaches Home Assistant: coordinator.py             *)
(* (TtlockBleDataUpdateCoordinator, for one MAC) and lock.py               *)
(* (TtlockBleLock).  Readings come from polls, which are stamped when the  *)
(* lock answers and merged when the slowest lock of the round has          *)
(* answered, from queries behind a push notification, and from confirmed   *)
(* commands, both published in the block that heard the answer.            *)
(*                                                                         *)
(* An action is the code between two awaits.  Every piece of state is kept *)
(* per MAC and the locks of an entry only meet in the gather of a poll     *)
(* round, so the other locks are the delay between PollReads and Merge.    *)
(* Battery levels, RSSI and the log fetch a merged reading starts are left *)
(* out: neither decides a state.                                           *)
(***************************************************************************)
EXTENDS Naturals

CONSTANTS
    Commands,   \* lock and unlock service calls, numbered as they are made
    MaxTurns,   \* how often the bolt is moved by hand, key or auto-lock
    MaxPushes   \* how many push notifications arrive

ASSUME BoundsAssumption ==
    Commands \subseteq Nat /\ MaxTurns \in Nat /\ MaxPushes \in Nat

VARIABLES
    bolt,       \* where the bolt is
    turns,      \* how often it was moved by hand
    locked,     \* coordinator.data[mac]["locked"]
    newest,     \* _observation_revisions[mac]
    published,  \* _state_attribution[mac].revision, 0 before the first
    poll,       \* this lock's part of the running _async_update_data
    hint,       \* _advertisement_hints[mac] and _new_records_hints[mac]
    requested,  \* mac \in _active_scan_requested
    retry,      \* a task runs _async_retry_unknown_state
    down,       \* async_shutdown has cancelled the supplementary work
    shown,      \* _attr_is_locked
    settling,   \* time.monotonic() < _settle_until
    moving,     \* _attr_is_locking and _attr_is_unlocking
    call,       \* where each service call stands, and what it asks for
    queries,    \* tasks running _async_query_and_apply
    pushes,     \* push notifications so far
    commanded   \* history: what the last successful command asked for

coordinatorVars == <<locked, newest, published, poll, hint, requested, retry, down>>
entityVars == <<shown, settling, moving, call, queries, pushes>>
boltVars == <<bolt, turns>>
historyVars == <<commanded>>
vars == <<boltVars, coordinatorVars, entityVars, historyVars>>

-----------------------------------------------------------------------------
Positions == {"locked", "unlocked"}

\* bool | None: what the SDK's tri-state lock value is translated to.
Readings == Positions \union {"unknown"}

\* A settled lock answers where its bolt is; right after a command its answer
\* may lag, and it may always answer with a battery level only.
Answers == {"unknown"} \union (IF settling THEN Positions ELSE {bolt})

Idle == [stage |-> "idle"]
Polls ==
    {Idle} \union [stage : {"asking"}, active : BOOLEAN] \union [stage : {"failed"}]
    \union [stage : {"read"}, value : Readings, revision : Nat]

Hints == [state : Readings, records : BOOLEAN]

NotCalled == [stage |-> "none", to |-> "unknown"]
Answered == [stage |-> "done", to |-> "unknown"]
Calls == {NotCalled, Answered} \union [stage : {"waiting", "running"}, to : Positions]

Running == {c \in Commands : call[c].stage = "running"}

\* The settle window is there to discard this reading.
Contests(v) == settling /\ v \in Positions /\ v # shown

Known == locked # "unknown"

Init ==
    /\ bolt \in Positions
    /\ turns = 0
    /\ locked = "unknown"
    /\ newest = 0
    /\ published = 0
    /\ poll = Idle
    /\ hint = [state |-> "unknown", records |-> FALSE]
    /\ requested = FALSE
    /\ retry = FALSE
    /\ down = FALSE
    /\ shown = "unknown"
    /\ settling = FALSE
    /\ moving = "no"
    /\ call = [c \in Commands |-> NotCalled]
    /\ queries = 0
    /\ pushes = 0
    /\ commanded = "unknown"

-----------------------------------------------------------------------------
(***************************************************************************)
(* What both sides share.                                                  *)
(***************************************************************************)

\* Mutant: the suppression forgets to look at the clock.
SyncedNeverFlipping(l) == IF l = "unknown" \/ shown \in Positions THEN shown ELSE l

\* _sync_from_coordinator on a notification that says l: an unknown state
\* leaves the entity alone, and so does a conflicting one in the window.
Synced(l) == IF l = "unknown" \/ Contests(l) THEN shown ELSE l

\* Listeners are notified while the entity is there to listen.
Notify(l) == shown' = IF down THEN shown ELSE Synced(l)

\* async_apply_authoritative_state: a new revision, published at once.
Apply(v) ==
    /\ locked' = v
    /\ newest' = newest + 1
    /\ published' = newest + 1

-----------------------------------------------------------------------------
(***************************************************************************)
(* The world: the bolt, the clock.                                         *)
(***************************************************************************)

Turn ==
    /\ turns < MaxTurns
    /\ turns' = turns + 1
    /\ bolt' \in Positions \ {bolt}
    /\ UNCHANGED <<coordinatorVars, entityVars, historyVars>>

WindowEnds ==
    /\ settling
    /\ settling' = FALSE
    /\ UNCHANGED <<boltVars, coordinatorVars, historyVars, shown, moving, call, queries,
                   pushes>>

-----------------------------------------------------------------------------
(***************************************************************************)
(* A poll round, _async_update_data.  Home Assistant runs one at a time    *)
(* and always schedules the next, so the explicit refresh requests add no  *)
(* behaviour: they may be dropped while a round runs.  With no result      *)
(* waiting to be merged only the order of past observations matters, and   *)
(* they are renumbered to keep the revisions finite.                       *)
(***************************************************************************)

RefreshStarts ==
    /\ poll = Idle
    /\ ~down
    /\ poll' = [stage |-> "asking", active |-> requested \/ ~Known]
    /\ requested' = FALSE
    /\ published' = IF published = 0 THEN 0 ELSE 1
    /\ newest' = published'
    /\ UNCHANGED <<boltVars, entityVars, historyVars, locked, hint, retry, down>>

\* _async_poll: the lock's answer is stamped in the block that heard it.
PollReads(v) ==
    /\ poll.stage = "asking"
    /\ v \in Answers
    /\ newest' = newest + 1
    /\ poll' = [stage |-> "read", value |-> v, revision |-> newest + 1]
    /\ UNCHANGED <<boltVars, entityVars, historyVars, locked, published, hint, requested,
                   retry, down>>

\* The query returned None or raised.
PollFails ==
    /\ poll.stage = "asking"
    /\ poll' = [stage |-> "failed"]
    /\ UNCHANGED <<boltVars, entityVars, historyVars, locked, newest, published, hint,
                   requested, retry, down>>

\* Mutant: the active-scan requests are cleared when the round ends.
MergeFailedClearing ==
    /\ poll.stage = "failed"
    /\ poll' = Idle
    /\ retry' = (retry \/ ~Known)
    /\ requested' = FALSE
    /\ Notify(locked)
    /\ UNCHANGED <<boltVars, historyVars, locked, newest, published, hint,
                   down, settling, moving, call, queries, pushes>>

\* The loop over the gathered results, for a poll that failed.
MergeFailed ==
    /\ poll.stage = "failed"
    /\ poll' = Idle
    /\ retry' = (retry \/ ~Known)
    /\ Notify(locked)
    /\ UNCHANGED <<boltVars, historyVars, locked, newest, published, hint, requested,
                   down, settling, moving, call, queries, pushes>>

\* Mutant: the merge does not compare revisions.
MergeReadAnyway ==
    /\ poll.stage = "read"
    /\ poll' = Idle
    /\ IF poll.value # "unknown"
       THEN /\ locked' = poll.value
            /\ published' = poll.revision
       ELSE UNCHANGED <<locked, published>>
    /\ Notify(locked')
    /\ UNCHANGED <<boltVars, newest, hint, requested, retry, down, settling, moving, call,
                   queries, pushes, commanded>>

\* The same for a reading: skipped when something newer is published, and
\* without authority when it has no position.
MergeRead ==
    LET adopted == poll.revision > published /\ poll.value # "unknown" IN
    /\ poll.stage = "read"
    /\ poll' = Idle
    /\ IF adopted
       THEN /\ locked' = poll.value
            /\ published' = poll.revision
       ELSE UNCHANGED <<locked, published>>
    /\ Notify(locked')
    /\ UNCHANGED <<boltVars, newest, hint, requested, retry, down, settling, moving, call,
                   queries, pushes, commanded>>

Refresh ==
    \/ RefreshStarts
    \/ \E v \in Readings : PollReads(v)
    \/ PollFails
    \/ MergeFailed
    \/ MergeRead

-----------------------------------------------------------------------------
(***************************************************************************)
(* Advertisements and supplementary work.                                  *)
(***************************************************************************)

\* async_apply_advertisement: a new battery level notifies the listeners, a
\* changed hint only asks for an active-capable refresh.
Advertise(h) ==
    /\ ~down
    /\ h.state \in Positions
    /\ hint' = h
    /\ requested' = (\/ requested
                     \/ hint.state # "unknown" /\ hint.state # h.state
                     \/ h.records /\ ~hint.records)
    /\ Notify(locked)
    /\ UNCHANGED <<boltVars, historyVars, locked, newest, published, poll, retry, down,
                   settling, moving, call, queries, pushes>>

\* One round of _async_retry_unknown_state after its delay.
RetryWakes ==
    /\ retry
    /\ retry' = ~Known
    /\ requested' = (requested \/ ~Known)
    /\ UNCHANGED <<boltVars, entityVars, historyVars, locked, newest, published, poll, hint,
                   down>>

\* async_shutdown.  The first refresh and the scheduled ones are cancelled
\* with the entry; the bare task an advertisement started goes on.
Shutdown ==
    /\ ~down
    /\ down' = TRUE
    /\ retry' = FALSE
    /\ poll' \in {poll, Idle}
    /\ UNCHANGED <<boltVars, entityVars, historyVars, locked, newest, published, hint,
                   requested>>

-----------------------------------------------------------------------------
(***************************************************************************)
(* Commands, _async_run_command of the entity.                             *)
(***************************************************************************)

Ask(c, to) ==
    /\ ~down
    /\ call[c] = NotCalled
    /\ \A d \in Commands : d < c => call[d] # NotCalled
    /\ call' = [call EXCEPT ![c] = [stage |-> "waiting", to |-> to]]
    /\ UNCHANGED <<boltVars, coordinatorVars, historyVars, shown, settling, moving, queries,
                   pushes>>

\* Mutant: only the wire is serialised, not the bookkeeping.
StartUnserialised(c) ==
    /\ call[c].stage = "waiting"
    /\ call' = [call EXCEPT ![c].stage = "running"]
    /\ moving' = call[c].to
    /\ UNCHANGED <<boltVars, coordinatorVars, historyVars, shown, settling, queries, pushes>>

\* _command_lock is taken and the transitional state published.
Start(c) ==
    /\ call[c].stage = "waiting"
    /\ Running = {}
    /\ call' = [call EXCEPT ![c].stage = "running"]
    /\ moving' = call[c].to
    /\ UNCHANGED <<boltVars, coordinatorVars, historyVars, shown, settling, queries, pushes>>

Succeed(c) ==
    /\ call[c].stage = "running"
    /\ call' = [call EXCEPT ![c] = Answered]
    /\ bolt' = call[c].to
    /\ shown' = call[c].to
    /\ settling' = TRUE
    /\ commanded' = call[c].to
    /\ moving' = "no"
    /\ Apply(call[c].to)
    /\ UNCHANGED <<turns, poll, hint, requested, retry, down, queries, pushes>>

\* TTLockError or cancellation: nothing is known of the bolt, and the finally
\* clause drops the transitional state.
Fail(c) ==
    /\ call[c].stage = "running"
    /\ call' = [call EXCEPT ![c] = Answered]
    /\ bolt' \in {bolt, call[c].to}
    /\ moving' = "no"
    /\ UNCHANGED <<turns, coordinatorVars, historyVars, shown, settling, queries, pushes>>

\* Cancelled while it waits for _command_lock.
GiveUp(c) ==
    /\ call[c].stage = "waiting"
    /\ call' = [call EXCEPT ![c] = Answered]
    /\ UNCHANGED <<boltVars, coordinatorVars, historyVars, shown, settling, moving, queries,
                   pushes>>

Command(c) ==
    \/ \E to \in Positions : Ask(c, to)
    \/ Start(c)
    \/ Succeed(c)
    \/ Fail(c)
    \/ GiveUp(c)

-----------------------------------------------------------------------------
(***************************************************************************)
(* Push notifications: hints that start a query.                           *)
(***************************************************************************)

\* _on_lock_event
Push ==
    /\ ~down
    /\ pushes < MaxPushes
    /\ pushes' = pushes + 1
    /\ queries' = queries + 1
    /\ UNCHANGED <<boltVars, coordinatorVars, historyVars, shown, settling, moving, call>>

\* Mutant: the reading is applied without regard to the settle window.
QueryReadsRegardless(v) ==
    /\ queries > 0
    /\ v \in Answers \ {"unknown"}
    /\ queries' = queries - 1
    /\ shown' = v
    /\ Apply(v)
    /\ UNCHANGED <<boltVars, poll, hint, requested, retry, down, settling, moving, call,
                   pushes, commanded>>

\* _async_query_and_apply when the query has answered v.
QueryReads(v) ==
    /\ queries > 0
    /\ v \in Answers \ {"unknown"}
    /\ ~Contests(v)
    /\ queries' = queries - 1
    /\ shown' = v
    /\ Apply(v)
    /\ UNCHANGED <<boltVars, poll, hint, requested, retry, down, settling, moving, call,
                   pushes, commanded>>

\* No answer, an answer without a position, or one the window discards.
QueryDropped ==
    /\ queries > 0
    /\ queries' = queries - 1
    /\ UNCHANGED <<boltVars, coordinatorVars, historyVars, shown, settling, moving, call,
                   pushes>>

Query == (\E v \in Positions : QueryReads(v)) \/ QueryDropped

-----------------------------------------------------------------------------
Next ==
    \/ Turn
    \/ WindowEnds
    \/ Refresh
    \/ \E h \in Hints : Advertise(h)
    \/ RetryWakes
    \/ Shutdown
    \/ \E c \in Commands : Command(c)
    \/ Push
    \/ Query

Spec == Init /\ [][Next]_vars

(***************************************************************************)
(* Home Assistant schedules a refresh after every one that ends, the event *)
(* loop runs what is ready, a poll is answered or times out, and a lock    *)
(* that is asked again and again is in range at some of those times.       *)
(***************************************************************************)
Fairness ==
    /\ WF_vars(RefreshStarts)
    /\ WF_vars(PollFails)
    /\ SF_vars(\E v \in Positions : PollReads(v))
    /\ WF_vars(MergeFailed)
    /\ WF_vars(MergeRead)
    /\ WF_vars(WindowEnds)
    /\ WF_vars(Query)
    /\ \A c \in Commands : WF_vars(Start(c)) /\ WF_vars(Succeed(c) \/ Fail(c))

FairSpec == Spec /\ Fairness

-----------------------------------------------------------------------------
(***************************************************************************)
(* Properties.                                                             *)
(***************************************************************************)

\* The type invariant: the bolt, the coordinator, the entity, what both saw.
BoltTypeOK == bolt \in Positions /\ turns \in 0 .. MaxTurns

CoordinatorTypeOK ==
    /\ locked \in Readings
    /\ newest \in Nat /\ published \in 0 .. newest
    /\ poll \in Polls
    /\ poll.stage = "read" => poll.revision \in 1 .. newest
    /\ hint \in Hints
    /\ requested \in BOOLEAN /\ retry \in BOOLEAN /\ down \in BOOLEAN

EntityTypeOK ==
    /\ shown \in Readings
    /\ settling \in BOOLEAN
    /\ moving \in Positions \union {"no"}
    /\ call \in [Commands -> Calls]
    /\ pushes \in 0 .. MaxPushes /\ queries \in 0 .. pushes

HistoryTypeOK == commanded \in Readings

TypeOK == BoltTypeOK /\ CoordinatorTypeOK /\ EntityTypeOK /\ HistoryTypeOK

\* The coordinator's state only ever changes to a newer observation: a poll
\* that answered before a command or query published must not undo it when
\* the slowest lock lets the round end, and no advertisement decides a state.
NeverGoesBack == [][locked' # locked => published' > published]_vars

\* The transitional state tells the truth: it is there exactly while a command
\* is under way, and says what that command does.
MovingIsTruthful ==
    /\ moving = "no" <=> Running = {}
    /\ \A c \in Running : moving = call[c].to

\* Within the settle window the entity shows what was commanded last, whatever
\* polls, push queries and advertisements say meanwhile.
SettledOnCommand == settling => shown = commanded

\* A changed advertisement is looked into: a request for an active-capable
\* refresh is honoured, also one made while a refresh is already running.
ActivityIsQueried == requested ~> (down \/ (poll.stage = "asking" /\ poll.active))

\* Once the bolt rests the entity comes to show where it is, and stays there.
ShowsTheBolt == <>[](down \/ shown = bolt)


\* async_shutdown's comment: supplementary work is cancelled before the
\* coordinator is discarded, so none is left or started once it has run.
ShutdownEndsRetries == down => ~retry

=============================================================================
