--------------------------- MODULE ControlCommand ---------------------------
(***************************************************************************)
(* One explicit lock or unlock, from the caller to the bolt: the session's *)
(* side (connection.py, _async_run_control_command and the two tasks it    *)
(* owns), the SDK adapter that tracks the control stage (client.py,        *)
(* TtlockBleClient) and the lock that acts on the frame.                   *)
(*                                                                         *)
(* Three tasks interleave at their awaits: the caller's, which holds the   *)
(* session lock; the control task, which authenticates and writes the one  *)
(* frame; and, after an ambiguous outcome, the reconciliation task, which  *)
(* only queries.  Callers may be cancelled again and again, both tasks may *)
(* be cancelled from outside, the link may drop, the entry may shut down.  *)
(* How the session is acquired and torn down is LockSession's subject;     *)
(* here an acquisition succeeds or fails and a teardown ends.              *)
(***************************************************************************)
EXTENDS Naturals

CONSTANTS
    Requests,       \* the calls of async_lock and async_unlock
    LockRequests,   \* those of them that ask for the bolt to be locked
    Nobody,         \* no request
    MaxCancels      \* bound: cancellations delivered to the tasks

ASSUME RequestsAssumption ==
    /\ LockRequests \subseteq Requests
    /\ Nobody \notin Requests

ASSUME MaxCancelsAssumption == MaxCancels \in Nat

VARIABLES
    closing,         \* the session's `_closing_event` is set
    asked,           \* requests whose callers wait for the session lock
    holder,          \* the request that holds the session lock, or Nobody
    watch,           \* the await the holder's own coroutine rests at
    verdict,         \* the error it raises once the teardown is over
    cancelled,       \* requests with a CancelledError still to be raised
    cancels,         \* cancellations delivered so far
    control,         \* the await of the control task
    controlStopped,  \* a CancelledError is still to be raised in it
    outcome,         \* what _async_capture_control_outcome returned
    stage,           \* `_ha_control_stage`, kept from command to command
    tracking,        \* `_ha_control_active`
    ackReceived,     \* the acknowledgement _answers saw
    resolver,        \* the await of the reconciliation task
    resolverStopped, \* a CancelledError is still to be raised in it
    resolution,      \* what _async_capture_reconciliation_outcome returned
    linked,          \* the client's is_connected
    bolt,            \* the lock's physical state
    received,        \* requests whose complete frame the lock holds
    reply,           \* the acknowledgement on its way back
    written,         \* per request, control frames whose writing began
    executed,        \* per request, times the lock moved the bolt
    matched,         \* requests a fresh query found in the asked state
    answer           \* per request, what its caller was told

ownerVars   == <<asked, holder, watch, verdict>>
signalVars  == <<cancelled, cancels>>
controlVars == <<control, controlStopped, outcome>>
stageVars   == <<stage, tracking, ackReceived>>
resolveVars == <<resolver, resolverStopped, resolution>>
lockVars    == <<linked, bolt, received, reply>>
historyVars == <<written, executed, matched, answer>>
vars == <<closing, ownerVars, signalVars, controlVars, stageVars, resolveVars,
          lockVars, historyVars>>

Wanted(r) == IF r \in LockRequests THEN "locked" ELSE "unlocked"

Stages == {"BEFORE_AUTH", "AUTH_WRITE_STARTED", "AUTH_SENT", "AUTHENTICATED",
           "CONTROL_WRITE_STARTED", "CONTROL_FRAME_WRITTEN",
           "CONTROL_ACK_RECEIVED", "CONTROL_ACKNOWLEDGED",
           "CONTROL_ACK_REJECTED"}

CommittedStages == {"CONTROL_WRITE_STARTED", "CONTROL_FRAME_WRITTEN",
                    "CONTROL_ACK_RECEIVED", "CONTROL_ACKNOWLEDGED",
                    "CONTROL_ACK_REJECTED"}

Watches    == {"idle", "acquiring", "watching", "revoking", "resolving", "closeout"}
Definite   == {"aborted", "cancelled", "failed", "rejected"}
Outcomes   == Definite \cup {"none", "ok", "unknown"}
Controls   == {"none", "created", "authWriting", "authWaiting", "writing",
               "ackWaiting", "done"}
Resolvers  == {"none", "created", "rejoining", "acquiring", "querying",
               "closeout", "done"}

(* Mutant: the stage of an earlier command counts as this one's.            *)
ControlCommittedHistorically == stage \in CommittedStages

(* control_committed: the first physical control write may have begun.      *)
ControlCommitted == tracking /\ stage \in CommittedStages

Init ==
    /\ closing = FALSE
    /\ asked = {}
    /\ holder = Nobody
    /\ watch = "idle"
    /\ verdict = "none"
    /\ cancelled = {}
    /\ cancels = 0
    /\ control = "none"
    /\ controlStopped = FALSE
    /\ outcome = "none"
    /\ stage = "BEFORE_AUTH"
    /\ tracking = FALSE
    /\ ackReceived = "none"
    /\ resolver = "none"
    /\ resolverStopped = FALSE
    /\ resolution = "none"
    /\ linked = FALSE
    /\ bolt \in {"locked", "unlocked"}
    /\ received = {}
    /\ reply = "none"
    /\ written = [r \in Requests |-> 0]
    /\ executed = [r \in Requests |-> 0]
    /\ matched = {}
    /\ answer = [r \in Requests |-> "none"]

----------------------------------------------------------------------------
(* The caller's coroutine.                                                  *)

(* Leave the session lock: the finally clauses forget a task that is done.  *)
Release(a) ==
    /\ answer' = [answer EXCEPT ![holder] = a]
    /\ holder' = Nobody
    /\ watch' = "idle"
    /\ verdict' = "none"
    /\ cancelled' = cancelled \ {holder}
    /\ control' = IF control = "done" THEN "none" ELSE control
    /\ outcome' = IF control = "done" THEN "none" ELSE outcome
    /\ resolver' = IF resolver = "done" THEN "none" ELSE resolver
    /\ resolution' = IF resolver = "done" THEN "none" ELSE resolution
    /\ UNCHANGED <<closing, asked, cancels, controlStopped, stageVars,
                   resolverStopped, bolt, received, reply, written, executed,
                   matched>>

Ask(r) ==
    /\ r \notin asked \cup {holder}
    /\ answer[r] = "none"
    /\ asked' = asked \cup {r}
    /\ UNCHANGED <<closing, holder, watch, verdict, signalVars, controlVars,
                   stageVars, resolveVars, lockVars, historyVars>>

Take(r) ==
    /\ holder = Nobody
    /\ r \in asked \ cancelled
    /\ holder' = r
    /\ asked' = asked \ {r}
    /\ watch' = "acquiring"
    /\ UNCHANGED <<closing, verdict, signalVars, controlVars, stageVars,
                   resolveVars, lockVars, historyVars>>

(* The CancelledError ends a caller that still waits for the lock.          *)
GiveUp(r) ==
    /\ r \in asked \cap cancelled
    /\ asked' = asked \ {r}
    /\ cancelled' = cancelled \ {r}
    /\ answer' = [answer EXCEPT ![r] = "cancelled"]
    /\ UNCHANGED <<closing, holder, watch, verdict, cancels, controlVars,
                   stageVars, resolveVars, lockVars, written, executed, matched>>

Acquired ==
    /\ watch = "acquiring"
    /\ holder \notin cancelled
    /\ linked' = TRUE
    /\ watch' = "watching"
    /\ control' = "created"
    /\ controlStopped' = FALSE
    /\ outcome' = "none"
    /\ UNCHANGED <<closing, asked, holder, verdict, signalVars, stageVars,
                   resolveVars, bolt, received, reply, historyVars>>

NotAcquired ==
    /\ watch = "acquiring"
    /\ Release(IF holder \in cancelled THEN "cancelled" ELSE "failed")
    /\ UNCHANGED linked

StartResolver ==
    /\ watch' = "resolving"
    /\ resolver' = "created"
    /\ resolverStopped' = FALSE
    /\ resolution' = "none"
    /\ UNCHANGED <<closing, asked, holder, verdict, cancels, controlVars,
                   stageVars, lockVars, historyVars>>

StartCloseout ==
    /\ watch' = "closeout"
    /\ verdict' = outcome
    /\ UNCHANGED <<closing, asked, holder, cancels, controlVars, stageVars,
                   resolveVars, lockVars, historyVars>>

(* The control task is done.  A cancellation that raced its completion is   *)
(* dropped: the outcome is what the caller sees.                            *)
WatchEnds ==
    /\ watch = "watching"
    /\ control = "done"
    /\ \/ /\ outcome \in {"ok", "cancelled"}
          /\ Release(outcome)
          /\ UNCHANGED linked
       \/ /\ outcome = "unknown"
          /\ StartResolver
          /\ cancelled' = cancelled \ {holder}
       \/ /\ outcome \in {"aborted", "failed", "rejected"}
          /\ StartCloseout
          /\ cancelled' = cancelled \ {holder}

(* Mutant: the caller's cancellation leaves the lock without its task.      *)
WatchCancelledLeaving ==
    /\ watch = "watching"
    /\ holder \in cancelled
    /\ control # "done"
    /\ Release("cancelled")
    /\ UNCHANGED linked

(* A committed command is kept whatever the caller; one that is not is      *)
(* cancelled and waited for.                                                *)
WatchCancelled ==
    /\ watch = "watching"
    /\ holder \in cancelled
    /\ control # "done"
    /\ cancelled' = cancelled \ {holder}
    /\ \/ /\ ControlCommitted
          /\ UNCHANGED <<watch, controlStopped>>
       \/ /\ ~ControlCommitted
          /\ watch' = "revoking"
          /\ controlStopped' = TRUE
    /\ UNCHANGED <<closing, asked, holder, verdict, cancels, control, outcome,
                   stageVars, resolveVars, lockVars, historyVars>>

RevokeEnds ==
    /\ watch = "revoking"
    /\ control = "done"
    /\ Release("cancelled")
    /\ UNCHANGED linked

(* Mutant: a result that races a cancellation is not harvested.             *)
ResolveEndsUncancelled ==
    /\ watch = "resolving"
    /\ resolver = "done"
    /\ holder \notin cancelled
    /\ Release(resolution)
    /\ UNCHANGED linked

(* The reconciliation is over; a cancellation that raced it is dropped.     *)
ResolveEnds ==
    /\ watch = "resolving"
    /\ resolver = "done"
    /\ Release(resolution)
    /\ UNCHANGED linked

(* The reconciliation is retained despite repeated cancellation.            *)
ResolveCancelled ==
    /\ watch = "resolving"
    /\ holder \in cancelled
    /\ resolver # "done"
    /\ cancelled' = cancelled \ {holder}
    /\ UNCHANGED <<closing, ownerVars, cancels, controlVars, stageVars,
                   resolveVars, lockVars, historyVars>>

(* The teardown after a definite error; a cancellation during it is raised  *)
(* in the error's place once the teardown has ended.                        *)
CloseoutEnds ==
    /\ watch = "closeout"
    /\ linked' = FALSE
    /\ Release(IF holder \in cancelled THEN "cancelled" ELSE verdict)

----------------------------------------------------------------------------
(* The control task: client.py's _ha_run_control under the capture.         *)

(* The attempt is over: `finally` clears the tracking flag and the task     *)
(* returns the outcome in the same block.                                   *)
ControlEnds(result, last) ==
    /\ control' = "done"
    /\ controlStopped' = FALSE
    /\ outcome' = result
    /\ stage' = last
    /\ tracking' = FALSE
    /\ reply' = "none"

FrameMayLand ==
    \/ received' = received
    \/ control = "writing" /\ received' = received \cup {holder}

(* Cancelled before its first step, a task never runs its coroutine.        *)
ControlNeverStarts ==
    /\ control = "created"
    /\ controlStopped
    /\ control' = "done"
    /\ controlStopped' = FALSE
    /\ outcome' = "cancelled"
    /\ UNCHANGED <<closing, ownerVars, signalVars, stageVars, resolveVars,
                   lockVars, historyVars>>

(* Reset the tracking, pass the gate, begin the authentication write.       *)
ControlStarts ==
    /\ control = "created"
    /\ ~controlStopped
    /\ ackReceived' = "none"
    /\ \/ /\ closing
          /\ ControlEnds("aborted", "BEFORE_AUTH")
       \/ /\ ~closing
          /\ control' = "authWriting"
          /\ stage' = "AUTH_WRITE_STARTED"
          /\ tracking' = TRUE
          /\ UNCHANGED <<controlStopped, outcome, reply>>
    /\ UNCHANGED <<closing, ownerVars, signalVars, resolveVars, linked, bolt,
                   received, historyVars>>

AuthWritten ==
    /\ control = "authWriting"
    /\ ~controlStopped
    /\ linked
    /\ control' = "authWaiting"
    /\ stage' = "AUTH_SENT"
    /\ UNCHANGED <<closing, ownerVars, signalVars, controlStopped, outcome,
                   tracking, ackReceived, resolveVars, lockVars, historyVars>>

AuthFails ==
    /\ control \in {"authWriting", "authWaiting"}
    /\ ~controlStopped
    /\ ControlEnds("failed", stage)
    /\ UNCHANGED <<closing, ownerVars, signalVars, ackReceived, resolveVars,
                   linked, bolt, received, historyVars>>

(* Mutant: the gate before the control write is only the one before auth.   *)
AuthAnsweredUngated ==
    /\ control = "authWaiting"
    /\ ~controlStopped
    /\ linked
    /\ control' = "writing"
    /\ stage' = "CONTROL_WRITE_STARTED"
    /\ written' = [written EXCEPT ![holder] = @ + 1]
    /\ UNCHANGED <<closing, ownerVars, signalVars, controlStopped, outcome,
                   tracking, ackReceived, resolveVars, lockVars, executed,
                   matched, answer>>

(* Authenticated: the second gate, then the control write begins.           *)
AuthAnswered ==
    /\ control = "authWaiting"
    /\ ~controlStopped
    /\ linked
    /\ \/ /\ closing
          /\ ControlEnds("aborted", "AUTHENTICATED")
          /\ UNCHANGED written
       \/ /\ ~closing
          /\ control' = "writing"
          /\ stage' = "CONTROL_WRITE_STARTED"
          /\ written' = [written EXCEPT ![holder] = @ + 1]
          /\ UNCHANGED <<controlStopped, outcome, tracking, reply>>
    /\ UNCHANGED <<closing, ownerVars, signalVars, ackReceived, resolveVars,
                   linked, bolt, received, executed, matched, answer>>

FrameWritten ==
    /\ control = "writing"
    /\ ~controlStopped
    /\ linked
    /\ control' = "ackWaiting"
    /\ stage' = "CONTROL_FRAME_WRITTEN"
    /\ received' = received \cup {holder}
    /\ UNCHANGED <<closing, ownerVars, signalVars, controlStopped, outcome,
                   tracking, ackReceived, resolveVars, linked, bolt, reply,
                   historyVars>>

(* The write fails or the answer never comes.  All chunks of a failed write *)
(* may have reached the lock all the same.                                  *)
ExchangeFails ==
    /\ \/ control = "writing"
       \/ control = "ackWaiting" /\ ackReceived = "none"
    /\ ~controlStopped
    /\ FrameMayLand
    /\ ControlEnds("unknown", stage)
    /\ UNCHANGED <<closing, ownerVars, signalVars, ackReceived, resolveVars,
                   linked, bolt, historyVars>>

(* _answers: the notification names the command it answers.                 *)
AckHeard ==
    /\ control = "ackWaiting"
    /\ reply # "none"
    /\ linked
    /\ ackReceived' = reply
    /\ stage' = "CONTROL_ACK_RECEIVED"
    /\ reply' = "none"
    /\ UNCHANGED <<closing, ownerVars, signalVars, controlVars, tracking,
                   resolveVars, linked, bolt, received, historyVars>>

(* The task resumes with the acknowledgement.                               *)
AckHandled ==
    /\ control = "ackWaiting"
    /\ ackReceived # "none"
    /\ ~controlStopped
    /\ IF ackReceived = "accepted"
       THEN ControlEnds("ok", "CONTROL_ACKNOWLEDGED")
       ELSE ControlEnds("rejected", "CONTROL_ACK_REJECTED")
    /\ UNCHANGED <<closing, ownerVars, signalVars, ackReceived, resolveVars,
                   linked, bolt, received, historyVars>>

(* A CancelledError is one before the commit, an unknown outcome after it.  *)
ControlCancelled ==
    /\ control \notin {"none", "created", "done"}
    /\ controlStopped
    /\ FrameMayLand
    /\ ControlEnds(IF ControlCommitted THEN "unknown" ELSE "cancelled", stage)
    /\ UNCHANGED <<closing, ownerVars, signalVars, ackReceived, resolveVars,
                   linked, bolt, historyVars>>

----------------------------------------------------------------------------
(* The reconciliation task: one fresh query, never a resend.                *)

ResolverMoves(to) ==
    /\ resolver' = to
    /\ UNCHANGED <<closing, ownerVars, signalVars, controlVars, stageVars,
                   bolt, received, reply, written, executed, answer>>

ResolverEnds(result) ==
    /\ ResolverMoves("done")
    /\ resolverStopped' = FALSE
    /\ resolution' = result

(* Cancelled before its first step, or about to query or to reconnect.      *)
ResolverStarts ==
    /\ resolver = "created"
    /\ \/ /\ resolverStopped
          /\ ResolverEnds("unknown")
       \/ /\ ~resolverStopped
          /\ ResolverMoves(IF linked THEN "querying" ELSE "rejoining")
          /\ UNCHANGED <<resolverStopped, resolution>>
    /\ UNCHANGED <<linked, matched>>

(* Mutant: a reconnected reconciliation sends the command once more.        *)
RejoinedResending ==
    /\ ~resolverStopped
    /\ \/ /\ resolver = "rejoining"
          /\ resolver' = "acquiring"
          /\ UNCHANGED <<linked, written>>
       \/ /\ resolver = "acquiring"
          /\ resolver' = "querying"
          /\ linked' = TRUE
          /\ written' = [written EXCEPT ![holder] = @ + 1]
    /\ UNCHANGED <<closing, ownerVars, signalVars, controlVars, stageVars, bolt,
                   received, reply, executed, answer, resolverStopped,
                   resolution, matched>>

(* The dropped client is torn down, then a fresh one is acquired.           *)
Rejoined ==
    /\ ~resolverStopped
    /\ \/ /\ resolver = "rejoining"
          /\ ResolverMoves("acquiring")
          /\ UNCHANGED linked
       \/ /\ resolver = "acquiring"
          /\ ResolverMoves("querying")
          /\ linked' = TRUE
    /\ UNCHANGED <<resolverStopped, resolution, matched>>

(* Mutant: any answer to the query settles the ambiguity.                   *)
QueryAnsweredCredulously ==
    /\ resolver = "querying"
    /\ ~resolverStopped
    /\ linked
    /\ ResolverEnds("ok")
    /\ UNCHANGED <<linked, matched>>

(* The fresh state confirms the command, or the ambiguity stays.            *)
QueryAnswered ==
    /\ resolver = "querying"
    /\ ~resolverStopped
    /\ linked
    /\ \/ /\ bolt = Wanted(holder)
          /\ ResolverEnds("ok")
          /\ matched' = matched \cup {holder}
       \/ /\ bolt # Wanted(holder)
          /\ ResolverMoves("closeout")
          /\ UNCHANGED <<resolverStopped, resolution, matched>>
    /\ UNCHANGED linked

(* No client, no answer, or a CancelledError: the ambiguity stays.          *)
ResolverFails ==
    /\ \/ resolver \in {"acquiring", "querying"}
       \/ resolver = "rejoining" /\ resolverStopped
    /\ ResolverMoves("closeout")
    /\ resolverStopped' = FALSE
    /\ UNCHANGED <<linked, resolution, matched>>

ResolverCloses ==
    /\ resolver = "closeout"
    /\ ResolverEnds("unknown")
    /\ linked' = FALSE
    /\ UNCHANGED matched

----------------------------------------------------------------------------
(* The lock, the link, cancellations and the shutdown.                      *)

(* The lock acts on a frame or refuses it.  Its acknowledgement counts only *)
(* while the exchange that waits for it is there; later it is a push.       *)
LockActs ==
    \E r \in received, obeys \in BOOLEAN :
        /\ received' = received \ {r}
        /\ bolt' = IF obeys THEN Wanted(r) ELSE bolt
        /\ executed' = IF obeys THEN [executed EXCEPT ![r] = @ + 1] ELSE executed
        /\ reply' = IF control = "ackWaiting" /\ holder = r /\ linked
                    THEN IF obeys THEN "accepted" ELSE "refused"
                    ELSE reply
        /\ UNCHANGED <<closing, ownerVars, signalVars, controlVars, stageVars,
                       resolveVars, linked, written, matched, answer>>

BoltTurned ==
    /\ bolt' \in {"locked", "unlocked"} \ {bolt}
    /\ UNCHANGED <<closing, ownerVars, signalVars, controlVars, stageVars,
                   resolveVars, linked, received, reply, historyVars>>

LinkDrops ==
    /\ linked
    /\ linked' = FALSE
    /\ reply' = "none"
    /\ UNCHANGED <<closing, ownerVars, signalVars, controlVars, stageVars,
                   resolveVars, bolt, received, historyVars>>

CancelCaller(r) ==
    /\ r \in asked \cup {holder}
    /\ r # Nobody
    /\ r \notin cancelled
    /\ cancels < MaxCancels
    /\ cancelled' = cancelled \cup {r}
    /\ cancels' = cancels + 1
    /\ UNCHANGED <<closing, ownerVars, controlVars, stageVars, resolveVars,
                   lockVars, historyVars>>

(* Home Assistant cancels the tasks it started when it stops.               *)
CancelTask ==
    /\ cancels < MaxCancels
    /\ cancels' = cancels + 1
    /\ \/ /\ control \notin {"none", "done"}
          /\ controlStopped' = TRUE
          /\ UNCHANGED resolverStopped
       \/ /\ resolver \notin {"none", "done"}
          /\ resolverStopped' = TRUE
          /\ UNCHANGED controlStopped
    /\ UNCHANGED <<closing, ownerVars, cancelled, control, outcome, stageVars,
                   resolver, resolution, lockVars, historyVars>>

Shutdown ==
    /\ ~closing
    /\ closing' = TRUE
    /\ UNCHANGED <<ownerVars, signalVars, controlVars, stageVars, resolveVars,
                   lockVars, historyVars>>

Caller  == Acquired \/ NotAcquired \/ WatchEnds \/ WatchCancelled \/ RevokeEnds
           \/ ResolveEnds \/ ResolveCancelled \/ CloseoutEnds
Control == ControlNeverStarts \/ ControlStarts \/ AuthWritten \/ AuthFails
           \/ AuthAnswered \/ FrameWritten \/ ExchangeFails \/ AckHandled
           \/ ControlCancelled
Resolver == ResolverStarts \/ Rejoined \/ QueryAnswered \/ ResolverFails
            \/ ResolverCloses
World == AckHeard \/ LockActs \/ BoltTurned \/ LinkDrops \/ CancelTask \/ Shutdown

Next ==
    \/ \E r \in Requests : Ask(r) \/ Take(r) \/ GiveUp(r) \/ CancelCaller(r)
    \/ Caller
    \/ Control
    \/ Resolver
    \/ World

Spec == Init /\ [][Next]_vars

(* A task that can step does: the event loop runs every ready task, and     *)
(* each external wait ends by an answer or by its timeout.                  *)
Fairness ==
    /\ WF_vars(Caller)
    /\ WF_vars(Control)
    /\ WF_vars(Resolver)
    /\ \A r \in Requests : WF_vars(Take(r) \/ GiveUp(r))

FairSpec == Spec /\ Fairness

----------------------------------------------------------------------------
CallerTypeOK ==
    /\ closing \in BOOLEAN
    /\ asked \subseteq Requests
    /\ holder \in Requests \cup {Nobody}
    /\ watch \in Watches
    /\ verdict \in Outcomes
    /\ cancelled \subseteq Requests
    /\ cancels \in 0..MaxCancels

ControlTypeOK ==
    /\ control \in Controls
    /\ controlStopped \in BOOLEAN
    /\ outcome \in Outcomes
    /\ stage \in Stages
    /\ tracking \in BOOLEAN
    /\ ackReceived \in {"none", "accepted", "refused"}

ResolverTypeOK ==
    /\ resolver \in Resolvers
    /\ resolverStopped \in BOOLEAN
    /\ resolution \in {"none", "ok", "unknown"}

LockTypeOK ==
    /\ linked \in BOOLEAN
    /\ bolt \in {"locked", "unlocked"}
    /\ received \subseteq Requests
    /\ reply \in {"none", "accepted", "refused"}

HistoryTypeOK ==
    /\ written \in [Requests -> Nat]
    /\ executed \in [Requests -> Nat]
    /\ matched \subseteq Requests
    /\ answer \in [Requests -> Outcomes]

TypeOK == /\ CallerTypeOK
          /\ ControlTypeOK
          /\ ResolverTypeOK
          /\ LockTypeOK
          /\ HistoryTypeOK

(* However often its caller is cancelled, a command that left the session   *)
(* lock left no task behind that could still write or query                 *)
(* (connection.py:594-606 and 628-631).                                     *)
NoTaskOutlivesItsCaller ==
    holder = Nobody => control = "none" /\ resolver = "none"

(* Success has evidence: the lock moved the bolt for this very request, or  *)
(* a query after the ambiguity found it where the caller wants it.          *)
SuccessIsConfirmed ==
    \A r \in Requests : answer[r] = "ok" => executed[r] = 1 \/ r \in matched

(* A caller whose cancellation is taken up before the commit sees the       *)
(* command stopped, not kept (test_historical_stage_cannot_retain...).      *)
CancellationStopsUncommitted ==
    [][\A r \in Requests :
          (r \in cancelled \ cancelled' /\ written[r] = 0 /\ answer'[r] = "none")
          => watch' \in {"revoking", "closeout"}]_vars

(* Once the entry is closing, no control write begins, whatever stage the   *)
(* command had reached (client.py:247, the two boundaries).                 *)
ClosingStartsNoControl ==
    [][closing => written' = written]_vars

(* What the caller was promised: one write at most, and a definite failure  *)
(* that no late frame can belie.                                            *)
Promise == INSTANCE BoltCommand
PromiseSpec == Promise!Spec

(* Every caller is answered: neither repeated cancellations, nor the waits  *)
(* of a command that is retained, nor the requests before it keep it out.   *)
EveryCallerAnswered ==
    \A r \in Requests : r \in asked ~> answer[r] # "none"
=============================================================================
