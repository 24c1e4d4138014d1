----------------------------- MODULE Administration -----------------------------
(***************************************************************************)
(* What administers one lock while its bolt is in use: the panel's read    *)
(* and opt-out (management_http.py), the access inventory and legacy PIN   *)
(* actions (services.py), and the connection's one preemptible inventory   *)
(* task (connection.py:405) with the diagnostics of its last attempt.      *)
(*                                                                         *)
(* The session itself is LockSession's and is only its `_lock` here, the   *)
(* private records are AccessRecords' and are only the opt-out here.  The  *)
(* order in which waiters get the lock is left open.                       *)
(***************************************************************************)

CONSTANTS
    Requests,   \* bound: requests that can be under way at a time
    None

ASSUME NoneAssumption == None \notin Requests

VARIABLES
    kind,       \* what each request is for
    step,       \* where it stands
    read,       \* the inventory task of a read: where it stands
    outcome,    \* ... and what it has come to
    cancelled,  \* reads with a CancelledError still to be raised in the task
    timedOut,   \* panel reads whose forty seconds are over
    holder,     \* the request that holds `_lock`
    task,       \* `_inventory_task`, by the read it belongs to
    diagnostics,\* `_inventory_diagnostics`
    closing,    \* `_closing`
    records,    \* the private records are there, or administration is blocked
    disabled,   \* legacy PIN writes are switched off
    optedOut,   \* history: an opt-out was answered and not asked back since
    late,       \* history: PIN writes under way that were submitted after it
    closed,     \* history: reads whose own teardown was confirmed
    certified   \* history: panel reads that came to count as fresh ones

readVars   == <<read, outcome, cancelled, timedOut, closed>>
gateVars   == <<records, disabled, optedOut, late>>
sharedVars == <<holder, task, diagnostics, closing>>
vars == <<kind, step, certified, readVars, gateVars, sharedVars>>

Reads    == {"panelRead", "inventory"}
Settings == {"optOut", "optIn"}
Kinds    == Reads \cup Settings \cup {"none", "pinWrite", "control"}

(* A read awaits its task, and is "woken" when the task is over; others wait *)
(* for `_lock` and hold it, or save a setting.                               *)
Steps == {"idle", "reading", "woken", "queued", "holding", "saving"}

TaskSteps == {"none", "queued", "acquiring", "inventory", "closing", "over"}

(* Of the last attempt: that it has begun, and cleanup_confirmed in the end. *)
Diagnostics == {"none", "in_progress", "confirmed", "uncertain"}

Init ==
    /\ kind = [r \in Requests |-> "none"]
    /\ step = [r \in Requests |-> "idle"]
    /\ read = [r \in Requests |-> "none"]
    /\ outcome = [r \in Requests |-> "none"]
    /\ cancelled = {} /\ timedOut = {} /\ late = {} /\ closed = {} /\ certified = {}
    /\ holder = None
    /\ task = None
    /\ diagnostics = "none"
    /\ closing = FALSE
    /\ records \in BOOLEAN
    /\ disabled = FALSE
    /\ optedOut = FALSE

-----------------------------------------------------------------------------
ControlRequests == {r \in Requests : kind[r] = "control" /\ step[r] # "idle"}

TaskRunning == task # None /\ read[task] # "over"

(* A task that has ended wakes its request before anything new is heard of  *)
(* the lock: its callback is in the event loop's queue already.             *)
LoopFree == \A r \in Requests : step[r] # "woken"

(* task.cancel(), without effect on a task that is over.                    *)
CancelTask == cancelled' = IF TaskRunning THEN cancelled \cup {task} ELSE cancelled

(* The request is through.                                                  *)
Answer(r) ==
    /\ step' = [step EXCEPT ![r] = "idle"]
    /\ kind' = [kind EXCEPT ![r] = "none"]

Submit(r, k, s) ==
    /\ step' = [step EXCEPT ![r] = s]
    /\ kind' = [kind EXCEPT ![r] = k]
    /\ certified' = certified \ {r}

-----------------------------------------------------------------------------
(* An inventory read: _async_start_inventory.                               *)

(* Another read, or control, or any other work of the session comes first.  *)
ReadIsBusy(r, k) ==
    /\ step[r] = "idle"
    /\ k = "panelRead" => records
    /\ TaskRunning \/ ControlRequests # {} \/ holder # None \/ closing
    /\ task' = IF TaskRunning THEN task ELSE None
    /\ UNCHANGED <<kind, step, certified, readVars, gateVars, holder, diagnostics, closing>>

(* The task runs at once to its first await.  A lock that was let go may    *)
(* have been promised to a waiter, whom the read then queues behind.        *)
StartRead(r, k) ==
    /\ step[r] = "idle"
    /\ k = "panelRead" => records
    /\ ~TaskRunning /\ ControlRequests = {} /\ holder = None /\ ~closing
    /\ Submit(r, k, "reading")
    /\ task' = r
    /\ diagnostics' = "in_progress"
    /\ closed' = closed \ {r}
    /\ \/ /\ \A q \in Requests : step[q] # "queued"
          /\ holder' = r
          /\ read' = [read EXCEPT ![r] = "acquiring"]
       \/ /\ \E q \in Requests : step[q] = "queued"
          /\ read' = [read EXCEPT ![r] = "queued"]
          /\ UNCHANGED holder
    /\ UNCHANGED <<outcome, cancelled, timedOut, gateVars, closing>>

ReadGranted(r) ==
    /\ LoopFree
    /\ read[r] = "queued" /\ r \notin cancelled
    /\ holder = None
    /\ holder' = r
    /\ read' = [read EXCEPT ![r] = "acquiring"]
    /\ UNCHANGED <<kind, step, certified, outcome, cancelled, timedOut, closed, gateVars,
                   task, diagnostics, closing>>

Acquired(r) ==
    /\ LoopFree
    /\ read[r] = "acquiring" /\ r \notin cancelled
    /\ read' = [read EXCEPT ![r] = "inventory"]
    /\ UNCHANGED <<kind, step, certified, outcome, cancelled, timedOut, closed, gateVars,
                   sharedVars>>

(* However the read ends, it is followed by the teardown.                   *)
ReadEnds(r, result) ==
    /\ read' = [read EXCEPT ![r] = "closing"]
    /\ outcome' = [outcome EXCEPT ![r] = result]
    /\ UNCHANGED <<kind, step, certified, timedOut, closed, gateVars, sharedVars>>

(* A result, or an error, the deadline of acquisition and pages among them. *)
ReadReturns(r) ==
    /\ LoopFree
    /\ r \notin cancelled
    /\ \/ read[r] = "inventory" /\ ReadEnds(r, "result")
       \/ read[r] \in {"acquiring", "inventory"} /\ ReadEnds(r, "error")
    /\ UNCHANGED cancelled

(* Mutant: what the read awaits swallows the CancelledError.                *)
ReadInterruptedDeaf(r) ==
    /\ LoopFree
    /\ r \in cancelled
    /\ read[r] \in {"acquiring", "inventory"}
    /\ cancelled' = cancelled \ {r}
    /\ UNCHANGED <<kind, step, certified, read, outcome, timedOut, closed, gateVars,
                   sharedVars>>

(* The CancelledError of a control, of the panel's timeout or of a shutdown.*)
ReadInterrupted(r) ==
    /\ LoopFree
    /\ r \in cancelled
    /\ read[r] \in {"acquiring", "inventory"}
    /\ cancelled' = cancelled \ {r}
    /\ ReadEnds(r, "cancelled")

(* It is not granted the lock any more, nor anything noted about it.        *)
WaitInterrupted(r) ==
    /\ LoopFree
    /\ r \in cancelled
    /\ read[r] = "queued"
    /\ cancelled' = cancelled \ {r}
    /\ read' = [read EXCEPT ![r] = "over"]
    /\ outcome' = [outcome EXCEPT ![r] = "cancelled"]
    /\ step' = [step EXCEPT ![r] = "woken"]
    /\ UNCHANGED <<kind, certified, timedOut, closed, gateVars, sharedVars>>

(* Mutant: only `_client` is looked at, not the teardown that is pending.   *)
TeardownEndsUnlooked(r, confirmed) ==
    /\ LoopFree
    /\ read[r] = "closing"
    /\ read' = [read EXCEPT ![r] = "over"]
    /\ step' = [step EXCEPT ![r] = "woken"]
    /\ outcome' = [outcome EXCEPT ![r] = IF r \in cancelled THEN "cancelled" ELSE @]
    /\ holder' = None
    /\ cancelled' = cancelled \ {r}
    /\ diagnostics' = "confirmed"
    /\ closed' = IF confirmed THEN closed \cup {r} ELSE closed
    /\ UNCHANGED <<kind, certified, timedOut, gateVars, task, closing>>

(* Mutant: a read whose teardown is not confirmed is made again.            *)
TeardownEndsRereading(r, confirmed) ==
    /\ LoopFree
    /\ read[r] = "closing"
    /\ IF confirmed
       THEN /\ read' = [read EXCEPT ![r] = "over"]
            /\ step' = [step EXCEPT ![r] = "woken"]
            /\ holder' = None
            /\ closed' = closed \cup {r}
       ELSE read' = [read EXCEPT ![r] = "inventory"] /\ UNCHANGED <<step, holder, closed>>
    /\ outcome' = [outcome EXCEPT ![r] = IF r \in cancelled THEN "cancelled" ELSE @]
    /\ cancelled' = cancelled \ {r}
    /\ diagnostics' = IF confirmed THEN "confirmed" ELSE "uncertain"
    /\ UNCHANGED <<kind, certified, timedOut, gateVars, task, closing>>

(* _async_disconnect_locked goes to its end in any case; a cancellation     *)
(* that came meanwhile takes the place of the result.                       *)
TeardownEnds(r, confirmed) ==
    /\ LoopFree
    /\ read[r] = "closing"
    /\ read' = [read EXCEPT ![r] = "over"]
    /\ step' = [step EXCEPT ![r] = "woken"]
    /\ outcome' = [outcome EXCEPT ![r] = IF r \in cancelled THEN "cancelled" ELSE @]
    /\ holder' = None
    /\ cancelled' = cancelled \ {r}
    /\ diagnostics' = IF confirmed THEN "confirmed" ELSE "uncertain"
    /\ closed' = IF confirmed THEN closed \cup {r} ELSE closed
    /\ UNCHANGED <<kind, certified, timedOut, gateVars, task, closing>>

(* The request goes on.  The panel reconciles a result, which counts as     *)
(* fresh if the diagnostics have the link gone.                             *)
Wake(r) ==
    LET fresh == /\ kind[r] = "panelRead" /\ r \notin timedOut
                 /\ outcome[r] = "result" /\ diagnostics = "confirmed"
    IN
    /\ step[r] = "woken"
    /\ Answer(r)
    /\ task' = IF task = r THEN None ELSE task
    /\ certified' = IF fresh THEN certified \cup {r} ELSE certified
    /\ closed' = IF fresh THEN closed ELSE closed \ {r}
    /\ read' = [read EXCEPT ![r] = "none"]
    /\ outcome' = [outcome EXCEPT ![r] = "none"]
    /\ timedOut' = timedOut \ {r}
    /\ UNCHANGED <<cancelled, gateVars, holder, diagnostics, closing>>

(* asyncio.timeout(40) cancels the request, which passes it on to the task  *)
(* it awaits and still waits for its end.                                   *)
PanelTimeout(r) ==
    /\ kind[r] = "panelRead" /\ step[r] \in {"reading", "woken"}
    /\ r \notin timedOut
    /\ timedOut' = timedOut \cup {r}
    /\ cancelled' = IF step[r] = "reading" THEN cancelled \cup {r} ELSE cancelled
    /\ UNCHANGED <<kind, step, certified, read, outcome, closed, gateVars, sharedVars>>

-----------------------------------------------------------------------------
(* Explicit control: _async_run_command.                                    *)
StartControl(r) ==
    /\ step[r] = "idle"
    /\ Submit(r, "control", "queued")
    /\ CancelTask
    /\ UNCHANGED <<read, outcome, timedOut, closed, gateVars, sharedVars>>

(* The gate of the legacy PIN actions, passed before the write waits.       *)
(* Mutant: without records there is nothing that forbids the write.         *)
MayWriteUnread == ~disabled

MayWrite == records /\ ~disabled

StartPinWrite(r) ==
    /\ step[r] = "idle"
    /\ IF MayWrite
       THEN /\ Submit(r, "pinWrite", "queued")
            /\ late' = IF optedOut \/ ~records THEN late \cup {r} ELSE late
       ELSE UNCHANGED <<kind, step, certified, late>>
    /\ UNCHANGED <<readVars, records, disabled, optedOut, sharedVars>>

Granted(r) ==
    /\ LoopFree
    /\ step[r] = "queued"
    /\ holder = None
    /\ holder' = r
    /\ step' = [step EXCEPT ![r] = "holding"]
    /\ UNCHANGED <<kind, certified, readVars, gateVars, task, diagnostics, closing>>

Finished(r) ==
    /\ LoopFree
    /\ step[r] = "holding"
    /\ holder' = None
    /\ Answer(r)
    /\ late' = late \ {r}
    /\ UNCHANGED <<certified, readVars, records, disabled, optedOut, task, diagnostics, closing>>

-----------------------------------------------------------------------------
(* The opt-out: async_set_legacy_disabled, under the store's own lock.      *)
StartSetting(r, k) ==
    /\ step[r] = "idle"
    /\ records
    /\ \A q \in Requests : kind[q] \notin Settings
    /\ Submit(r, k, "saving")
    /\ optedOut' = (optedOut /\ k = "optOut")
    /\ UNCHANGED <<readVars, records, disabled, late, sharedVars>>

(* It counts once it is saved; a save that fails changes nothing.           *)
SettingSaved(r) ==
    /\ step[r] = "saving"
    /\ disabled' = (kind[r] = "optOut")
    /\ optedOut' = (kind[r] = "optOut")
    /\ Answer(r)
    /\ UNCHANGED <<certified, readVars, records, late, sharedVars>>

SettingFails(r) ==
    /\ step[r] = "saving"
    /\ Answer(r)
    /\ UNCHANGED <<certified, readVars, gateVars, sharedVars>>

(* The entry is unloaded: async_stop begins.                                *)
Close ==
    /\ ~closing
    /\ closing' = TRUE
    /\ CancelTask
    /\ UNCHANGED <<kind, step, certified, read, outcome, timedOut, closed, gateVars, holder,
                   task, diagnostics>>

ReadTask(r) ==
    \/ ReadGranted(r) \/ Acquired(r) \/ ReadReturns(r) \/ ReadInterrupted(r)
    \/ WaitInterrupted(r)
    \/ \E confirmed \in BOOLEAN : TeardownEnds(r, confirmed)

Start(r) ==
    \/ \E k \in Reads : ReadIsBusy(r, k) \/ StartRead(r, k)
    \/ StartControl(r)
    \/ StartPinWrite(r)
    \/ \E k \in Settings : StartSetting(r, k)

Next ==
    \/ \E r \in Requests :
          \/ Start(r)
          \/ ReadTask(r)
          \/ Wake(r)
          \/ PanelTimeout(r)
          \/ Granted(r) \/ Finished(r)
          \/ SettingSaved(r) \/ SettingFails(r)
    \/ Close

Spec == Init /\ [][Next]_vars

(* The session is bounded in time by its deadlines, and `_lock` is fair: a  *)
(* waiter gets it however often others come.                                *)
FairSpec ==
    /\ Spec
    /\ WF_vars(\E r \in Requests : ReadTask(r))
    /\ WF_vars(\E r \in Requests : Wake(r))
    /\ WF_vars(\E r \in Requests : Finished(r))
    /\ SF_vars(\E r \in Requests : ReadGranted(r))

-----------------------------------------------------------------------------
RequestsTypeOK ==
    /\ kind \in [Requests -> Kinds]
    /\ step \in [Requests -> Steps]
    /\ read \in [Requests -> TaskSteps]
    /\ outcome \in [Requests -> {"none", "result", "error", "cancelled"}]
    /\ \A r \in Requests : (step[r] = "idle") <=> (kind[r] = "none")

SharedTypeOK ==
    /\ holder \in Requests \cup {None}
    /\ task \in Requests \cup {None}
    /\ diagnostics \in Diagnostics
    /\ closing \in BOOLEAN /\ records \in BOOLEAN /\ disabled \in BOOLEAN
    /\ optedOut \in BOOLEAN
    /\ cancelled \subseteq Requests /\ timedOut \subseteq Requests
    /\ late \subseteq Requests /\ closed \subseteq Requests /\ certified \subseteq Requests

TypeOK == RequestsTypeOK /\ SharedTypeOK

(* A read counts as fresh only if its own link is known to be gone, though  *)
(* the diagnostics it asks are shared with the read that may have begun     *)
(* between its end and its request's turn (management_http.py:209).         *)
CertifiedByOwnTeardown == certified \subseteq closed

(* An answer means that the read is over and holds neither the lock nor a   *)
(* link, after forty seconds too; nothing else of it is left to be          *)
(* cancelled or to be refused for.                                          *)
AnsweredReadsAreOver ==
    \A r \in Requests : read[r] # "none" => kind[r] \in Reads

(* A read that was cancelled or preempted while it ran does not return      *)
(* success (docs/RC14_ACCESS_MANAGEMENT.md:186).                            *)
PreemptedReadsDoNotSucceed ==
    [][\A r \in Requests :
          r \in cancelled /\ r \notin cancelled' => outcome'[r] = "cancelled"]_vars

(* While explicit control waits for the lock a read has it only to end: it  *)
(* is interrupted already or closes its link.                               *)
ReadsYieldToControl ==
    ControlRequests # {} /\ TaskRunning => read[task] = "closing" \/ task \in cancelled

(* The opt-out "blocks future BLE writes": no PIN that is submitted once it *)
(* was answered, or while the records cannot be read, gets to the lock      *)
(* (docs/STABLE_3.5.1.md:67).                                               *)
OptOutStopsLaterWrites ==
    \A r \in Requests : kind[r] = "pinWrite" /\ step[r] = "holding" => r \notin late

(* The tasks of the reads implement the one read that makes way.            *)
RunningTask  == IF TaskRunning THEN {task} ELSE {}
ReadIsEnding == \E r \in RunningTask : r \in cancelled \/ read[r] = "closing"

Read == INSTANCE PreemptibleRead WITH
    Readers  <- Requests,
    Commands <- Requests,
    Holders  <- Requests,
    controls <- ControlRequests,
    reads    <- RunningTask,
    ending   <- ReadIsEnding,
    shut     <- closing

(* Whichever requests of the panel and of the services come together with   *)
(* control, one task reads, it is told to end when control is asked for,    *)
(* and what was told to end does not go on (connection.py:405, 586).        *)
ReadSpec == Read!Spec

(* Every read is answered, however it was interrupted.                      *)
ReadsAreAnswered ==
    \A r \in Requests : step[r] = "reading" ~> step[r] = "idle"
=============================================================================
