---------------------------- MODULE LockSession ----------------------------
(***************************************************************************)
(* TtlockBleConnection (connection.py): the one BLE session of one lock.   *)
(*                                                                         *)
(* Every operation runs inside asyncio.Lock `_lock`; what interleaves is   *)
(* the code before the lock, the callbacks of the Bluetooth backend and    *)
(* cancellations.  The event loop is single threaded, so the code between  *)
(* two awaits is one block: `pc` is the program counter of the critical    *)
(* section and every other actor waits until it rests at an await          *)
(* (LoopFree).                                                             *)
(***************************************************************************)
EXTENDS Naturals, Sequences, FiniteSets

CONSTANTS
    Controls,       \* callers of async_lock / async_unlock
    Queries,        \* callers of async_query_state and of the management calls
    Inventories,    \* callers of the two access inventory reads
    Loggers,        \* callers of async_get_operation_log
    Maintain,       \* the background reconnect loop
    Stop,           \* the caller of async_stop
    NoTask,         \* `_lock` is not held
    MaxClients      \* bound: how many clients a run may construct

Callers == Controls \cup Queries \cup Inventories \cup Loggers
Tasks   == Callers \cup {Maintain, Stop}

ASSUME TasksAssumption ==
    /\ Maintain # Stop
    /\ {Maintain, Stop} \cap Callers = {}
    /\ NoTask \notin Tasks
    /\ Controls \cap (Queries \cup Inventories \cup Loggers) = {}
    /\ Queries \cap (Inventories \cup Loggers) = {}
    /\ Inventories \cap Loggers = {}

ASSUME MaxClientsAssumption == MaxClients \in Nat

VARIABLES
    owner,        \* the task that holds `_lock`
    queue,        \* the FIFO of its waiters
    pc,           \* where the critical section stands
    after,        \* what the teardown in progress was started for
    active,       \* active_scan of the acquisition in progress
    scanned,      \* active_acquisition_attempted
    committed,    \* the control frame of the command in progress may be out
    reconciling,  \* the section runs in the reconciliation task
    cancelled,    \* tasks with a CancelledError still to be raised in them
    client,       \* `_client`, a generation, or NoClient
    pending,      \* `_pending_client`
    owned,        \* `_owned_client_generation`
    newest,       \* `_next_client_generation`
    link,         \* what the backend has for each generation
    callbacks,    \* generations whose disconnect callback is still to run
    closing,      \* `_closing` and `_closing_event`, set together
    dropSeen,     \* `_disconnected`, the event the maintain loop waits on
    shownUp,      \* `_broadcast_connected`
    loop,         \* the maintain loop outside `_lock`
    stop          \* async_stop

lockVars    == <<owner, queue>>
sectionVars == <<pc, after, active, scanned, committed, reconciling>>
clientVars  == <<client, pending, owned, newest>>
signalVars  == <<dropSeen, shownUp>>
outerVars   == <<closing, loop, stop>>
vars == <<lockVars, sectionVars, cancelled, clientVars, link, callbacks,
          signalVars, outerVars>>

NoClient == 0
Clients  == 1..MaxClients

(* The awaits of the critical section, and the blocks between them.         *)
Awaits == {"free", "cleaning", "scanning", "connecting", "using", "confirming"}
Blocks == {"ensure", "replace", "resolve", "open", "adopt", "again", "failed",
           "reconcile", "closeout", "leave"}

(* Why a teardown was started; Resume says where the section goes on.       *)
Reasons == {"retry", "replace", "attempt", "setup", "rejoin", "close",
            "shutdown", "lastChance"}

(* Mutant: a reconciliation insists on the teardown of the dropped client.  *)
ResumeInsisting(reason, ok) ==
    CASE reason = "retry"      -> IF ok THEN "replace" ELSE "failed"
      [] reason = "replace"    -> IF ok THEN "resolve" ELSE "failed"
      [] reason = "attempt"    -> IF ok THEN "again"   ELSE "failed"
      [] reason = "setup"      -> "failed"
      [] reason = "rejoin"     -> IF ok THEN "ensure"  ELSE "reconcile"
      [] reason = "shutdown"   -> IF ok THEN "leave"   ELSE "closeout"
      [] OTHER                 -> "leave"

Resume(reason, ok) ==
    CASE reason = "retry"      -> IF ok THEN "replace" ELSE "failed"
      [] reason = "replace"    -> IF ok THEN "resolve" ELSE "failed"
      [] reason = "attempt"    -> IF ok THEN "again"   ELSE "failed"
      [] reason = "setup"      -> "failed"
      [] reason = "rejoin"     -> "ensure"
      [] reason = "shutdown"   -> IF ok THEN "leave"   ELSE "closeout"
      [] OTHER                 -> "leave"

(* The backend of a generation: "closed" is the SDK's explicit evidence     *)
(* (never set up, or its handle released); "down" holds a handle without a  *)
(* link; "up" occupies the lock's only central slot.                        *)
LinkStates == {"closed", "down", "up"}

IsConnected(c) == c # NoClient /\ link[c] = "up"

(* The client is_connected reads: any client still owned by the object.     *)
OwnedClient == IF client # NoClient THEN client ELSE pending

Waiting(t)      == \E i \in DOMAIN queue : queue[i] = t
Idle(t)         == t # owner /\ ~Waiting(t)
ControlRequests == {t \in Controls : ~Idle(t)}
InventoryTask   == {t \in Inventories : ~Idle(t)}

(* The event loop is not in the middle of a block.  A teardown of a client  *)
(* whose cleanup is already confirmed finishes without awaiting anything.   *)
LoopFree ==
    /\ pc \in Awaits
    /\ pc = "cleaning" => link[pending] # "closed"

----------------------------------------------------------------------------
(* What the maintain loop and the lock start from: the entry was set up     *)
(* with background maintenance (async_start created the task) or without.   *)
Init ==
    /\ owner = NoTask
    /\ queue = <<>>
    /\ pc = "free"
    /\ after = "close"
    /\ active = FALSE
    /\ scanned = FALSE
    /\ committed = FALSE
    /\ reconciling = FALSE
    /\ cancelled = {}
    /\ client = NoClient
    /\ pending = NoClient
    /\ owned = NoClient
    /\ newest = 0
    /\ link = [c \in Clients |-> "closed"]
    /\ callbacks = {}
    /\ closing = FALSE
    /\ dropSeen = FALSE
    /\ shownUp = FALSE
    /\ loop \in {"off", "ready"}
    /\ stop = "notCalled"

----------------------------------------------------------------------------
(* Explicit commands and inventories may scan, the maintain loop and the    *)
(* operation log never do, a query or a management call as its caller says. *)
ActiveScan(t) ==
    CASE t \in Controls \cup Inventories -> {TRUE}
      [] t \in Queries                   -> BOOLEAN
      [] OTHER                           -> {FALSE}

(* asyncio.Lock: the caller takes a free lock at once, or waits in line.    *)
(* async_stop goes to its teardown, every other caller to the acquisition.  *)
Begin(t) ==
    /\ owner' = t
    /\ pc' = IF t = Stop THEN "closeout" ELSE "ensure"
    /\ active' \in ActiveScan(t)
    /\ after' = "close"
    /\ scanned' = FALSE
    /\ committed' = FALSE
    /\ reconciling' = FALSE

Acquire(t) ==
    \/ /\ owner = NoTask /\ queue = <<>>
       /\ Begin(t)
       /\ UNCHANGED queue
    \/ /\ owner # NoTask \/ queue # <<>>
       /\ queue' = Append(queue, t)
       /\ UNCHANGED <<owner, sectionVars>>

(* The first waiter runs some time after the lock was released; a waiter    *)
(* that was cancelled meanwhile leaves the line instead (Unwind).           *)
Grant ==
    /\ LoopFree
    /\ owner = NoTask
    /\ queue # <<>>
    /\ Head(queue) \notin cancelled
    /\ Begin(Head(queue))
    /\ queue' = Tail(queue)
    /\ UNCHANGED <<cancelled, clientVars, link, callbacks, signalVars, outerVars>>

(* async_query_state, _async_run_management_command, async_get_operation_log *)
RequestSession(t) ==
    /\ LoopFree
    /\ t \in Queries \cup Loggers
    /\ Idle(t)
    /\ Acquire(t)
    /\ UNCHANGED <<cancelled, clientVars, link, callbacks, signalVars, outerVars>>

(* Mutant: the command does not cancel the inventory it finds running.      *)
RequestControlPolite(t) ==
    /\ LoopFree
    /\ t \in Controls
    /\ Idle(t)
    /\ Acquire(t)
    /\ UNCHANGED <<cancelled, clientVars, link, callbacks, signalVars, outerVars>>

(* _async_run_command: explicit control first cancels the inventory task.   *)
RequestControl(t) ==
    /\ LoopFree
    /\ t \in Controls
    /\ Idle(t)
    /\ cancelled' = cancelled \cup InventoryTask
    /\ Acquire(t)
    /\ UNCHANGED <<clientVars, link, callbacks, signalVars, outerVars>>

(* An inventory read is refused (busy) instead of waiting for anybody.      *)
RequestInventory(t) ==
    /\ LoopFree
    /\ t \in Inventories
    /\ InventoryTask = {}
    /\ ControlRequests = {}
    /\ owner = NoTask
    /\ ~closing
    /\ Acquire(t)
    /\ UNCHANGED <<cancelled, clientVars, link, callbacks, signalVars, outerVars>>

(* The maintain loop comes back to `while not self._closing`.               *)
RequestMaintenance ==
    /\ LoopFree
    /\ loop = "ready"
    /\ Maintain \notin cancelled
    /\ IF closing
         THEN /\ loop' = "off"
              /\ UNCHANGED <<lockVars, sectionVars>>
         ELSE /\ loop' = "inLock"
              /\ Acquire(Maintain)
    /\ UNCHANGED <<cancelled, clientVars, link, callbacks, signalVars, closing, stop>>

(* Mutant: async_stop awaits the maintain task without cancelling it.       *)
RequestStopUncancelled ==
    /\ LoopFree
    /\ stop = "notCalled"
    /\ stop' = "joining"
    /\ closing' = TRUE
    /\ dropSeen' = TRUE
    /\ cancelled' = cancelled \cup InventoryTask
    /\ UNCHANGED <<lockVars, sectionVars, clientVars, link, callbacks, shownUp, loop>>

(* async_stop up to its first await: it only joins the maintain task.       *)
RequestStop ==
    /\ LoopFree
    /\ stop = "notCalled"
    /\ stop' = "joining"
    /\ closing' = TRUE
    /\ dropSeen' = TRUE
    /\ cancelled' = cancelled \cup InventoryTask
                       \cup (IF loop = "off" THEN {} ELSE {Maintain})
    /\ UNCHANGED <<lockVars, sectionVars, clientVars, link, callbacks, shownUp, loop>>

(* async_stop after the maintain task ended.                                *)
StopTakesLock ==
    /\ LoopFree
    /\ stop = "joining"
    /\ loop = "off"
    /\ stop' = "inLock"
    /\ Acquire(Stop)
    /\ UNCHANGED <<cancelled, clientVars, link, callbacks, signalVars, closing, loop>>

----------------------------------------------------------------------------
(* The blocks of _async_ensure_connected_locked, in the order they run.     *)

GoTo(label) ==
    /\ pc' = label
    /\ UNCHANGED <<owner, queue, after, active, scanned, committed, reconciling>>

(* _async_cleanup_candidate of the client in `_pending_client`.             *)
Teardown(reason) ==
    /\ pc' = "cleaning"
    /\ after' = reason
    /\ UNCHANGED <<owner, queue, active, scanned, committed, reconciling>>

(* _async_disconnect_locked: the installed client becomes the pending one   *)
(* until its teardown is confirmed; without one, an earlier uncertain       *)
(* teardown is retried; without either there is nothing to do.              *)
Disconnect(reason) ==
    \/ /\ client # NoClient
       /\ pending' = client
       /\ client' = NoClient
       /\ Teardown(reason)
       /\ UNCHANGED <<owned, newest>>
    \/ /\ client = NoClient /\ pending # NoClient
       /\ Teardown(reason)
       /\ UNCHANGED clientVars
    \/ /\ client = NoClient /\ pending = NoClient
       /\ GoTo(Resume(reason, TRUE))
       /\ UNCHANGED clientVars

Rest == UNCHANGED <<cancelled, link, callbacks, signalVars, outerVars>>

(* Nothing is opened once the entry is closing; an uncertain teardown is    *)
(* retried before anything else.                                            *)
Ensure ==
    /\ pc = "ensure"
    /\ IF closing THEN GoTo("failed")
       ELSE IF pending # NoClient THEN Teardown("retry")
       ELSE GoTo("replace")
    /\ UNCHANGED clientVars
    /\ Rest

(* Where the section goes on with a connected client.                       *)
Obtained == IF reconciling THEN "confirming"
            ELSE IF owner = Maintain THEN "leave" ELSE "using"

(* A live client is reused, a dead one is torn down first.                  *)
Replace ==
    /\ pc = "replace"
    /\ \/ /\ IsConnected(client)
          /\ GoTo(Obtained)
          /\ UNCHANGED clientVars
       \/ /\ ~IsConnected(client)
          /\ Disconnect("replace")
    /\ Rest

(* _async_resolve_initial_candidate_locked: Home Assistant has a cached     *)
(* route, or none; an active acquisition without a fresh one scans first,   *)
(* unless its deadline leaves no whole second to scan.                      *)
ResolveCandidate ==
    /\ pc = "resolve"
    /\ \/ GoTo("open")
       \/ ~active /\ GoTo("failed")
       \/ /\ active
          /\ scanned' = TRUE
          /\ pc' \in {"scanning", "failed"}
          /\ UNCHANGED <<owner, queue, after, active, committed, reconciling>>
    /\ UNCHANGED clientVars
    /\ Rest

(* The head of the candidate loop: the deadline may be exhausted (or the    *)
(* run is out of clients), otherwise a new generation is connected.         *)
OpenCandidate ==
    /\ pc = "open"
    /\ \/ /\ GoTo("failed")
          /\ UNCHANGED <<clientVars, link>>
       \/ /\ ~closing
          /\ newest < MaxClients
          /\ newest' = newest + 1
          /\ pending' = newest + 1
          /\ owned' = newest + 1
          /\ link' = [link EXCEPT ![newest + 1] = "down"]
          /\ GoTo("connecting")
          /\ UNCHANGED client
    /\ UNCHANGED <<cancelled, callbacks, signalVars, outerVars>>

(* Mutant: a late link is adopted although the entry is closing.            *)
AdoptLate ==
    /\ pc = "adopt"
    /\ client' = pending
    /\ pending' = NoClient
    /\ dropSeen' = FALSE
    /\ shownUp' = TRUE
    /\ GoTo(Obtained)
    /\ UNCHANGED <<owned, newest, cancelled, link, callbacks, outerVars>>

(* _async_adopt_connected_candidate: shutdown may have won meanwhile.       *)
Adopt ==
    /\ pc = "adopt"
    /\ \/ /\ closing
          /\ Teardown("setup")
          /\ UNCHANGED <<clientVars, signalVars>>
       \/ /\ ~closing
          /\ client' = pending
          /\ pending' = NoClient
          /\ dropSeen' = FALSE
          /\ shownUp' = TRUE
          /\ GoTo(Obtained)
          /\ UNCHANGED <<owned, newest>>
    /\ UNCHANGED <<cancelled, link, callbacks, outerVars>>

(* Mutant: every failed phase is followed by another scan.                  *)
TryAgainAlways ==
    /\ pc = "again"
    /\ \/ /\ closing \/ ~active
          /\ GoTo("failed")
       \/ /\ ~closing /\ active
          /\ scanned' = TRUE
          /\ pc' \in {"scanning", "failed"}
          /\ UNCHANGED <<owner, queue, after, active, committed, reconciling>>
    /\ UNCHANGED clientVars
    /\ Rest

(* A phase ended without a link and its client was cleaned up: one fresh    *)
(* active acquisition may follow a cached route.                            *)
TryAgain ==
    /\ pc = "again"
    /\ \/ /\ closing \/ ~active \/ scanned
          /\ GoTo("failed")
       \/ /\ ~closing /\ active /\ ~scanned
          /\ scanned' = TRUE
          /\ pc' \in {"scanning", "failed"}
          /\ UNCHANGED <<owner, queue, after, active, committed, reconciling>>
    /\ UNCHANGED clientVars
    /\ Rest

(* _async_ensure_connected_locked returned None.  An inventory and a        *)
(* reconciliation still run _async_disconnect_locked.                       *)
AcquisitionFailed ==
    /\ pc = "failed"
    /\ GoTo(IF owner \in Inventories \/ reconciling THEN "closeout" ELSE "leave")
    /\ UNCHANGED clientVars
    /\ Rest

(* _async_disconnect_locked at the end of a failed operation, of every      *)
(* inventory, and of async_stop, which retries a failed teardown once.      *)
Closeout ==
    /\ pc = "closeout"
    /\ Disconnect(IF owner # Stop THEN "close"
                  ELSE IF after = "shutdown" THEN "lastChance" ELSE "shutdown")
    /\ Rest

(* _async_reconcile_control_locked: a dropped client is replaced, whatever  *)
(* became of its teardown, before the one fresh query.                      *)
Reconcile ==
    /\ pc = "reconcile"
    /\ \/ /\ IsConnected(client)
          /\ GoTo("confirming")
          /\ UNCHANGED clientVars
       \/ /\ ~IsConnected(client)
          /\ Disconnect("rejoin")
    /\ Rest

(* Mutant: async_stop looks at `_client` only and calls an uncertain        *)
(* teardown done.                                                           *)
LeaveUnverified ==
    /\ pc = "leave"
    /\ owner' = NoTask
    /\ pc' = "free"
    /\ after' = "close"
    /\ active' = FALSE
    /\ scanned' = FALSE
    /\ committed' = FALSE
    /\ reconciling' = FALSE
    /\ cancelled' = cancelled \ {owner}
    /\ loop' = IF owner # Maintain THEN loop
               ELSE IF Maintain \in cancelled THEN "off"
               ELSE IF client # NoClient THEN "listening" ELSE "asleep"
    /\ stop' = IF owner # Stop THEN stop
               ELSE IF client = NoClient THEN "done" ELSE "failed"
    /\ UNCHANGED <<queue, clientVars, link, callbacks, signalVars, closing>>

(* The end of `async with self._lock`, by return or by exception.           *)
Leave ==
    /\ pc = "leave"
    /\ owner' = NoTask
    /\ pc' = "free"
    /\ after' = "close"
    /\ active' = FALSE
    /\ scanned' = FALSE
    /\ committed' = FALSE
    /\ reconciling' = FALSE
    /\ cancelled' = cancelled \ {owner}
    /\ loop' = IF owner # Maintain THEN loop
               ELSE IF Maintain \in cancelled THEN "off"
               ELSE IF client # NoClient THEN "listening" ELSE "asleep"
    /\ stop' = IF owner # Stop THEN stop
               ELSE IF OwnedClient = NoClient THEN "done" ELSE "failed"
    /\ UNCHANGED <<queue, clientVars, link, callbacks, signalVars, closing>>

----------------------------------------------------------------------------
(* What the critical section awaits.                                        *)

(* A CancelledError reaches the caller's own code, not the task that        *)
(* reconciles a command.                                                    *)
Interrupted == owner \in cancelled /\ ~reconciling

(* _async_wait_for_connectable_device_locked: closing wins over a candidate. *)
ScanEnds ==
    /\ pc = "scanning"
    /\ ~Interrupted
    /\ IF closing THEN GoTo("failed") ELSE \E next \in {"open", "failed"} : GoTo(next)
    /\ UNCHANGED clientVars
    /\ Rest

(* client.connect() returned a link; a late one, after the caller was       *)
(* cancelled, is not adopted.                                               *)
ConnectSucceeds ==
    /\ pc = "connecting"
    /\ link[pending] = "up"
    /\ IF Interrupted THEN Teardown("setup") ELSE GoTo("adopt")
    /\ UNCHANGED clientVars
    /\ Rest

(* connect() raised, or its phase deadline passed ("attempt"), or a raw     *)
(* error escaped the SDK ("setup"); the link may be up all the same.        *)
ConnectFails ==
    /\ pc = "connecting"
    /\ \E reason \in {"attempt", "setup"} : Teardown(reason)
    /\ \/ UNCHANGED <<link, callbacks>>
       \/ /\ link' = [link EXCEPT ![pending] = "closed"]
          /\ callbacks' = IF link[pending] = "up" THEN callbacks \cup {pending}
                                                  ELSE callbacks
    /\ UNCHANGED <<cancelled, clientVars, signalVars, outerVars>>

(* The teardown is over: the caller's own cancellation was held back until  *)
(* now, and an inventory still runs its final disconnect.                   *)
AfterCleanup(ok) ==
    IF Interrupted
      THEN IF owner \in Inventories /\ after # "close"
             THEN /\ GoTo("closeout")
                  /\ cancelled' = cancelled \ {owner}
             ELSE /\ GoTo("leave")
                  /\ UNCHANGED cancelled
      ELSE /\ GoTo(Resume(after, ok))
           /\ UNCHANGED cancelled

(* Ownership ends with the confirmed teardown, never before.                *)
CleanupSucceeds ==
    /\ pc = "cleaning"
    /\ link' = [link EXCEPT ![pending] = "closed"]
    /\ callbacks' = IF link[pending] = "up" THEN callbacks \cup {pending} ELSE callbacks
    /\ pending' = NoClient
    /\ owned' = NoClient
    /\ shownUp' = FALSE
    /\ AfterCleanup(TRUE)
    /\ UNCHANGED <<client, newest, dropSeen, outerVars>>

(* Mutant: a teardown that raised gives the client up all the same.         *)
CleanupFailsForgetting ==
    /\ pc = "cleaning"
    /\ link[pending] # "closed"
    /\ pending' = NoClient
    /\ owned' = NoClient
    /\ shownUp' = FALSE
    /\ AfterCleanup(FALSE)
    /\ UNCHANGED <<client, newest, link, callbacks, dropSeen, outerVars>>

(* disconnect() raised without cleanup evidence: the client stays owned.    *)
CleanupFails ==
    /\ pc = "cleaning"
    /\ link[pending] # "closed"
    /\ AfterCleanup(FALSE)
    /\ UNCHANGED <<clientVars, link, callbacks, signalVars, outerVars>>

(* A query, a management call, a log fetch or an inventory ends; only a     *)
(* failed log fetch keeps its client, every inventory gives it up.          *)
UseEnds ==
    /\ pc = "using"
    /\ owner \notin Controls
    /\ ~Interrupted
    /\ \/ owner \in Queries \cup Loggers /\ GoTo("leave")
       \/ owner \in Queries \cup Inventories /\ GoTo("closeout")
    /\ UNCHANGED clientVars
    /\ Rest

(* The first control write begins, unless the gate finds the entry closing. *)
CommitControl ==
    /\ pc = "using"
    /\ owner \in Controls
    /\ ~committed
    /\ ~closing
    /\ committed' = TRUE
    /\ UNCHANGED <<owner, queue, pc, after, active, scanned, reconciling>>
    /\ UNCHANGED clientVars
    /\ Rest

(* The command is over: acknowledged, failed or rejected, or unknown.  A    *)
(* cancellation that arrived together with the outcome is dropped.          *)
ControlEnds ==
    /\ pc = "using"
    /\ owner \in Controls
    /\ cancelled' = cancelled \ {owner}
    /\ \/ committed /\ GoTo("leave")
       \/ GoTo("closeout")
       \/ /\ committed
          /\ pc' = "reconcile"
          /\ reconciling' = TRUE
          /\ scanned' = FALSE
          /\ UNCHANGED <<owner, queue, after, active, committed>>
    /\ UNCHANGED <<clientVars, link, callbacks, signalVars, outerVars>>

(* The fresh query matched the command, or the ambiguity remains.           *)
ConfirmEnds ==
    /\ pc = "confirming"
    /\ \E next \in {"leave", "closeout"} : GoTo(next)
    /\ cancelled' = cancelled \ {owner}
    /\ UNCHANGED <<clientVars, link, callbacks, signalVars, outerVars>>

----------------------------------------------------------------------------
(* Cancellation.                                                            *)

(* Whoever awaits an operation may be cancelled at any await.               *)
Cancel(t) ==
    /\ LoopFree
    /\ t \in Callers
    /\ ~Idle(t)
    /\ cancelled' = cancelled \cup {t}
    /\ UNCHANGED <<lockVars, sectionVars, clientVars, link, callbacks, signalVars,
                   outerVars>>

(* The line after its first t left it.                                      *)
Without(line, t) ==
    LET place == CHOOSE i \in DOMAIN line : line[i] = t
    IN  [i \in 1..(Len(line) - 1) |-> IF i < place THEN line[i] ELSE line[i + 1]]

(* A waiter of the lock leaves the line.                                    *)
UnwindWaiter(t) ==
    /\ LoopFree
    /\ t \in cancelled
    /\ Waiting(t)
    /\ queue' = Without(queue, t)
    /\ cancelled' = cancelled \ {t}
    /\ loop' = IF t = Maintain THEN "off" ELSE loop
    /\ UNCHANGED <<owner, sectionVars, clientVars, link, callbacks, signalVars,
                   closing, stop>>

(* The holder of the lock unwinds from a scan or from its operation; a      *)
(* committed command and its reconciliation are retained.                   *)
UnwindHolder ==
    /\ owner \in cancelled
    /\ cancelled' = cancelled \ {owner}
    /\ \/ /\ ~reconciling
          /\ pc = "scanning" \/ (pc = "using" /\ ~committed)
          /\ GoTo(IF owner \in Inventories THEN "closeout" ELSE "leave")
       \/ /\ reconciling \/ (pc = "using" /\ committed)
          /\ LoopFree
          /\ UNCHANGED <<lockVars, sectionVars>>
    /\ UNCHANGED <<clientVars, link, callbacks, signalVars, outerVars>>

(* The maintain task ends outside the lock.                                 *)
UnwindLoop ==
    /\ LoopFree
    /\ Maintain \in cancelled
    /\ loop \in {"ready", "listening", "asleep"}
    /\ loop' = "off"
    /\ cancelled' = cancelled \ {Maintain}
    /\ UNCHANGED <<lockVars, sectionVars, clientVars, link, callbacks, signalVars,
                   closing, stop>>

----------------------------------------------------------------------------
(* The maintain loop between two acquisitions.                              *)

(* `_disconnected.wait()` returned: the cooldown begins.                    *)
LoopHearsDrop ==
    /\ LoopFree
    /\ loop = "listening"
    /\ dropSeen
    /\ Maintain \notin cancelled
    /\ loop' = "asleep"
    /\ UNCHANGED <<lockVars, sectionVars, cancelled, clientVars, link, callbacks,
                   signalVars, closing, stop>>

(* The cooldown or the backoff is over.                                     *)
LoopWakes ==
    /\ LoopFree
    /\ loop = "asleep"
    /\ Maintain \notin cancelled
    /\ loop' = "ready"
    /\ UNCHANGED <<lockVars, sectionVars, cancelled, clientVars, link, callbacks,
                   signalVars, closing, stop>>

----------------------------------------------------------------------------
(* The Bluetooth backend.                                                   *)

LinkEstablished ==
    /\ pc = "connecting"
    /\ link[pending] = "down"
    /\ link' = [link EXCEPT ![pending] = "up"]
    /\ UNCHANGED <<lockVars, sectionVars, cancelled, clientVars, callbacks,
                   signalVars, outerVars>>

(* A link drops; the SDK keeps its handle until it disconnects.             *)
LinkDrops(c) ==
    /\ LoopFree
    /\ link[c] = "up"
    /\ link' = [link EXCEPT ![c] = "down"]
    /\ callbacks' = callbacks \cup {c}
    /\ UNCHANGED <<lockVars, sectionVars, cancelled, clientVars, signalVars, outerVars>>

(* Mutant: the drop is announced only by the teardown that follows it.      *)
OnDisconnectedSilent(c) ==
    /\ LoopFree
    /\ c \in callbacks
    /\ callbacks' = callbacks \ {c}
    /\ dropSeen' = (dropSeen \/ c = owned)
    /\ UNCHANGED <<lockVars, sectionVars, cancelled, clientVars, link, shownUp, outerVars>>

(* _on_disconnected, possibly long after the link dropped.                  *)
OnDisconnected(c) ==
    /\ LoopFree
    /\ c \in callbacks
    /\ callbacks' = callbacks \ {c}
    /\ IF c = owned
         THEN /\ dropSeen' = TRUE
              /\ shownUp' = FALSE
         ELSE UNCHANGED signalVars
    /\ UNCHANGED <<lockVars, sectionVars, cancelled, clientVars, link, outerVars>>

----------------------------------------------------------------------------
Section ==
    \/ Ensure \/ Replace \/ ResolveCandidate \/ OpenCandidate \/ Adopt \/ TryAgain
    \/ AcquisitionFailed \/ Closeout \/ Reconcile \/ Leave
    \/ ScanEnds \/ ConnectSucceeds \/ ConnectFails \/ CleanupSucceeds \/ CleanupFails
    \/ UseEnds \/ CommitControl \/ ControlEnds \/ ConfirmEnds

Unwind == UnwindHolder \/ UnwindLoop \/ \E t \in Tasks : UnwindWaiter(t)

MaintainLoop == RequestMaintenance \/ LoopHearsDrop \/ LoopWakes

Requests == \E t \in Callers : RequestSession(t) \/ RequestControl(t) \/ RequestInventory(t)

Backend == LinkEstablished \/ \E c \in Clients : LinkDrops(c) \/ OnDisconnected(c)

Next ==
    \/ Requests \/ RequestStop \/ StopTakesLock \/ Grant
    \/ \E t \in Callers : Cancel(t)
    \/ Section \/ Unwind \/ MaintainLoop \/ Backend

(* What asyncio and the backend owe: the section goes on, for every call    *)
(* into the backend returns, raises or hits its deadline; a released lock   *)
(* wakes its first waiter and a CancelledError is raised.  What async_stop  *)
(* waits for is ready again and again while other blocks run in between;    *)
(* the event loop takes ready work in turn, hence strong fairness.  Nobody  *)
(* is obliged to ask for anything, to cancel, or to drop a link.            *)
Fairness ==
    /\ WF_vars(Section)
    /\ WF_vars(Grant)
    /\ WF_vars(UnwindHolder)
    /\ \A t \in Tasks : WF_vars(UnwindWaiter(t))
    /\ SF_vars(UnwindLoop \/ StopTakesLock)

Spec == Init /\ [][Next]_vars /\ Fairness

(* The same, with the maintain loop and the disconnect callbacks on time.   *)
MaintenanceSpec ==
    /\ Spec
    /\ SF_vars(MaintainLoop)
    /\ \A c \in Clients : SF_vars(OnDisconnected(c))

----------------------------------------------------------------------------
LockTypeOK ==
    /\ owner \in Tasks \cup {NoTask}
    /\ queue \in Seq(Tasks)
    /\ cancelled \subseteq Tasks

SectionTypeOK ==
    /\ pc \in Awaits \cup Blocks
    /\ after \in Reasons
    /\ active \in BOOLEAN
    /\ scanned \in BOOLEAN
    /\ committed \in BOOLEAN
    /\ reconciling \in BOOLEAN

ClientTypeOK ==
    /\ client \in Clients \cup {NoClient}
    /\ pending \in Clients \cup {NoClient}
    /\ owned \in Clients \cup {NoClient}
    /\ newest \in 0..MaxClients
    /\ link \in [Clients -> LinkStates]
    /\ callbacks \subseteq Clients

OuterTypeOK ==
    /\ closing \in BOOLEAN
    /\ dropSeen \in BOOLEAN
    /\ shownUp \in BOOLEAN
    /\ loop \in {"off", "ready", "inLock", "listening", "asleep"}
    /\ stop \in {"notCalled", "joining", "inLock", "done", "failed"}

TypeOK == LockTypeOK /\ SectionTypeOK /\ ClientTypeOK /\ OuterTypeOK

(* Every client the backend may still hold something for is the one client  *)
(* the connection owns, so the lock's single central slot is never taken    *)
(* twice and no link is ever left behind without an owner (_client and      *)
(* _pending_client, whatever acquisition, teardown or cancellation did).    *)
EveryHandleIsOwned ==
    \A c \in Clients : link[c] # "closed" => c = OwnedClient

(* The RuntimeErrors of connection.py cannot be raised: no second candidate *)
(* is created beside a pending one, no installed client is torn down while  *)
(* another is pending, no client is cleaned up or adopted that is not the   *)
(* pending one; and the disconnect callback in force is the owned client's. *)
OwnershipErrorsUnreachable ==
    /\ client = NoClient \/ pending = NoClient
    /\ pc = "open" => pending = NoClient
    /\ pc \in {"connecting", "adopt"} => pending = newest /\ pending # NoClient
    /\ pc = "cleaning" => pending # NoClient
    /\ pc \in {"using", "reconcile"} => client # NoClient
    /\ owned = OwnedClient

(* The connectivity last announced (_broadcast_connection_state) is never   *)
(* stale for good: while "connected" is on display the owned client is      *)
(* connected, or the callback that will take it back is still to come.      *)
AnnouncedUpIsAccountedFor ==
    shownUp => /\ OwnedClient # NoClient
               /\ link[OwnedClient] = "up" \/ OwnedClient \in callbacks

(* A command that waits for the lock never waits for an inventory read: the *)
(* read it found in possession has been told to stop or is giving up its    *)
(* client (_async_run_command, _async_start_inventory).                     *)
InventoryYieldsToControl ==
    owner \in Inventories /\ ControlRequests # {} =>
        \/ owner \in cancelled
        \/ pc \in {"closeout", "leave"}
        \/ pc = "cleaning" /\ after = "close"

(* Once async_stop returned without an error nothing of the session is left *)
(* and nothing comes back, whichever calls were still waiting for the lock  *)
(* or arrive later.                                                         *)
StopLeavesNothing ==
    stop = "done" => /\ OwnedClient = NoClient
                     /\ \A c \in Clients : link[c] = "closed"
                     /\ loop = "off"

(* How much of the section can still be to come, at most: every place of it *)
(* is worth more than the places it leads to, a candidate may be tried once *)
(* more while no scan was made, and a reconciliation goes through all of it *)
(* once more.  The numbers matter by their order only.                      *)
SecondTry == IF scanned THEN 0 ELSE 5

PlacesLeft ==
    CASE pc = "leave"      -> 1
      [] pc = "closeout"   -> IF after = "shutdown" THEN 3 ELSE 5
      [] pc \in {"failed", "confirming"} -> 6
      [] pc = "using"      -> IF committed THEN 8 ELSE 9
      [] pc = "adopt"      -> 10
      [] pc = "again"      -> 11 + SecondTry
      [] pc = "connecting" -> 13 + SecondTry
      [] pc = "open"       -> 14 + SecondTry
      [] pc = "scanning"   -> 15 + SecondTry
      [] pc = "resolve"    -> 21
      [] pc = "replace"    -> 23
      [] pc = "ensure"     -> 25
      [] pc = "cleaning"   -> CASE after = "shutdown" -> 4
                                [] after = "setup"    -> 7
                                [] after = "attempt"  -> 12 + SecondTry
                                [] after = "replace"  -> 22
                                [] after = "retry"    -> 24
                                [] after = "rejoin"   -> 26
                                [] OTHER              -> 2
      [] OTHER             -> 27

WorkLeft ==
    IF pc = "free" THEN 0
    ELSE IF reconciling THEN PlacesLeft ELSE 30 + PlacesLeft

(* The session gets round to everybody: nobody is overtaken in the line of  *)
(* `_lock`, and whoever holds it has ever less to do before it is let go,   *)
(* through retries, reconciliations, failing teardowns and cancellations    *)
(* (connection.py:901, 930; what ControlsAnswered and StopSettles rest on). *)
WaitersGetCloser ==
    [][\A t \in Tasks : \A i \in DOMAIN queue, j \in DOMAIN queue' :
          queue[i] = t /\ queue'[j] = t =>
              \/ j < i
              \/ /\ j = i
                 /\ WorkLeft' <= WorkLeft
                 /\ Section => WorkLeft' < WorkLeft]_vars

(* async_stop always finishes, with or without a confirmed disconnect.      *)
StopSettles == stop = "joining" ~> stop \in {"done", "failed"}

(* A command that was asked for comes to an end, whoever holds the lock and *)
(* however often other calls are made.                                      *)
ControlsAnswered == \A t \in Controls : Waiting(t) ~> Idle(t)

(* connection.py says the maintain loop reconnects "after any disconnect":  *)
(* it does not go on waiting for a drop of a session that no longer exists. *)
MaintenanceResumes ==
    loop = "listening" /\ OwnedClient = NoClient ~> loop # "listening"

----------------------------------------------------------------------------
(* The session implements the single central slot.                          *)
Slot == INSTANCE CentralSlot WITH
    holder  <- OwnedClient,
    claims  <- newest,
    offered <- (client # NoClient),
    linked  <- {c \in Clients : link[c] = "up"},
    shut    <- closing

(* Every step of the session, with all its teardowns and cancellations, is  *)
(* a step of CentralSlot or leaves the slot alone.                          *)
SlotSpec == Slot!Spec

(* ... and it implements the one read that makes way.                       *)
ReadIsEnding ==
    \E t \in InventoryTask :
        \/ t \in cancelled
        \/ /\ t = owner
           /\ pc \in {"closeout", "leave"} \/ (pc = "cleaning" /\ after = "close")

Read == INSTANCE PreemptibleRead WITH
    Readers  <- Inventories,
    Commands <- Controls,
    Holders  <- Tasks,
    None     <- NoTask,
    controls <- ControlRequests,
    reads    <- InventoryTask,
    ending   <- ReadIsEnding,
    holder   <- owner,
    shut     <- closing

(* An inventory read begins in an idle session only, is told to end by the  *)
(* command that finds it, and never goes on after that, whoever is granted  *)
(* the lock, is cancelled or fails meanwhile (connection.py:405, 586).      *)
ReadSpec == Read!Spec
=============================================================================
