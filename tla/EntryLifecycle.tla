----------------------------- MODULE EntryLifecycle -----------------------------
(***************************************************************************)
(* The life of one config entry (__init__.py): set-up, reload, unload and  *)
(* removal over several locks.  Every set-up builds a runtime of its own,  *)
(* an instance, with one session per lock and one advertisement tracking;  *)
(* what becomes of the instances before it is the subject of this module.  *)
(*                                                                         *)
(* Home Assistant is external.  It runs one set-up, unload or reload of an *)
(* entry at a time.  To unload, or after a set-up that failed, it pops the *)
(* on-unload callbacks; a coroutine becomes a task, which it starts at     *)
(* once and waits for at most ten seconds.  How the task ends is only      *)
(* logged, and the entry counts as unloaded in any case.                   *)
(***************************************************************************)
EXTENDS Naturals

CONSTANTS
    Locks,        \* the locks of the account, by formatted MAC
    MaxInstances  \* bound: set-ups of the entry

ASSUME InstancesAssumption == MaxInstances \in Nat

VARIABLES
    phase,       \* where the entry is in its life
    after,       \* what the running unload is for
    reload,      \* a reload is scheduled and waits for its turn
    keys,        \* entry.data["keys"], the locks they are for
    instance,    \* number of the latest set-up
    configured,  \* the keys each instance was built from
    session,     \* what each instance's connection to each lock has come to
    stopper,     \* each instance's task that runs _stop_connections
    tracking,    \* instances whose advertisement callbacks are registered
    devices      \* the locks with a device of this entry in the registry

entryVars   == <<phase, after, reload, keys, instance>>
runtimeVars == <<configured, session, stopper, tracking>>
vars == <<entryVars, runtimeVars, devices>>

Instances == 1 .. MaxInstances

(* "records" and "history" are the two loads of async_setup_entry,          *)
(* "forwarding" its platforms; "draining" is the wait for the tasks of the  *)
(* on-unload callbacks.                                                     *)
Phases == {"notLoaded", "records", "history", "forwarding", "loaded", "unloading",
           "draining", "setupError", "failedUnload", "removed"}

Purposes == {"setup", "stay", "remove", "setupError"}

Sessions == {"none", "open", "closing", "closed", "unconfirmed"}

(* A connection that may hold its lock's single BLE slot, or take it.       *)
Live(i, l) == session[i][l] \in {"open", "closing", "unconfirmed"}

(* The runtime of the latest set-up is there to be used.                    *)
Up == phase \in {"forwarding", "loaded", "unloading", "failedUnload"}

Init ==
    /\ phase = "notLoaded"
    /\ after = "setup"
    /\ reload = FALSE
    /\ keys \in SUBSET Locks
    /\ instance = 0
    /\ configured = [i \in Instances |-> {}]
    /\ session = [i \in Instances |-> [l \in Locks |-> "none"]]
    /\ stopper = [i \in Instances |-> "none"]
    /\ tracking = {}
    /\ devices = {}

-----------------------------------------------------------------------------
(* Set-up: async_setup_entry.                                               *)

(* Mutant: devices of locks that left the key set stay in the registry.     *)
BeginSetupUnpruned ==
    /\ phase = "notLoaded" /\ after = "setup"
    /\ instance < MaxInstances
    /\ phase' = "records"
    /\ after' = "stay"
    /\ instance' = instance + 1
    /\ configured' = [configured EXCEPT ![instance + 1] = keys]
    /\ UNCHANGED <<reload, keys, session, stopper, tracking, devices>>

(* Up to the first await: the devices of dropped locks are pruned.          *)
BeginSetup ==
    /\ phase = "notLoaded" /\ after = "setup"
    /\ instance < MaxInstances
    /\ phase' = "records"
    /\ after' = "stay"
    /\ instance' = instance + 1
    /\ configured' = [configured EXCEPT ![instance + 1] = keys]
    /\ devices' = devices \cap keys
    /\ UNCHANGED <<reload, keys, session, stopper, tracking>>

(* The access records are there, or administration is blocked without them. *)
RecordsLoaded ==
    /\ phase = "records"
    /\ phase' = "history"
    /\ UNCHANGED <<after, reload, keys, instance, runtimeVars, devices>>

(* Connections are made and started, and the callbacks registered, in one   *)
(* block: async_start awaits nothing.                                       *)
HistoryLoaded ==
    /\ phase = "history"
    /\ phase' = "forwarding"
    /\ session' = [session EXCEPT ![instance] =
                      [l \in Locks |-> IF l \in configured[instance] THEN "open" ELSE "none"]]
    /\ tracking' = tracking \cup {instance}
    /\ UNCHANGED <<after, reload, keys, instance, configured, stopper, devices>>

(* The log history cannot be read: nothing has been built yet.              *)
HistoryFails ==
    /\ phase = "history"
    /\ phase' = "setupError"
    /\ UNCHANGED <<after, reload, keys, instance, runtimeVars, devices>>

(* The platforms made their entities, and with them the devices.            *)
PlatformsForwarded ==
    /\ phase = "forwarding"
    /\ phase' = "loaded"
    /\ devices' = devices \cup configured[instance]
    /\ UNCHANGED <<after, reload, keys, instance, runtimeVars>>

-----------------------------------------------------------------------------
(* The on-unload callbacks.                                                 *)

(* The task of _stop_connections begins with the first connection.          *)
StartStopping ==
    \/ /\ configured[instance] = {}
       /\ stopper' = [stopper EXCEPT ![instance] = "done"]
       /\ UNCHANGED session
    \/ \E l \in configured[instance] :
          /\ session' = [session EXCEPT ![instance][l] = "closing"]
          /\ stopper' = [stopper EXCEPT ![instance] = "running"]

(* Mutant: tracking goes on while the connections stop.                     *)
ReleaseTrackingKept == StartStopping /\ UNCHANGED tracking

(* Last registered first: tracking ends before the connections stop.        *)
Release == tracking' = tracking \ {instance} /\ StartStopping

(* Mutant: the callbacks are registered after the platforms.                *)
PlatformFailsUnregistered ==
    /\ phase = "forwarding"
    /\ phase' = "setupError"
    /\ devices' \in {devices, devices \cup configured[instance]}
    /\ UNCHANGED <<after, reload, keys, instance, runtimeVars>>

(* A platform cannot be set up; others may have been.                       *)
PlatformFails ==
    /\ phase = "forwarding"
    /\ phase' = "draining"
    /\ after' = "setupError"
    /\ devices' \in {devices, devices \cup configured[instance]}
    /\ Release
    /\ UNCHANGED <<reload, keys, instance, configured>>

(* async_stop has confirmed the disconnect; the loop goes on to the next    *)
(* connection, if there is one.                                             *)
StopConfirmed(i, l) ==
    LET rest == {k \in Locks : session[i][k] = "open"} IN
    /\ stopper[i] = "running"
    /\ session[i][l] = "closing"
    /\ \/ /\ rest = {}
          /\ session' = [session EXCEPT ![i][l] = "closed"]
          /\ stopper' = [stopper EXCEPT ![i] = "done"]
       \/ /\ \E k \in rest :
                session' = [session EXCEPT ![i][l] = "closed", ![i][k] = "closing"]
          /\ UNCHANGED stopper
    /\ UNCHANGED <<entryVars, configured, tracking, devices>>

(* async_stop cannot confirm it and raises: the loop ends there.            *)
StopRaises(i, l) ==
    /\ stopper[i] = "running"
    /\ session[i][l] = "closing"
    /\ session' = [session EXCEPT ![i][l] = "unconfirmed"]
    /\ stopper' = [stopper EXCEPT ![i] = "raised"]
    /\ UNCHANGED <<entryVars, configured, tracking, devices>>

(* The link of an unconfirmed teardown drops after all.                     *)
LinkGone(i, l) ==
    /\ session[i][l] = "unconfirmed"
    /\ session' = [session EXCEPT ![i][l] = "closed"]
    /\ UNCHANGED <<entryVars, configured, stopper, tracking, devices>>

-----------------------------------------------------------------------------
(* Unload, reload, removal.                                                 *)

(* async_unload_entry, for a scheduled reload or for the user, who disables *)
(* or deletes the entry; it cancels the first refresh.                      *)
BeginUnload(purpose) ==
    /\ phase = "loaded"
    /\ purpose = "setup" => reload
    /\ phase' = "unloading"
    /\ after' = purpose
    /\ reload' = (reload /\ purpose # "setup")
    /\ UNCHANGED <<keys, instance, runtimeVars, devices>>

PlatformsUnloaded ==
    /\ phase = "unloading"
    /\ phase' = "draining"
    /\ Release
    /\ UNCHANGED <<after, reload, keys, instance, configured, devices>>

(* The entry stays as it is until Home Assistant restarts, but a deletion   *)
(* goes on.                                                                 *)
UnloadFails ==
    /\ phase = "unloading"
    /\ IF after = "remove" THEN phase' = "removed" /\ devices' = {}
                           ELSE phase' = "failedUnload" /\ UNCHANGED devices
    /\ UNCHANGED <<after, reload, keys, instance, runtimeVars>>

(* The tasks are over, or ten seconds are.                                  *)
DrainEnds ==
    /\ phase = "draining"
    /\ phase' = CASE after = "setupError" -> "setupError"
                  [] after = "remove"     -> "removed"
                  [] OTHER                -> "notLoaded"
    /\ devices' = IF after = "remove" THEN {} ELSE devices
    /\ UNCHANGED <<after, reload, keys, instance, runtimeVars>>

(* The user enables the entry, or reloads it; a scheduled reload does the   *)
(* same for an entry that is in error, and nothing for a disabled one.      *)
TryAgain ==
    /\ phase \in {"setupError", "notLoaded"}
    /\ phase' = "notLoaded"
    /\ after' = "setup"
    /\ reload' = FALSE
    /\ UNCHANGED <<keys, instance, runtimeVars, devices>>

(* The user deletes an entry that is down; nothing is unloaded for it.      *)
RemoveDown ==
    /\ \/ phase \in {"setupError", "failedUnload"}
       \/ phase = "notLoaded" /\ after = "stay"
    /\ phase' = "removed"
    /\ devices' = {}
    /\ UNCHANGED <<after, reload, keys, instance, runtimeVars>>

(* Mutant: only the update listener, which set-up registers last, reloads.  *)
UpdateKeysUnscheduled(K) ==
    /\ phase # "removed"
    /\ keys' = K
    /\ reload' = (reload \/ phase \in {"loaded", "unloading", "failedUnload"})
    /\ UNCHANGED <<phase, after, instance, runtimeVars, devices>>

(* Reauthentication or reconfiguration replaces the keys wholesale and      *)
(* schedules a reload.                                                      *)
UpdateKeys(K) ==
    /\ phase # "removed"
    /\ keys' = K
    /\ reload' = TRUE
    /\ UNCHANGED <<phase, after, instance, runtimeVars, devices>>

(* async_remove_config_entry_device: the user may delete the device of a    *)
(* lock that is no longer in the entry's keys.                              *)
DeleteDevice(l) ==
    /\ l \in devices \ keys
    /\ devices' = devices \ {l}
    /\ UNCHANGED <<entryVars, runtimeVars>>

Setup == BeginSetup \/ RecordsLoaded \/ HistoryLoaded \/ HistoryFails
            \/ PlatformsForwarded \/ PlatformFails

Unload ==
    \/ \E purpose \in {"setup", "stay", "remove"} : BeginUnload(purpose)
    \/ PlatformsUnloaded
    \/ UnloadFails
    \/ DrainEnds

Stopping == \E i \in Instances, l \in Locks :
                StopConfirmed(i, l) \/ StopRaises(i, l) \/ LinkGone(i, l)

Next ==
    \/ Setup
    \/ Unload
    \/ Stopping
    \/ TryAgain
    \/ RemoveDown
    \/ \E K \in SUBSET Locks : UpdateKeys(K)
    \/ \E l \in Locks : DeleteDevice(l)

Spec == Init /\ [][Next]_vars

(* Loads, platforms and the drain come to an end, and a scheduled reload    *)
(* gets its turn; no stop and no user has to act.                           *)
FairSpec ==
    /\ Spec
    /\ WF_vars(Setup)
    /\ WF_vars(PlatformsUnloaded \/ UnloadFails)
    /\ WF_vars(DrainEnds)
    /\ WF_vars(BeginUnload("setup"))

-----------------------------------------------------------------------------
EntryTypeOK ==
    /\ phase \in Phases
    /\ after \in Purposes
    /\ reload \in BOOLEAN
    /\ keys \in SUBSET Locks
    /\ instance \in 0 .. MaxInstances

(* The sessions of an instance are for the locks it was configured with,    *)
(* though the keys may change while it is being set up.                     *)
RuntimeTypeOK ==
    /\ configured \in [Instances -> SUBSET Locks]
    /\ session \in [Instances -> [Locks -> Sessions]]
    /\ \A i \in Instances, l \in Locks : session[i][l] # "none" => l \in configured[i]
    /\ stopper \in [Instances -> {"none", "running", "done", "raised"}]
    /\ tracking \subseteq Instances
    /\ devices \subseteq Locks

TypeOK == EntryTypeOK /\ RuntimeTypeOK

(* Instances do not stack: a session of an earlier set-up, or of an entry   *)
(* that is down, is only still there when its stop could not confirm the    *)
(* disconnect, or when Home Assistant no longer waits for it.  A set-up     *)
(* that fails part-way leaves none (__init__.py:189).                       *)
LeftoversAreAccountedFor ==
    \A i \in Instances, l \in Locks :
        Live(i, l) /\ (i # instance \/ phase \in {"notLoaded", "records", "history",
                                                  "setupError"})
            => stopper[i] \in {"running", "raised"}

(* Advertisements reach the latest runtime or none, whatever became of the  *)
(* stops: no coordinator of an earlier set-up is told of them.              *)
OnlyTheLatestTracks ==
    \A i \in tracking : i = instance /\ phase \notin {"records", "history", "draining",
                                                      "notLoaded", "setupError"}

(* A loaded entry has no device of a lock that left it, and when no reload  *)
(* is due exactly those of its account's locks.                             *)
DevicesFollowKeys ==
    phase = "loaded" =>
        /\ devices \subseteq configured[instance]
        /\ ~reload => devices = keys

(* An unload that Home Assistant reports as failed has stopped nothing.     *)
FailedUnloadStopsNothing ==
    phase = "failedUnload" =>
        /\ instance \in tracking
        /\ \A l \in configured[instance] : session[instance][l] = "open"

(* New keys come into use: a loaded entry does not go on with the ones its  *)
(* account had when it was set up.                                          *)
KeysTakeEffect ==
    phase = "loaded" /\ configured[instance] # keys
        ~> phase # "loaded" \/ configured[instance] = keys

(* "Unload reports failure rather than silently dropping ownership" of a    *)
(* connection whose disconnect is uncertain (docs/PRERELEASE_3.5.1RC12.md). *)
UnloadReportsFailure ==
    [][phase = "draining" /\ phase' = "notLoaded" =>
          \A l \in Locks : session[instance][l] # "unconfirmed"]_vars
=============================================================================
