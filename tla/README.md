# Verification of the TTLock BLE integration

The program is a Home Assistant custom component (`src/custom_components/ttlock_ble`, about 6500 lines of
Python) that drives TTLock door locks over Bluetooth Low Energy. Everything runs on one asyncio event loop:
the code between two `await`s is atomic, and every `await` is a place where another task, a Bluetooth callback
or a cancellation can come in. That, a radio link that fails in the middle of things, and data that outlives
the process are what this project is about.

Contents: [the parts](#the-systems-parts), [what each module models](#what-is-modelled),
[the runs](#the-runs), [fairness](#fairness), [findings](#where-code-and-documentation-disagree),
[remarks](#remarks), [proofs](#what-is-proved), [assumptions](#assumptions-and-abstractions),
[what is left out](#what-is-not-modelled), [plan](#plan). File names without a directory are those of
`src/custom_components/ttlock_ble/`.

## The system's parts

| Part | State it keeps | Operations | Talks to |
|---|---|---|---|
| BLE session, one per lock (`connection.py`) | `_client`, `_pending_client` and their generation, `_lock`, the pending command count, the inventory task, `_closing`, `_disconnected`, the maintain task | `async_start`, `async_stop`, lock/unlock, state query, management calls, inventories, log fetch, maintain loop, disconnect callback | the SDK and bleak below; coordinator, entities, services above |
| Explicit control (`connection.py`, `_async_run_control_command`) | the caller, the control task and the reconciliation task of one command | start, retain against cancellation, stop, reconcile, close out | the control client; the session's lock |
| Control client (`client.py`) | control stage, tracking flag, acknowledgement | `_ha_run_control`, `_send`, `_answers` | the lock; asks the session whether it is closing |
| Coordinator (`coordinator.py`) | state per lock with its revision, advertisement hints, requested active scans, retry and log tasks | poll round, advertisement, authoritative result, bootstrap retry, log synchronisation, shutdown | sessions, lock entity, log history |
| Lock entity (`lock.py`) | shown state, settle window, transitional state, command lock | lock, unlock, coordinator update, push notification and its query | coordinator, session |
| Operation log history (`log_history.py`) | journal of identities (deque and set per lock), cutoff, delayed save | load, classify, save | log fetch of the session; event entities |
| Access records (`access_records.py`) | references and labels per scope, freshness, confirmations, revisions, legacy opt-out; their file | load, mark stale, reconcile, name, reset, opt out, remove | administration requests, services, entry removal |
| Administration (`management_http.py`) and services (`services.py`) | none between requests; the inventory task and its diagnostics are the session's | read, name, reset, opt-out; inventory action, legacy PIN actions | session, access records |
| Entry lifecycle (`__init__.py`) | runtime data of the entry, on-unload callbacks, devices | set up, reload, unload, remove, prune and delete devices | all of the above |
| Config flow (`config_flow.py`, `manual_key.py`, `api.py`) | a flow's step, account and unique id; the entries | add by account or by key, verification code, reauthenticate, reconfigure | the cloud, Home Assistant's entries |
| Advertisement tracker, sensors, events, binary sensors | none | translate and forward | coordinator |
| Options flow, frontend, diagnostics | none | a form, a page, redacted dumps | Home Assistant |

### What is hard in it, and what makes each part correct

* **Session.** A lock accepts one central. A client whose disconnect was not confirmed may still occupy that
  slot, so it must stay owned, whatever failed or was cancelled meanwhile, and no second one may be made.
  Disconnect callbacks come late, when their client is retired or replaced. Commands preempt inventories.
  Unloading must end, and leave nothing. -> `EveryHandleIsOwned`, `OwnershipErrorsUnreachable`,
  `AnnouncedUpIsAccountedFor`, `ReadSpec`, `InventoryYieldsToControl`, `StopLeavesNothing`, `SlotSpec`,
  `WaitersGetCloser`, `StopSettles`, `ControlsAnswered`, `MaintenanceResumes`.
* **Explicit control.** A door must not move twice for one request, nor after the user was told that it did
  not. Before the control write begins a cancellation must stop the command; afterwards it must not, and the
  outcome has to be found out by a query, never by a resend. -> `PromiseSpec`, `SuccessIsConfirmed`,
  `NoTaskOutlivesItsCaller`, `CancellationStopsUncommitted`, `ClosingStartsNoControl`, `EveryCallerAnswered`.
* **Publication of state.** Readings from polls, push queries and commands arrive out of order and may lag
  behind the bolt. -> `NeverGoesBack`, `SettledOnCommand`, `MovingIsTruthful`, `ActivityIsQueried`,
  `ShowsTheBolt`, `ShutdownEndsRetries`.
* **Access records.** Overlapping reads of a scope, saves that fail after memory changed, restarts in the
  middle of a save. -> `FreshIsNewest`, `RetiredStaysRetired`, `OneReferencePerCredential`,
  `ForgottenStaysForgotten`, `ConfirmedIsCurrent`, `BookSpec`, `OptOutHolds`, `RemovalForgets`.
* **Log history.** Two data structures that have to evict the same identity, saves that are delayed, a process
  that is killed, a lock whose clock is ahead, entities that listen only part of the time. ->
  `JournalAgrees`, `OnceOnly`, `NothingSwallowed`; proved only: `HistoryStaysQuiet`.
* **Entry lifecycle.** Every set-up builds a runtime of its own, and what the one before has left is stopped by
  a task Home Assistant waits for only so long. Keys change in the middle of a set-up, platforms fail, a stop
  raises. -> `LeftoversAreAccountedFor`, `OnlyTheLatestTracks`, `DevicesFollowKeys`,
  `FailedUnloadStopsNothing`, `KeysTakeEffect`, `UnloadReportsFailure`.
* **Config flow.** What a flow looked up before it asked the cloud is minutes old when it creates an entry;
  other flows, deletions and closed dialogs come in between. -> `NoLockTwice`, `IdentityFollowsData`,
  `NothingIsReplaced`, `EntriesKeepTheirAccount`, `OutageIsNotBlamed`.
* **Administration.** A read runs in a task that commands and timeouts cancel while its request waits; its
  diagnostics are shared with the next read; the gate of a PIN write is read before the write waits. ->
  `CertifiedByOwnTeardown`, `AnsweredReadsAreOver`, `ReadsYieldToControl`, `PreemptedReadsDoNotSucceed`,
  `OptOutStopsLaterWrites`, `ReadSpec`, `ReadsAreAnswered`.

`PROJECT.json` lists the hazards line by line with the properties that would catch them.

## What is modelled

One module per component; a module's actions are the blocks between two awaits of the code, and a comment or
the map of `PROJECT.json` names the function each stands for.

| Module | Models | Variables and actions |
|---|---|---|
| `LockSession` | `TtlockBleConnection`: who holds `_lock`, how a client is acquired, used and torn down | `owner`/`queue` are the asyncio lock, `pc` the place in the critical section, `after` why a teardown runs (`Resume` says where it continues), `client`/`pending`/`owned` the ownership fields, `link` what the backend has for each client generation, `callbacks` the disconnect callbacks still to run, `loop`/`stop` the maintain loop and `async_stop`. `Ensure` ... `Leave` are the section's blocks; `ScanEnds`, `ConnectSucceeds`, `CleanupFails`, ... end its awaits; `Cancel` and the `Unwind...` actions deliver a `CancelledError`; `LinkEstablished`, `LinkDrops`, `OnDisconnected` are the backend |
| `CentralSlot` | abstract: what the session promises to the lock's one central slot | `holder`, `linked`, `offered`, `shut`; claimed only when free, released only withdrawn and together with its link, nothing new after `Shut` |
| `PreemptibleRead` | abstract: what the session promises about reading credentials | `controls` the commands under way, `reads` the one read, `ending`, `holder`, `shut`; begun in an idle session only, told to end by whoever asks for control, never resumed |
| `ControlCommand` | one explicit command: caller, control task, reconciliation task, SDK adapter, lock | `watch`, `control` and `resolver` are the awaits of the three tasks, `stage`/`tracking`/`ackReceived` the client's fields, `received` frames the lock holds and may act on at any later time, `written`/`executed`/`answer`/`matched` history |
| `BoltCommand` | abstract: what a caller is promised | at most one frame is written for a request, and after a definite failure the lock does not move for it any more |
| `StatePublication` | coordinator and lock entity for one lock | `locked`/`published` the coordinator's state and its revision, `poll` this lock's part of the round, `shown`/`settling`/`moving` the entity, `call` the service calls, `queries` the tasks behind push notifications; history `commanded` |
| `AccessRecords` | store of one lock and access method, and the requests on it | memory (`records`, `fresh`, `observed`, `confirmed`, `revision`, `legacy`), the store's lock (`holder`), the requests (`step`, `action`, `ticket`, ...), `disk`; history of what was missed, forgotten and opted out, and of what was `vouched` for: named in this run and listed by every reconciliation since |
| `LabelBook` | abstract: what the store promises an administrator | `book`, `stored` and the book in `saving`; a read loses and invents no label, a name changes one, a reset forgets, a restart takes up a book that was saved or being saved |
| `LogHistory` | journal of one lock, and who hears its events | `recent`/`seen` deque and set, `dirty` the pending delayed save, `disk`, `late` delayed saves of unloaded instances, `phase` whether the event entity listens; `date` the lock's log; history of what became of the records: `fired`, `unheard`, `age` how many others were journalled since a record was an event, `again` the ones that became an event once more before the journal had reason to forget them |
| `EntryLifecycle` | one entry through set-ups, reloads, unloads and removal, over several locks | `phase` where Home Assistant has it, `after` what an unload is for, `configured`/`session`/`stopper`/`tracking` what each set-up built and what has become of it, `devices` the registry |
| `ConfigFlow` | several flows and the entries they create and edit | `entries`, and for each flow its step, held unique id, account, entry, what the cloud answered and the error shown; requests of closed dialogs run on |
| `Administration` | what administers a lock while its bolt is in use | per request `kind` and `step`, per read its task (`read`, `outcome`, `cancelled`), the shared `task`/`diagnostics`/`holder`, the opt-out; history `late`, `closed`, `certified` |
| `MCAccessRecords`, `MCConfigFlow` | the two modules for TLC | symmetry, and two accounts with the same slug |
| `...Proofs` | theorems about the module they are named after | |

Four modules are held against abstract ones, by refinement mappings at their ends: `LockSession` implements
`CentralSlot` (`SlotSpec`) and `PreemptibleRead` (`ReadSpec`), `Administration`, which sees the session from the
other side, implements `PreemptibleRead` too, `AccessRecords` implements `LabelBook` (`BookSpec`); and
`ControlCommand` keeps `BoltCommand` (`PromiseSpec`). `LabelBook` lets a save that is under way at the removal
of the entry still reach the disk, because the code does (finding 2).

How they fit together: `LockSession` has the whole life of a session but only three facts about a command
(it is in use, its frame may be out, it reconciles). `ControlCommand` has the inside of that stretch and takes
acquisition and teardown as single steps that succeed or fail. `StatePublication` takes a command as a step
that succeeds, or fails with the bolt in either place, which is what `BoltCommand` leaves open after
"unknown". `AccessRecords` takes an inventory as complete or failed and `LogHistory` a log fetch as a page,
as they get them from the session. `EntryLifecycle` takes one `async_stop` as a step that confirms, raises or
does not end in time, which is what `LockSession` shows of it. `Administration` puts the requests of the panel
and the services beside commands on the session's lock, and has of the records only the opt-out.

An action has its variant in the same module when its comment starts with "Mutant:". These are deliberate
errors, used to see that a property notices them; no specification contains them.

## The runs

| Run | Instance | What it shows |
|---|---|---|
| `session` | one command caller, one query caller, one inventory, maintain loop, stop, two client generations | ownership, announcements and shutdown over all interleavings; the session implements `CentralSlot` and `PreemptibleRead`; who waits gets closer with every step; `async_stop` finishes and commands are answered although the others come back for ever |
| `session_maintenance` | one query caller, maintain loop | **violation**, finding 1 |
| `control` | a lock and an unlock request, three cancellations | the promise of a command, and that every caller is answered |
| `records` | two requests at a time, two credentials, four reads or resets, one failing save, one restart; indexed and limited PIN scopes | freshness, retirement, reset, that confirmations are of this run, and that limited PIN inventories make no second reference; the store implements `LabelBook`, opt-out included |
| `records_removal` | two requests | **violation**, finding 2 |
| `publication` | two service calls, one turn by hand, one push | revisions, settle window, transitional state; requested refreshes happen; the entity comes to show the bolt |
| `publication_shutdown` | one service call | **violation**, finding 3 |
| `log_history` | journal of two, fetches of up to two of any records, three records, two loads, one kill, a clock up to one load ahead | deque and set agree, a record is an event again only after the journal was filled by others, none of this load is lost in the journal |
| `entry_lifecycle` | two locks, three set-ups | what earlier set-ups left is accounted for, one tracker, devices follow the keys, changed keys come into use |
| `entry_unload` | two locks, one set-up | **violation**, finding 4 |
| `config_flow` | two flows, two entries, three accounts of which two slug alike, two locks | no lock twice, entries found under what they hold, none replaced or repointed, outages not blamed on the password |
| `administration` | three requests, each of any kind | reads are certified by their own teardown and answered; the connection implements `PreemptibleRead` as its callers see it; an answered opt-out holds |

### Why these bounds are enough to be interesting

* Callers may come back for ever in `LockSession`: a task that is idle may ask again, so one name per kind is
  already every sequence of calls of that kind. Two client generations are needed for a late callback to meet
  a new client, and for a retry after a failed cached route. When generations are used up the section fails
  as it does when no client can be opened; the theorems hold for any number. Log readers (`Loggers`) differ
  from state queries only in what they skip and are left out of the instance, not of the module.
* Two requests of `ControlCommand` let the second meet the stage, the late frame and the bolt the first left.
  Three cancellations reach the caller before the commit, during the reconciliation and again while that is
  being stopped.
* Two handlers with four tickets in `AccessRecords` are two overlapping reads, a reset, and a read after it;
  two records are enough to fill the store (`MaxRecords`), and two credentials let one retire beside another.
* In `StatePublication` two service calls overlap in the command lock. The poll round, advertisements and
  retries are unbounded; only turns by hand and pushes, each of which adds one independent reading, are
  bounded to one. Revisions are renumbered when no reading waits to be merged (`RefreshStarts`), as only their
  order counts.
* A fetch in `LogHistory` returns any records of the lock, in any order and the same one twice, and in the
  instance a page can fill the whole journal: what a fetch evicts may come again on the same page. Three records
  overflow a journal of two, and two loads with a kill and a clock one load ahead are the cases the cutoff is
  for. The theorems have pages and journals of any size.
* Two locks in `EntryLifecycle` are one that is stopped and one behind it; with three set-ups the leftovers of
  the first meet the third. `Administration` bounds the requests under way at a time, not in all: an answered
  one may ask again.
* In `ConfigFlow` two flows and two entries are one entry to be replaced and one to be created beside it.

Deadlock is checked for the session, commands, config flows and administration, which can always be asked for
more; the others may stop: their bounds run out, or the entry is unloaded or removed.

## Fairness

* `LockSession!Fairness`: weak fairness of the critical section as a whole (every wait inside it is a
  bleak call with a deadline, an SDK exchange with a timeout, or a bounded teardown), of granting a released
  asyncio lock, and of raising a `CancelledError` that was delivered. Strong fairness for the end of the
  maintain task and for `async_stop` taking the lock: they are ready between other blocks again and again, and
  the event loop's ready queue is first in, first out. No caller has to call, no link has to drop.
* `MaintenanceSpec` adds strong fairness of the maintain loop and of the disconnect callbacks: without it the
  counterexample of finding 1 could be a callback that simply never runs.
* `ControlCommand!FairSpec`: the three tasks run when they can, and a free session lock is taken. The lock
  need not act and the link need not hold; an exchange that gets no answer ends by its timeout.
* `StatePublication!FairSpec`: Home Assistant schedules a refresh after every one that ends; a poll ends;
  results are merged; windows end; a command ends. `ShowsTheBolt` also needs that a lock that is polled again
  and again answers with a position some of those times (strong fairness of `PollReads`): a lock that is out
  of range for ever is not shown.
* `EntryLifecycle!FairSpec`: set-ups and platform unloads end, the drain is bounded by ten seconds, and a
  scheduled reload gets its turn. No stop has to end.
* `Administration!FairSpec`: the inventory task, a woken request and the holder of the lock go on; strong
  fairness of a read being granted `_lock`, since `asyncio.Lock` queues its waiters in order while the module
  leaves the order open.

## Where code and documentation disagree

1. `session_maintenance`, `connection.py:1712`. A disconnect callback that runs after another operation has
   confirmed the teardown of its client is ignored as retired and does not set `_disconnected`; the maintain
   loop, which waits for exactly that event, then waits for a drop of a session that no longer exists. The
   loop's comment (line 1725) and `src/README.md:134` promise a reconnect after every drop.
2. `records_removal`, `__init__.py:249`. Deleting the entry removes the file through a new `AccessRecordStore`
   with a lock and revisions of its own, so a request of the loaded store that is still saving writes the
   labels back. `src/docs/STABLE_3.5.1.md:48` and `src/docs/RC16_SECURE_ACCESS.md:114` say otherwise.
3. `publication_shutdown`, `coordinator.py:228`. A refresh that an advertisement started as a bare task is not
   cancelled by `async_shutdown`; when it ends for a lock that was never read it starts a retry that nobody
   cancels (`coordinator.py:358`).
4. `entry_unload`, `__init__.py:181`. The connections are stopped by an on-unload callback, whose exception
   Home Assistant does not retrieve: the entry counts as unloaded although a disconnect could not be confirmed,
   the connections behind that one are not stopped, and a reload builds new ones beside them.
   `src/docs/PRERELEASE_3.5.1RC12.md:82` says that the unload reports failure.

## Remarks

What the models made visible and no run is about, because no text of the repository says otherwise or because
the case is narrow:

* A log record of this load that is fetched before the event platform is set up is journalled and sent to
  nobody, and never fires (`connection.py:574`, `__init__.py:218`; `unheard` in `LogHistory`).
  `src/README.md:80` has an event for every new record. The connections work from `__init__.py:165` on.
* The journal remembers 512 records of a lock. One that comes back after so many others were journalled, by
  replay or on an older page, within the load it is dated in (or ahead of), is an event again: the cutoff lets it
  through and the journal has forgotten it. `connection.py:530` says that classification survives firmware
  replay, `src/docs/HARDWARE_VALIDATION.md:125` that replayed pages create no events; `OnceOnly` promises it for
  what the journal can still know.
* With a lock clock that is ahead *and* a kill within the five seconds of the delayed save, a record can fire
  twice; without a kill the journal prevents it while it remembers the record. The clock synchronisation service is the program's remedy.
* A poll reading the settle window suppresses stays the coordinator's state (`lock.py:215`, `lock.py:72`), and
  the first notification after the window shows it, until the next poll corrects it.
* Two accounts whose usernames slug alike pass the "wrong_account" check for each other: `slugify` is what it
  compares (`config_flow.py:377`). `EntriesKeepTheirAccount` is therefore stated up to the slug.
* The form that says to re-add an entry (`config_flow.py:463`) sends the user into "already_configured" as
  long as the entry exists.
* A command that preempts a read during its closing teardown is not recorded in the read's diagnostics
  (`connection.py:494`; `src/docs/RC14_ACCESS_MANAGEMENT.md:59`). The inventory action reads the shared
  diagnostics after its await, so that a next read started in the same loop iteration hides `cleanup_uncertain`
  (`services.py:307`).
* Options changed while the entry is being set up are not reloaded: the update listener is registered last
  (`__init__.py:219`). `KeysTakeEffect` concerns keys, whose change schedules its own reload.
* An entry removed while its platforms fail to unload leaves its sessions open.
* A PIN write reads the gate of the legacy opt-out and then waits for the session lock (`services.py:160`). If the
  opt-out is answered meanwhile the write still goes through: `OptOutStopsLaterWrites` is about what is submitted
  after the answer.

## What is proved

TLC explores the instances above; TLAPS checks the following for every value of the constants that satisfies
the modules' named assumptions. Every safety invariant and action property the passing runs check is proved.
So are a few that no run repeats, marked (p): the type invariants, and properties that follow from the ones
beside them (`InventoryYieldsToControl` is what `ReadSpec` says of a command that waits, `OptOutHolds` what
`BookSpec` says of an opt-out that was saved).

* `LockSessionProofs`. `IInv` is `TypeOK`, the three ownership invariants and `SectionInv`. The ownership
  invariants are not inductive alone: that a candidate is only opened when none is pending depends on how the
  section got there, so `SectionInv` says for each place of the section what the two client fields hold
  (nothing pending while a route is looked for, nothing installed while a teardown runs, a link that is up when
  a candidate is adopted). `JInv` adds what the other two invariants need: `LineOK` (no task stands in the
  lock's queue twice, or holds it and waits), `ShutdownOK` (`async_stop` takes the lock when the maintain task
  is gone, and what it released stays so), `CommandOK` (whose section it is) and `YieldOK` (inventories that
  wait while control does are cancelled). Theorems: `TypeCorrect` (p), `HandlesOwned`, `NoOwnershipErrors` (p),
  `AnnouncementsTrue`, `ImplementsSlot` (`Spec => SlotSpec`; its step lemma maps every action to one of
  `CentralSlot` or to a stutter), `InventoriesYield` (p), `StopIsClean`.
  `WaitersServed` is the safety half of the session's liveness. `WorkLeft` counts what the section may still
  have before it: every place of the section has a rank (`PlacesLeft`), a retry is counted in the rank of the
  places before it, and once the section reconciles it cannot go back. The invariant this needs is `RetryOK`:
  a section that uses its client is not reconciling, and only `async_stop` makes a last attempt. The theorem says
  that the line is not overtaken and that every step of the section makes `WorkLeft` smaller, so that with the
  stated fairness each wait in the line is finite.
  `ImplementsRead` (`Spec => ReadSpec`) rests on `ReadsOK` (at most one read is under way, and no cancellation
  of an earlier one is left over) beside `YieldOK`.
* `ControlCommandProofs`. `IInv` is `TypeOK`, `CallerInv` (who may still be cancelled and has no answer yet),
  `TaskInv` (which of the two tasks exists at each await of the caller, with what result), `StageInv` (a
  committed stage belongs to a running write), `AttemptInv` (frames written, received and executed against
  results and answers) and `AckInv` (an acknowledgement is evidence about the request that waits for it).
  `PromiseSpec` needs all of them: a definite answer is only given for a result that rules a late frame out.
  Theorems: `TypeCorrect` (p), `NothingOutlivesItsCaller`, `SuccessConfirmed`, `KeepsPromise` (refinement of
  `BoltCommand`), `ClosingIsFinal`, `CancellationIsHeeded`, and `CommandAdvances` (p): each step of the
  coroutine or its tasks makes `CommandLeft` smaller or takes up a cancellation, nobody else makes it larger;
  a command makes at most 14 steps and one for each cancellation.
* `StatePublicationProofs`. `IInv` is `TypeOK`, `OneRuns` (the command lock), `MovingIsTruthful` and
  `SettledOnCommand`. `OneRuns` is what makes the first inductive: the command that ends may clear the
  transitional state because it is the only one. Theorems: `TypeCorrect` (p), `MovementIsReal`, `WindowHolds`,
  `AuthorityAdvances`.
* `AccessRecordsProofs`. The invariant speaks of memory and disk alike (`StoreSound`): one reference per
  credential (`OneEach`), nothing forgotten or missed among the records (`KeepsThePast`), and every reference
  minted by a ticket no newer than the last (`Minted`), so that a read still under way mints new ones.
  `SavesTheMemory` is the step from one to the other: what a handler saves under the lock is what the memory
  holds. `Tickets` and `FreshIsCertified` carry `FreshIsNewest`; `ConfirmedIsCurrent` (a reconciliation
  takes back at least the confirmations of what it does not list, `ReconcileVouches`) and `OptOutInForce` are
  inductive with them. Theorems: `TypeCorrect` (p), `FreshWord`, `RetiredForGood`, `OneReference`,
  `ForgottenForGood`, `ConfirmedCurrent`, `OptOutLasts` (p), `ImplementsBook`. The last is the refinement of
  `LabelBook`: `SavesTheMemory` makes what is saved one whole book (`WriteBegins`, `SavedSaves`), and a read
  with the newest ticket mints references no record has (`ReconcileObserves`), so that no label passes to
  another credential.
* `LogHistoryProofs`. A page of any length is a loop, and induction over it is done with a least
  counterexample: `Progress` unfolds step by step (`ProgressSteps`, from `WFMin` on the natural numbers), and
  `LoopOK` holds after every record. `Keeps` ties history to journal: a record that was an event `age` records ago
  stands no more than `age` places from the end of the deque, since each record journalled moves it by one
  (`JournalledOK`), so that it cannot be taken for new. `StoredOK` says which journals, in the store or in a late
  save, still have that while nothing was killed, and `FiredOK` what bounds `fired` otherwise. Theorems: `TypeCorrect`
  (p), `SetAndDequeAgree`, `OneEventEach`, `NoneSwallowed`, `HistoryIsQuiet` (p).
* `EntryLifecycleProofs`. `UpIsWhole` (nothing of a runtime that is up has been stopped), `StopsAreOrdered` (one
  stop at a time, and an unconfirmed one ends its task), `Accounted`, `TracksTheLatest` and `DevicesSettled`
  (devices, keys and a scheduled reload agree through a set-up) with `Begun` and `BlankBefore` for instances to
  come. Theorems: `TypeCorrect` (p), `LeftoversAccountedFor`, `LatestTracks`, `FailedUnloadKeepsRuntime` (p),
  `DevicesAreTheLocks`.
* `ConfigFlowProofs`. `FlowOK` of each flow: the held unique id is its account's (`UidIsTheAccounts`) and stays
  free from the first request to the entry, waiting for a code included (`UidStaysFree`); an edit is of an entry
  that is there (`EditsItsEntry`); `OneHolder` of all. `NothingIsReplaced` follows from `UidStaysFree`.
  Theorems: `TypeCorrect` (p), `LockInOneEntry`, `FoundUnderItsData`, `OutageNotBlamed` (p),
  `OnlyTheUserRemoves`, `AccountKept`.
* `AdministrationProofs`. `ConfirmedIsItsOwn` is what makes certification sound although the diagnostics are
  shared: a request learns of its read before another read can end. `StepsOfItsKind` and `OptOutInForce`
  complete it. Theorems: `TypeCorrect` (p), `CertifiedByItsOwn`, `AnsweredIsOver` (p), `ControlComesFirst` (p),
  `OptOutStopsWrites`, `PreemptedFail` (p), and `ImplementsRead`, the contract of `PreemptibleRead`, from
  `ReadsOK` (the read under way is the inventory task's, who is inside holds the lock, and no cancellation is
  left over).

The assumptions on constants are what the modules' `ASSUME`s say: names of tasks, requests and "nobody" are
distinct; bounds are natural numbers (`MaxLoads` at least one); `Credentials` is finite; the
journal's capacity is positive; unique ids of accounts are no MACs.

Only model-checked: the liveness properties (they rest on fairness and ENABLED, which the prover does not
reason about): `StopSettles`, `ControlsAnswered`, `EveryCallerAnswered`, `ActivityIsQueried`, `ShowsTheBolt`,
`KeysTakeEffect`, `ReadsAreAnswered`. Of the first three the part that needs no fairness is proved, as
`WaitersServed` and `CommandAdvances`: nothing leads away from the end, what remains is that steps are taken.

## Assumptions and abstractions

* The SDK and bleak let a `CancelledError` through, and a heard acknowledgement is what the exchange returns.
  The control write begins in the block of the second shutdown check. The lock handles frames in order.
* Time is "may expire at any await". Scanner choice, RSSI, learned advertising intervals and active windows
  come down to "a candidate or none".
* A connect that returned has a link, although `connection.py:1110` does not ask; it may drop at once.
* In `LockSession` and `Administration` an event loop block is never interrupted, and a callback that is queued
  runs before anything new is heard of the lock (`LoopFree`); a teardown whose cleanup is already confirmed
  awaits nothing.
* `AccessRecords` has one scope; other scopes share only the lock and file. A save that returns was written;
  one that fails or is interrupted may have been, and whether it was is settled when the lock of the store is
  free; the executor write of an interrupted save could land later still (`access_records.py:136`). Stores written by earlier versions are not initial states.
  References are fresh: the keyed hash of `credential_references.py` is injective.
* `StatePublication` has one lock; the other locks of the entry are the delay between `PollReads` and the
  merge. A command's answer and its bookkeeping are one step. Home Assistant runs one refresh at a time and
  may drop requests while it does. A task and its done-callback end together. After a command answers may lag
  until the settle window is over; afterwards the lock answers where its bolt is.
* `LogHistory` has one lock, and a date is the last load whose cutoff it exceeds. An instance stays up longer
  than its predecessor's five-second delayed save, or is killed.
* `EntryLifecycle`: Home Assistant runs one set-up, unload or reload of an entry at a time. On-unload callbacks
  that are coroutines become tasks started at once, awaited for ten seconds at most, whose exceptions only show
  in the log.
* `ConfigFlow`: `async_set_unique_id` refuses an id another flow holds; a flow's check and the entry it creates
  or updates are one block; the result of a dialog that was closed is dropped, but what the step had changed by
  itself stays. The checks of a typed key are one choice between accepted and refused.
* `Administration`: authorisation and parsing come before the model; a save of the opt-out succeeds or fails, and
  a second one is not submitted while the first is saving (`AccessRecords` has them queue on the store's lock).
  Of the waits for a read only the panel's forty seconds are interrupted, not a service caller's
  (`connection.py:423`). A request counts as answered when its handler has ended: that of a preempted panel read
  ends with a `CancelledError` (`management_http.py:129`).

## What is not modelled

* Routes below "a candidate or none": cached route, freshness, active-scan windows, backoff of the maintain
  loop. They are clocks and radio data; what the session does with their outcome is modelled.
* `credential_references.py`: the key of a hash, loaded or created once under a lock of its own, and the hash,
  which `AccessRecords` takes as injective.
* Advertisement payload matching, sensors, binary sensors, the mapping of record types to events, diagnostics,
  frontend, options flow: stateless translations, or one assignment.
* Validation and wording of service calls; a malformed stored journal or record file (ignored, or refused).
* The wire protocol: it belongs to the `ttlock_ble` SDK, which is not part of the repository.

## Plan

Done, in order of importance: `LockSession` with `CentralSlot`; `ControlCommand` with `BoltCommand`;
`AccessRecords`; `StatePublication`; `LogHistory` with the lock's clock ahead; `EntryLifecycle`;
`Administration`, which puts administration and services beside commands; `ConfigFlow`; the proofs of all
safety properties; `PreemptibleRead`, implemented by `LockSession` and by `Administration`, so that both hold the
read they share to one contract; `LabelBook`; the variants behind the session's and the command's liveness.

What could come next, for a team that goes on: the log fetch with its partial pages composed with
`LogHistory`; several scopes of `AccessRecords` over one file; the routes and backoff of the maintain loop with
a discrete clock; variants for the liveness of the coordinator and of the entry, as `WaitersGetCloser` is one
for the session.
