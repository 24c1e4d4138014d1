---------------------------- MODULE AccessRecords ----------------------------
(***************************************************************************)
(* The private records of one lock and access method (access_records.py,   *)
(* AccessRecordStore) and the administration requests that work on them    *)
(* (management_http.py, _dispatch).  A record is a reference to a          *)
(* credential the lock listed, with the administrator's label.             *)
(*                                                                         *)
(* Requests run as tasks of their own.  A read takes a ticket, reads the   *)
(* lock for seconds, and reconciles what it saw; reconciling, naming,      *)
(* forgetting and the legacy opt-out change the memory and save it to disk *)
(* under the store's lock.  A save may fail or be cancelled, Home          *)
(* Assistant may restart, the config entry may be removed.  Which          *)
(* credentials the lock lists changes freely between reads.                *)
(***************************************************************************)
EXTENDS Naturals, FiniteSets

CONSTANTS
    Handlers,      \* administration requests in flight at a time
    Nobody,        \* no handler
    Credentials,   \* what an inventory identifies: PINs, slots, card numbers
    MaxRecords,    \* MAX_RECORDS
    MaxTickets,    \* bound: reads and resets
    MaxFailures,   \* bound: saves that fail or are cancelled
    MaxRestarts    \* bound: restarts of Home Assistant

ASSUME HandlersAssumption == Nobody \notin Handlers

ASSUME CredentialsAssumption == IsFiniteSet(Credentials)

ASSUME ParametersAssumption ==
    {MaxRecords, MaxTickets, MaxFailures, MaxRestarts} \subseteq Nat

VARIABLES
    pin,          \* the method is keypad_pin, whose inventory may omit some
    records,      \* `_scopes[scope]["records"]`
    legacy,       \* the lock is in `_legacy_disabled`
    fresh,        \* `_fresh` holds the scope and has not expired
    observed,     \* `_observed[scope]`, references
    confirmed,    \* `_confirmed`, references
    revision,     \* `_revision[scope]`; only its being the newest matters
    holder,       \* who holds `_lock`
    step,         \* where each request's handler rests
    action,       \* what it does
    ticket,       \* the revision its read began with
    seen,         \* the credentials its inventory listed
    target,       \* the reference it names
    payload,      \* the data its save was called with
    disk,         \* the stored data; an absent file loads as EmptyData
    removed,      \* the config entry is deleted
    failures, restarts,
    certifier,    \* ticket of the read that set `fresh` in this run, or 0
    missed,       \* references that a certified read did not list
    vouched,      \* references named in this run since the last answered reset,
                  \* and listed ever since
    forgotten,    \* references that an answered reset dropped
    optedOut      \* an answered opt-out that nobody asked to take back

memoryVars  == <<records, legacy, fresh, observed, confirmed, revision>>
requestVars == <<step, action, ticket, seen, target, payload>>
entryVars   == <<pin, removed>>
boundVars   == <<failures, restarts>>
historyVars == <<certifier, missed, vouched, forgotten, optedOut>>
vars == <<memoryVars, holder, requestVars, disk, entryVars, boundVars, historyVars>>

(* `born` is the ticket of the read that minted the reference.              *)
Record == [cred: Credentials, born: Nat, active: BOOLEAN, label: BOOLEAN]
Ref(r)  == [cred |-> r.cred, born |-> r.born]
Refs(S) == {Ref(r) : r \in S}
Reference == [cred: Credentials, born: Nat]
NoReference == [born |-> 0]

Data == [records: SUBSET Record, legacy: BOOLEAN]
EmptyData == [records |-> {}, legacy |-> FALSE]

Steps   == {"idle", "reading", "waiting", "saving"}
Actions == {"none", "read", "name", "reset", "optOut", "optIn"}

Init ==
    /\ pin \in BOOLEAN
    /\ records = {}
    /\ legacy = FALSE
    /\ fresh = FALSE
    /\ observed = {}
    /\ confirmed = {}
    /\ revision = 0
    /\ holder = Nobody
    /\ step = [h \in Handlers |-> "idle"]
    /\ action = [h \in Handlers |-> "none"]
    /\ ticket = [h \in Handlers |-> 0]
    /\ seen = [h \in Handlers |-> {}]
    /\ target = [h \in Handlers |-> NoReference]
    /\ payload = [h \in Handlers |-> EmptyData]
    /\ disk = EmptyData
    /\ removed = FALSE
    /\ failures = 0
    /\ restarts = 0
    /\ certifier = 0
    /\ missed = {}
    /\ vouched = {}
    /\ forgotten = {}
    /\ optedOut = FALSE

----------------------------------------------------------------------------
(* The handler has answered; its locals are gone.                           *)
Answered(h) ==
    /\ step' = [step EXCEPT ![h] = "idle"]
    /\ action' = [action EXCEPT ![h] = "none"]
    /\ ticket' = [ticket EXCEPT ![h] = 0]
    /\ seen' = [seen EXCEPT ![h] = {}]
    /\ target' = [target EXCEPT ![h] = NoReference]
    /\ payload' = [payload EXCEPT ![h] = EmptyData]

(* mark_stale: older reads are superseded, nothing is fresh.                *)
MarkStale ==
    /\ revision < MaxTickets
    /\ revision' = revision + 1
    /\ fresh' = FALSE
    /\ observed' = {}

BeginRead(h) ==
    /\ step[h] = "idle"
    /\ ~removed
    /\ MarkStale
    /\ step' = [step EXCEPT ![h] = "reading"]
    /\ action' = [action EXCEPT ![h] = "read"]
    /\ ticket' = [ticket EXCEPT ![h] = revision']
    /\ UNCHANGED <<records, legacy, confirmed, holder, seen, target, payload,
                   disk, entryVars, boundVars, historyVars>>

(* The inventory came back complete, its session closed; a superseded read  *)
(* ends here.  Removal has stopped the connection before.                   *)
ReadReturns(h) ==
    /\ step[h] = "reading"
    /\ ~removed
    /\ \/ /\ ticket[h] = revision
          /\ \E S \in SUBSET Credentials : seen' = [seen EXCEPT ![h] = S]
          /\ step' = [step EXCEPT ![h] = "waiting"]
          /\ UNCHANGED <<action, ticket, target, payload>>
       \/ /\ ticket[h] # revision
          /\ Answered(h)
    /\ UNCHANGED <<memoryVars, holder, disk, entryVars, boundVars, historyVars>>

(* The read failed, was partial, busy or cancelled, or left the link open.  *)
ReadFails(h) ==
    /\ step[h] = "reading"
    /\ Answered(h)
    /\ UNCHANGED <<memoryVars, holder, disk, entryVars, boundVars, historyVars>>

(* A request that needs no read queues for the store's lock.                *)
Ask(h, what) ==
    /\ step[h] = "idle"
    /\ ~removed
    /\ what \in Actions \ {"none", "read"}
    /\ step' = [step EXCEPT ![h] = "waiting"]
    /\ action' = [action EXCEPT ![h] = what]
    /\ optedOut' = (optedOut /\ what # "optIn")
    /\ UNCHANGED <<memoryVars, holder, ticket, seen, target, payload, disk,
                   entryVars, boundVars, certifier, missed, vouched, forgotten>>

----------------------------------------------------------------------------
(* Under the store's lock, up to the await of the save.                     *)

Turn(h, what) == step[h] = "waiting" /\ action[h] = what /\ holder = Nobody

Save(h, data) ==
    /\ holder' = h
    /\ step' = [step EXCEPT ![h] = "saving"]
    /\ payload' = [payload EXCEPT ![h] = data]
    /\ UNCHANGED <<action, ticket, seen>>

(* Mutant: a missing PIN retires like a missing card.                       *)
ReconciledRetiringPins(S, t) ==
    LET active == {r \in records : r.active}
    IN  {[r EXCEPT !.active = @ /\ r.cred \in S] : r \in records}
        \cup {[cred |-> c, born |-> t, active |-> TRUE, label |-> FALSE] :
                 c \in S \ {r.cred : r \in active}}

(* What the records become when a read with ticket t listed S: an active    *)
(* record of a credential is taken up again, others get a new reference;    *)
(* what is missing retires, unless the inventory is limited.                *)
Reconciled(S, t) ==
    LET known == {r \in records : r.active \/ pin}
    IN  {[r EXCEPT !.active = IF r.cred \in S THEN @ \/ pin ELSE @ /\ pin] :
            r \in records}
        \cup {[cred |-> c, born |-> t, active |-> TRUE, label |-> FALSE] :
                 c \in S \ {r.cred : r \in known}}

(* Mutant: a missing PIN, which keeps its record, keeps its confirmation.   *)
UnlistedRetired(S, R) == {r \in R : r.cred \notin S /\ ~r.active}

(* Those of R that a read which listed S missed.                            *)
Unlisted(S, R) == {r \in R : r.cred \notin S}

(* async_reconcile once it has the lock.                                    *)
Reconcile(h) ==
    /\ Turn(h, "read")
    /\ LET next == Reconciled(seen[h], ticket[h])
       IN  \/ /\ ticket[h] # revision
              /\ Answered(h)
              /\ UNCHANGED <<records, confirmed, holder, vouched>>
           \/ /\ ticket[h] = revision
              /\ confirmed' = confirmed \ Refs(Unlisted(seen[h], next))
              /\ vouched' = {ref \in vouched : ref.cred \in seen[h]}
              /\ \/ /\ Cardinality(next) > MaxRecords
                    /\ Answered(h)
                    /\ UNCHANGED <<records, holder>>
                 \/ /\ Cardinality(next) <= MaxRecords
                    /\ records' = next
                    /\ Save(h, [records |-> next, legacy |-> legacy])
                    /\ UNCHANGED target
    /\ UNCHANGED <<legacy, fresh, observed, revision, disk, entryVars, boundVars,
                   certifier, missed, forgotten, optedOut>>

(* async_name: only a reference the fresh read observed.                    *)
Name(h) ==
    /\ Turn(h, "name")
    /\ \/ /\ fresh
          /\ \E r \in records :
                /\ r.active
                /\ Ref(r) \in observed
                /\ records' = (records \ {r}) \cup {[r EXCEPT !.label = TRUE]}
                /\ target' = [target EXCEPT ![h] = Ref(r)]
                /\ Save(h, [records |-> records', legacy |-> legacy])
       \/ /\ Answered(h)
          /\ UNCHANGED <<records, holder>>
    /\ UNCHANGED <<legacy, fresh, observed, confirmed, revision, disk, entryVars,
                   boundVars, historyVars>>

(* Mutant: the reset is saved before it drops the records.                 *)
ResetSavedFirst(h) ==
    /\ Turn(h, "reset")
    /\ records' = {}
    /\ confirmed' = confirmed \ Refs(records)
    /\ MarkStale
    /\ Save(h, [records |-> records, legacy |-> legacy])
    /\ UNCHANGED <<legacy, target, disk, entryVars, boundVars, historyVars>>

(* async_reset                                                              *)
Reset(h) ==
    /\ Turn(h, "reset")
    /\ records' = {}
    /\ confirmed' = confirmed \ Refs(records)
    /\ MarkStale
    /\ Save(h, [records |-> {}, legacy |-> legacy])
    /\ UNCHANGED <<legacy, target, disk, entryVars, boundVars, historyVars>>

(* Mutant: the opt-out does not queue for the lock.                         *)
SetLegacyUnqueued(h) ==
    /\ step[h] = "waiting"
    /\ action[h] \in {"optOut", "optIn"}
    /\ Save(h, [records |-> records, legacy |-> action[h] = "optOut"])
    /\ UNCHANGED <<memoryVars, target, disk, entryVars, boundVars, historyVars>>

(* async_set_legacy_disabled: saved first, in force once it is saved.       *)
SetLegacy(h) ==
    /\ Turn(h, "optOut") \/ Turn(h, "optIn")
    /\ Save(h, [records |-> records, legacy |-> action[h] = "optOut"])
    /\ UNCHANGED <<memoryVars, target, disk, entryVars, boundVars, historyVars>>

----------------------------------------------------------------------------
(* The save, still under the lock.                                          *)

(* Mutant: a read superseded during its save is certified all the same.     *)
CertifyLate(h) ==
    /\ fresh' = TRUE
    /\ observed' = {Ref(r) : r \in {q \in records : q.active /\ q.cred \in seen[h]}}
    /\ certifier' = ticket[h]
    /\ missed' = missed \cup {Ref(r) : r \in {q \in records : q.cred \notin seen[h]}}

(* The newest read certifies its observations, a superseded one does not.   *)
Certify(h) ==
    \/ /\ ticket[h] = revision
       /\ fresh' = TRUE
       /\ observed' = {Ref(r) : r \in {q \in records : q.active /\ q.cred \in seen[h]}}
       /\ certifier' = ticket[h]
       /\ missed' = missed \cup {Ref(r) : r \in {q \in records : q.cred \notin seen[h]}}
    \/ /\ ticket[h] # revision
       /\ UNCHANGED <<fresh, observed, certifier, missed>>

(* Forgets what the reset dropped: all references minted before it.         *)
Saved(h) ==
    /\ step[h] = "saving"
    /\ disk' = payload[h]
    /\ \/ /\ action[h] = "read"
          /\ Certify(h)
          /\ UNCHANGED <<legacy, confirmed, vouched, forgotten, optedOut>>
       \/ /\ action[h] = "name"
          /\ confirmed' = confirmed \cup {target[h]}
          /\ vouched' = vouched \cup {target[h]}
          /\ UNCHANGED <<legacy, fresh, observed, certifier, missed, forgotten,
                         optedOut>>
       \/ /\ action[h] = "reset"
          /\ forgotten' = forgotten \cup Refs(disk.records)
          /\ vouched' = {}
          /\ UNCHANGED <<legacy, fresh, observed, confirmed, certifier, missed,
                         optedOut>>
       \/ /\ action[h] \in {"optOut", "optIn"}
          /\ legacy' = (action[h] = "optOut")
          /\ optedOut' = (action[h] = "optOut" /\ \A g \in Handlers : action[g] # "optIn")
          /\ UNCHANGED <<fresh, observed, confirmed, certifier, missed, vouched,
                         forgotten>>
    /\ holder' = Nobody
    /\ Answered(h)
    /\ UNCHANGED <<records, revision, entryVars, boundVars>>

(* Mutant: a read is certified before its save.                             *)
SaveFailsCertified(h) ==
    /\ step[h] = "saving"
    /\ failures < MaxFailures
    /\ failures' = failures + 1
    /\ disk' \in {disk, payload[h]}
    /\ holder' = Nobody
    /\ IF action[h] = "read" THEN Certify(h)
       ELSE UNCHANGED <<fresh, observed, certifier, missed>>
    /\ Answered(h)
    /\ UNCHANGED <<records, legacy, confirmed, revision, entryVars, restarts,
                   vouched, forgotten, optedOut>>

(* The save raises, or its cancelled caller does not learn of its success.  *)
(* What the request did to the memory stays.                                *)
SaveFails(h) ==
    /\ step[h] = "saving"
    /\ failures < MaxFailures
    /\ failures' = failures + 1
    /\ disk' \in {disk, payload[h]}
    /\ holder' = Nobody
    /\ Answered(h)
    /\ UNCHANGED <<memoryVars, entryVars, restarts, historyVars>>

----------------------------------------------------------------------------
(* FRESH_SECONDS have passed.                                               *)
Expire ==
    /\ fresh
    /\ fresh' = FALSE
    /\ UNCHANGED <<records, legacy, observed, confirmed, revision, holder,
                   requestVars, disk, entryVars, boundVars, historyVars>>

(* Home Assistant restarts, perhaps in the middle of a save: async_load.    *)
Restart ==
    /\ ~removed
    /\ restarts < MaxRestarts
    /\ restarts' = restarts + 1
    /\ disk' \in {disk} \cup {payload[h] : h \in {g \in Handlers : step[g] = "saving"}}
    /\ records' = disk'.records
    /\ legacy' = disk'.legacy
    /\ fresh' = FALSE
    /\ observed' = {}
    /\ confirmed' = {}
    /\ holder' = Nobody
    /\ step' = [h \in Handlers |-> "idle"]
    /\ action' = [h \in Handlers |-> "none"]
    /\ ticket' = [h \in Handlers |-> 0]
    /\ seen' = [h \in Handlers |-> {}]
    /\ target' = [h \in Handlers |-> NoReference]
    /\ payload' = [h \in Handlers |-> EmptyData]
    /\ certifier' = 0
    /\ vouched' = {}
    /\ UNCHANGED <<revision, entryVars, failures, missed, forgotten, optedOut>>

(* async_remove_entry: a store of its own, with a lock and revisions of its *)
(* own, removes the file; requests still in flight are not its requests.    *)
RemoveEntry ==
    /\ ~removed
    /\ removed' = TRUE
    /\ disk' = EmptyData
    /\ UNCHANGED <<pin, memoryVars, holder, requestVars, boundVars, historyVars>>

Locked(h) == Reconcile(h) \/ Name(h) \/ Reset(h) \/ SetLegacy(h)

Next ==
    \/ \E h \in Handlers :
          \/ BeginRead(h) \/ ReadReturns(h) \/ ReadFails(h)
          \/ \E what \in Actions : Ask(h, what)
          \/ Locked(h)
          \/ Saved(h) \/ SaveFails(h)
    \/ Expire
    \/ Restart
    \/ RemoveEntry

Spec == Init /\ [][Next]_vars

----------------------------------------------------------------------------
MemoryTypeOK ==
    /\ pin \in BOOLEAN
    /\ records \subseteq Record
    /\ Cardinality(records) <= MaxRecords
    /\ legacy \in BOOLEAN
    /\ fresh \in BOOLEAN
    /\ observed \subseteq Reference
    /\ confirmed \subseteq Reference
    /\ revision \in 0..MaxTickets
    /\ holder \in Handlers \cup {Nobody}

RequestTypeOK ==
    /\ step \in [Handlers -> Steps]
    /\ action \in [Handlers -> Actions]
    /\ ticket \in [Handlers -> 0..MaxTickets]
    /\ seen \in [Handlers -> SUBSET Credentials]
    /\ target \in [Handlers -> Reference \cup {NoReference}]
    /\ \A h \in Handlers : payload[h].records \subseteq Record /\ payload[h].legacy \in BOOLEAN

StoreTypeOK ==
    /\ disk.records \subseteq Record
    /\ Cardinality(disk.records) <= MaxRecords
    /\ disk.legacy \in BOOLEAN
    /\ removed \in BOOLEAN
    /\ failures \in 0..MaxFailures
    /\ restarts \in 0..MaxRestarts

HistoryTypeOK ==
    /\ certifier \in 0..MaxTickets
    /\ missed \subseteq Reference
    /\ vouched \subseteq Reference
    /\ forgotten \subseteq Reference
    /\ optedOut \in BOOLEAN

(* A store with more records than its schema allows is refused at the next  *)
(* start, and administration with it: the bound is part of the types.       *)
TypeOK == /\ MemoryTypeOK
          /\ RequestTypeOK
          /\ StoreTypeOK
          /\ HistoryTypeOK

(* "Fresh" is the newest attempt's word: no read and no reset began after   *)
(* the one that certified the observations (access_records.py:116, 204).    *)
FreshIsNewest ==
    fresh => certifier = revision /\ observed \subseteq Refs({r \in records : r.active})

(* A card or fingerprint that a certified read did not list comes back as a *)
(* new reference without the old label, also after failed saves and         *)
(* restarts (docs/STABLE_3.5.1.md, "creates a new generation").             *)
RetiredStaysRetired ==
    ~pin => missed \cap Refs({r \in records : r.active}) = {}

(* A credential has one reference at a time; a PIN that limited reads omit  *)
(* keeps the one it has (access_records.py:194).                            *)
OneReferencePerCredential ==
    \A r, q \in records :
        r.cred = q.cred /\ (pin \/ (r.active /\ q.active)) => r = q

(* What an answered reset dropped is gone from memory and disk, whatever    *)
(* read or save was in flight (access_records.py:272).                      *)
ForgottenStaysForgotten ==
    forgotten \cap (Refs(records) \cup Refs(disk.records)) = {}

(* A confirmed label was set in this run, every reconciliation since has    *)
(* listed its credential, and its record is there with it: no restart,      *)
(* failed save, reset or PIN that a limited read keeps but did not list     *)
(* leaves a confirmation behind (access_records.py:197, 266, 277).          *)
ConfirmedIsCurrent ==
    confirmed \subseteq vouched \cap Refs({r \in records : r.label /\ (r.active \/ pin)})

(* An answered opt-out of the legacy PIN services is in force, now and      *)
(* after a restart, until somebody asks to take it back.                    *)
OptOutHolds == optedOut /\ ~removed => legacy /\ disk.legacy

(* Deleting the config entry forgets the labels for good                    *)
(* (docs/RC16_SECURE_ACCESS.md:114, access_records.py:290).                 *)
RemovalForgets == removed => disk = EmptyData

(* The store as the book of labels it keeps, and the one being saved.       *)
BeingSaved == {payload[h] : h \in {g \in Handlers : step[g] = "saving"}}

Book == INSTANCE LabelBook WITH
    Empty <- EmptyData,
    book <- [records |-> records, legacy |-> legacy], stored <- disk,
    saving <- BeingSaved, limited <- pin, gone <- removed

(* The store implements the durable book of labels: reads and restarts      *)
(* never lose or mix up one, saves are whole and one at a time              *)
(* (access_records.py:92, 172, 205).                                        *)
BookSpec == Book!Spec
=============================================================================
