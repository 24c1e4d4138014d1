------------------------------- MODULE LogHistory -------------------------------
(***************************************************************************)
(* log_history.py: which of the records read from a lock's operation log   *)
(* become Home Assistant events.  TtlockBleLogHistory keeps a bounded      *)
(* journal of the identities it has seen, saves it some seconds after a    *)
(* change and when the entry is unloaded, and lets only records through    *)
(* that are dated after its own load began.                                *)
(*                                                                         *)
(* One lock.  A record's identity hash is injective, so a record stands    *)
(* for its identity.  Dates and the cutoff are only compared: a date is    *)
(* the last load whose cutoff it exceeds, 0 for none or no date at all.    *)
(***************************************************************************)
EXTENDS Naturals, Sequences

CONSTANTS
    Capacity,    \* MAX_PERSISTED_IDENTITIES_PER_LOCK
    PageSize,    \* MAX_LOG_ENTRIES_PER_FETCH
    Ahead,       \* by how many loads the lock's clock may be ahead
    MaxRecords,  \* how many records the lock writes
    MaxLoads,    \* how often the entry is loaded
    MaxCrashes   \* how often Home Assistant is killed

ASSUME CapacityAssumption == Capacity \in Nat \ {0}
ASSUME BoundsAssumption ==
    {PageSize, Ahead, MaxRecords, MaxLoads, MaxCrashes} \subseteq Nat /\ MaxLoads > 0

VARIABLES
    recent,   \* _recent[mac], the oldest identity first
    seen,     \* _recent_sets[mac]
    dirty,    \* a delayed save is pending
    disk,     \* the journal in the store
    late,     \* journals an unloaded instance has yet to save, delayed
    phase,    \* starting, up (entities listen), unloading (gone), saved
    load,     \* which load of the entry this is
    crashes,  \* how often Home Assistant was killed
    date,     \* the lock's log: the date of every record so far
    during,   \* history: the load during which each record was written
    fired,    \* history: records that became an event in this load
    unheard,  \* history: records this load sent while no entity listened
    age,      \* history: how many others were journalled since a record last
              \* became an event; Capacity for as many, more, or no event yet
    again     \* history: records that became an event again before that

historyVars == <<recent, seen, dirty>>
lockVars == <<date, during>>
eventVars == <<fired, unheard, age, again>>
vars == <<historyVars, disk, late, phase, load, crashes, lockVars, eventVars>>

Records == 1 .. MaxRecords
Written == 1 .. Len(date)
Elements(s) == {s[i] : i \in 1 .. Len(s)}
Journals == UNION {[1 .. n -> Records] : n \in 0 .. Capacity}

Init ==
    /\ recent = <<>>
    /\ seen = {}
    /\ dirty = FALSE
    /\ disk = <<>>
    /\ late = {}
    /\ phase = "starting"
    /\ load = 1
    /\ crashes = 0
    /\ date = <<>>
    /\ during = <<>>
    /\ fired = {}
    /\ unheard = {}
    /\ age = [r \in Records |-> Capacity]
    /\ again = {}

-----------------------------------------------------------------------------
(***************************************************************************)
(* The lock writes a record, with a date it may get wrong or leave out.    *)
(***************************************************************************)

WriteRecord(d) ==
    /\ Len(date) < MaxRecords
    /\ d = 0 \/ d \in load .. load + Ahead
    /\ date' = Append(date, d)
    /\ during' = Append(during, load)
    /\ UNCHANGED <<historyVars, disk, late, phase, load, crashes, eventVars>>

-----------------------------------------------------------------------------
(***************************************************************************)
(* classify, and the events async_get_operation_log sends in the same      *)
(* block.                                                                  *)
(***************************************************************************)

\* What a fetch may return: any records of the log, old ones too (a batch is
\* bounded and the rest comes later, firmware replays), in any order, and the
\* same one more than once.
Pages == UNION {[1 .. n -> Written] : n \in 0 .. PageSize}

\* Mutant: the journal is taken for full one identity early.
FullEarly(journal) == Len(journal) + 1 >= Capacity

Full(journal) == Len(journal) = Capacity

\* Mutant: the set forgets the evicted identity, the deque another one.
JournalledNewest(journal, r) ==
    Append(IF Full(journal) THEN SubSeq(journal, 1, Capacity - 1) ELSE journal, r)

\* The deque drops its oldest identity when it is full.
Journalled(journal, r) == Append(IF Full(journal) THEN Tail(journal) ELSE journal, r)

\* Mutant: a record that evicts another one is only journalled.
LiveWhenRoom(state, r) == date[r] >= load /\ ~Full(state.recent)

\* Dated after this load began.
IsLive(state, r) == date[r] >= load

\* Events are sent to whoever listens, which is the event entity from when its
\* platform is set up until it is unloaded.
Heard(state, r) == IsLive(state, r) /\ phase = "up"

\* One more record was journalled since.
Older(n) == IF n < Capacity THEN n + 1 ELSE n

\* The loop body, for a record that is not in the set.
Noted(state, r) ==
    [recent |-> Journalled(state.recent, r),
     seen |-> (IF Full(state.recent) THEN state.seen \ {Head(state.recent)} ELSE state.seen)
              \union {r},
     changed |-> TRUE,
     live |-> IF IsLive(state, r) THEN state.live \union {r} ELSE state.live,
     age |-> [q \in Records |-> IF q # r THEN Older(state.age[q])
                                ELSE IF Heard(state, r) THEN 0 ELSE state.age[q]],
     again |-> IF Heard(state, r) /\ state.age[r] < Capacity
               THEN state.again \union {r} ELSE state.again]

\* The state of the loop after each record of the page, from none on.
Progress(page) ==
    LET after[i \in 0 .. Len(page)] ==
            IF i = 0 THEN [recent |-> recent, seen |-> seen, changed |-> FALSE, live |-> {},
                           age |-> age, again |-> again]
            ELSE IF page[i] \in after[i - 1].seen THEN after[i - 1]
            ELSE Noted(after[i - 1], page[i])
    IN  after

Classified(page) == Progress(page)[Len(page)]

Fetch(page) ==
    LET result == Classified(page) IN
    /\ recent' = result.recent
    /\ seen' = result.seen
    /\ dirty' = (dirty \/ result.changed)
    /\ fired' = IF phase = "up" THEN fired \union result.live ELSE fired
    /\ unheard' = IF phase = "up" THEN unheard ELSE unheard \union result.live
    /\ age' = result.age
    /\ again' = result.again
    /\ UNCHANGED <<disk, late, phase, load, crashes, lockVars>>

-----------------------------------------------------------------------------
(***************************************************************************)
(* Saving, unloading and loading.  A fetch the session has begun may still *)
(* be classified until it is stopped, after the save on unload.  A bound:  *)
(* an instance is up for longer than the delayed save its predecessor left *)
(* (5 seconds), or is killed.                                              *)
(***************************************************************************)

\* The delayed save; one an earlier instance started is due before it.
DelayedSave ==
    /\ dirty
    /\ late = {}
    /\ dirty' = FALSE
    /\ disk' = recent
    /\ UNCHANGED <<recent, seen, late, phase, load, crashes, lockVars, eventVars>>

\* The delayed save of an instance that is gone.
LateSave ==
    /\ \E journal \in late :
        /\ disk' = journal
        /\ late' = late \ {journal}
    /\ UNCHANGED <<historyVars, phase, load, crashes, lockVars, eventVars>>

\* The platforms are set up; the connections work since before.
EntitiesListen ==
    /\ phase = "starting"
    /\ phase' = "up"
    /\ UNCHANGED <<historyVars, disk, late, load, crashes, lockVars, eventVars>>

\* The platforms are gone, or their set-up failed.
Unload ==
    /\ phase \in {"starting", "up"}
    /\ late = {}
    /\ phase' = "unloading"
    /\ UNCHANGED <<historyVars, disk, late, load, crashes, lockVars, eventVars>>

\* async_save, which takes the place of a pending delayed save.
SaveOnUnload ==
    /\ phase = "unloading"
    /\ phase' = "saved"
    /\ dirty' = FALSE
    /\ disk' = recent
    /\ UNCHANGED <<recent, seen, late, load, crashes, lockVars, eventVars>>

\* async_load of the next instance, and its cutoff.
Load(journal) ==
    /\ load < MaxLoads
    /\ load' = load + 1
    /\ phase' = "starting"
    /\ recent' = journal
    /\ seen' = Elements(journal)
    /\ dirty' = FALSE
    /\ fired' = {}
    /\ unheard' = {}
    /\ UNCHANGED <<age, again>>

\* The entry is set up again; an unloaded instance keeps its delayed save.
Reload ==
    /\ phase = "saved"
    /\ Load(disk)
    /\ late' = IF dirty THEN late \union {recent} ELSE late
    /\ UNCHANGED <<disk, crashes, lockVars>>

\* Home Assistant stops, which writes what is still delayed, and starts.
Restart ==
    /\ late = {}
    /\ disk' = IF dirty THEN recent ELSE disk
    /\ Load(disk')
    /\ UNCHANGED <<late, crashes, lockVars>>

\* It is killed: nothing delayed is written.
Crash ==
    /\ crashes < MaxCrashes
    /\ crashes' = crashes + 1
    /\ late' = {}
    /\ Load(disk)
    /\ UNCHANGED <<disk, lockVars>>

Next ==
    \/ \E d \in 0 .. MaxLoads + Ahead : WriteRecord(d)
    \/ \E page \in Pages : Fetch(page)
    \/ DelayedSave
    \/ LateSave
    \/ EntitiesListen
    \/ Unload
    \/ SaveOnUnload
    \/ Reload
    \/ Restart
    \/ Crash

Spec == Init /\ [][Next]_vars

-----------------------------------------------------------------------------
(***************************************************************************)
(* Properties.                                                             *)
(***************************************************************************)

\* The type invariant.
TypeOK ==
    /\ recent \in Journals /\ disk \in Journals /\ late \subseteq Journals
    /\ seen \subseteq Records
    /\ dirty \in BOOLEAN
    /\ phase \in {"starting", "up", "unloading", "saved"}
    /\ load \in 1 .. MaxLoads /\ crashes \in 0 .. MaxCrashes
    /\ Len(date) <= MaxRecords /\ Len(during) = Len(date)
    /\ \A r \in Written : date[r] \in 0 .. MaxLoads + Ahead /\ during[r] \in 1 .. MaxLoads
    /\ fired \subseteq Records /\ unheard \subseteq Records
    /\ age \in [Records -> 0 .. Capacity] /\ again \subseteq Records

\* The deque and the set beside it hold the same identities, each once: an
\* identity the set forgot too early is an event fired twice, one it kept too
\* long an event never fired.
JournalAgrees == seen = Elements(recent) /\ \A i, j \in DOMAIN recent :
                                                recent[i] = recent[j] => i = j

\* The lock did not date the record after the time it was written.
NotAhead(r) == date[r] <= during[r]

\* HARDWARE_VALIDATION.md section D, as far as a bounded journal can keep it:
\* a record becomes an event again only after Capacity others were journalled,
\* through replayed, overlapping and older pages, evictions within and between
\* them, delayed and late saves, reloads and restarts.  The journal sees to it
\* alone unless Home Assistant is killed; then it needs the cutoff, and a date
\* that is not ahead.
OnceOnly == \A r \in again : crashes > 0 /\ ~NotAhead(r)

\* A record written before this load began is history, whatever is fetched,
\* unless it is dated ahead.
HistoryStaysQuiet == \A r \in fired : NotAhead(r) => during[r] = load

\* The journal swallows no event: a record of this load with a date that
\* proves it is journalled only once it was sent.  Before the event entity
\* listens that is to nobody (README.md:80 promises an event for every record).
NothingSwallowed ==
    phase \in {"starting", "up"} =>
        \A r \in Elements(recent) :
            during[r] = load /\ date[r] >= load => r \in fired \cup unheard

=============================================================================
