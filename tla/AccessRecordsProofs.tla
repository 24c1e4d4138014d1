-------------------------- MODULE AccessRecordsProofs --------------------------
(***************************************************************************)
(* For any number of requests, credentials, failed saves and restarts:     *)
(* what a read certified, a reset dropped or an opt-out switched off stays *)
(* so, in memory and on disk.                                              *)
(***************************************************************************)
EXTENDS AccessRecords, FiniteSetTheorems, TLAPS

(* A read that may still reconcile has the newest ticket.                   *)
NewestReading ==
    \E h \in Handlers : action[h] = "read" /\ step[h] \in {"reading", "waiting"}
                            /\ ticket[h] = revision

(* Every reference there is was minted by an earlier read than that.        *)
Minted(born) == born <= revision /\ (NewestReading => born < revision)

(* What holds of the records wherever they are, in memory or on disk.       *)
OneEach(R) ==
    \A r, q \in R : r.cred = q.cred /\ (pin \/ (r.active /\ q.active)) => r = q

KeepsThePast(R) ==
    \A r \in R :
        /\ Minted(r.born)
        /\ Ref(r) \notin forgotten
        /\ ~pin /\ r.active => Ref(r) \notin missed

Bounded(R) == IsFiniteSet(R) /\ Cardinality(R) <= MaxRecords

Sound(R) == R \subseteq Record /\ Bounded(R) /\ OneEach(R) /\ KeepsThePast(R)

StoreSound ==
    /\ Sound(records)
    /\ Sound(disk.records)
    /\ disk \in Data
    /\ \A ref \in missed \cup forgotten : Minted(ref.born)

(* A handler saves while it holds the lock, and what it saves is what the   *)
(* memory holds; the opt-out is the exception.                              *)
SavesTheMemory ==
    \A h \in Handlers :
        /\ step[h] = "saving" <=> holder = h
        /\ step[h] = "saving" =>
              /\ payload[h].records = records
              /\ payload[h].legacy = IF action[h] \in {"optOut", "optIn"}
                                     THEN action[h] = "optOut" ELSE legacy
              /\ action[h] = "read" /\ ~pin =>
                    \A r \in records : r.active => r.cred \in seen[h]
              /\ action[h] = "name" =>
                    \E r \in records : Ref(r) = target[h] /\ r.label /\ r.active
              /\ action[h] = "reset" => records = {}

(* Tickets of reads under way differ, and none is newer than the last.      *)
Tickets ==
    /\ \A h \in Handlers :
          /\ step[h] = "idle" <=> action[h] = "none"
          /\ step[h] = "reading" => action[h] = "read"
          /\ action[h] = "read" => ticket[h] \in 1 .. revision
    /\ \A h, g \in Handlers :
          h # g /\ action[h] = "read" /\ action[g] = "read" => ticket[h] # ticket[g]

(* Observations are fresh when the newest read is through with them.        *)
FreshIsCertified ==
    fresh =>
        /\ certifier = revision
        /\ observed \subseteq Refs({r \in records : r.active})
        /\ \A h \in Handlers : action[h] = "read" => ticket[h] # revision

OptOutInForce ==
    optedOut =>
        /\ ~removed => legacy /\ disk.legacy
        /\ \A h \in Handlers : action[h] # "optIn"

(* What is confirmed is vouched for, and its record is there.               *)
ConfirmedOK ==
    /\ confirmed \subseteq vouched
    /\ \A ref \in confirmed :
          \E r \in records : Ref(r) = ref /\ r.label /\ (r.active \/ pin)

DataTypeOK ==
    /\ payload \in [Handlers -> Data]
    /\ holder \in Handlers \cup {Nobody}

Types == MemoryTypeOK /\ RequestTypeOK /\ StoreTypeOK /\ HistoryTypeOK

IInv == Types /\ DataTypeOK /\ StoreSound /\ SavesTheMemory /\ Tickets
              /\ FreshIsCertified /\ ConfirmedOK /\ OptOutInForce

-----------------------------------------------------------------------------
(* An answered request leaves nothing of itself.                            *)
LEMMA AnsweredTypes ==
    ASSUME Types, DataTypeOK, NEW h \in Handlers, Answered(h)
    PROVE  RequestTypeOK' /\ payload' \in [Handlers -> Data]
<1>1. EmptyData \in Data /\ EmptyData.records \subseteq Record /\ EmptyData.legacy \in BOOLEAN
  BY DEF EmptyData, Data
<1>2. payload' \in [Handlers -> Data]
  BY <1>1 DEF Answered, DataTypeOK
<1>3. /\ step' \in [Handlers -> Steps] /\ action' \in [Handlers -> Actions]
      /\ ticket' \in [Handlers -> 0..MaxTickets] /\ seen' \in [Handlers -> SUBSET Credentials]
      /\ target' \in [Handlers -> Reference \cup {NoReference}]
  BY ParametersAssumption DEF Answered, Types, RequestTypeOK, Steps, Actions
<1>4. \A g \in Handlers : payload'[g].records \subseteq Record /\ payload'[g].legacy \in BOOLEAN
  BY <1>2 DEF Data
<1> QED BY <1>2, <1>3, <1>4 DEF RequestTypeOK

(* A request that saves keeps what it has.                                  *)
LEMMA SaveTypes ==
    ASSUME Types, DataTypeOK, NEW h \in Handlers, NEW data \in Data, Save(h, data),
           target' \in [Handlers -> Reference \cup {NoReference}]
    PROVE  RequestTypeOK' /\ DataTypeOK'
<1>1. payload' \in [Handlers -> Data]
  BY DEF Save, DataTypeOK
<1>2. /\ step' \in [Handlers -> Steps] /\ action' \in [Handlers -> Actions]
      /\ ticket' \in [Handlers -> 0..MaxTickets] /\ seen' \in [Handlers -> SUBSET Credentials]
  BY DEF Save, Types, RequestTypeOK, Steps
<1>3. \A g \in Handlers : payload'[g].records \subseteq Record /\ payload'[g].legacy \in BOOLEAN
  BY <1>1 DEF Data
<1>4. holder' \in Handlers \cup {Nobody}
  BY DEF Save
<1> QED BY <1>1, <1>2, <1>3, <1>4 DEF RequestTypeOK, DataTypeOK

(* The data a request saves, of records and an opt-out as they should be.   *)
LEMMA DataOK ==
    ASSUME NEW R, R \subseteq Record, NEW b \in BOOLEAN
    PROVE  [records |-> R, legacy |-> b] \in Data
BY DEF Data

(* A record that is given a label is otherwise the same.                    *)
LEMMA LabelledOK ==
    ASSUME NEW r \in Record
    PROVE  LET q == [r EXCEPT !.label = TRUE] IN
           /\ q \in Record /\ q.label
           /\ q.cred = r.cred /\ q.born = r.born /\ q.active = r.active /\ Ref(q) = Ref(r)
<1> DEFINE q == [r EXCEPT !.label = TRUE]
<1>1. q.cred = r.cred /\ q.born = r.born /\ q.active = r.active
  BY DEF Record
<1>2. q.label = TRUE
  BY DEF Record
<1>3. q \in Record
  <2>1. ASSUME NEW b \in BOOLEAN PROVE [r EXCEPT !.label = b] \in Record
    BY DEF Record
  <2> QED BY <2>1
<1>4. Ref(q) = Ref(r)
  BY <1>1 DEF Ref
<1> QED BY <1>1, <1>2, <1>3, <1>4

(* Labelling a record does not make the records more.                       *)
LEMMA LabelledBounded ==
    ASSUME NEW R, Bounded(R), NEW r \in R, NEW q
    PROVE  Bounded((R \ {r}) \cup {q})
<1> DEFINE S == R \ {r}
<1>1. IsFiniteSet(R) /\ Cardinality(R) \in Nat /\ Cardinality(R) <= MaxRecords
  BY FS_CardinalityType DEF Bounded
<1>2. IsFiniteSet(S) /\ Cardinality(S) = Cardinality(R) - 1
  BY <1>1, FS_RemoveElement
<1> HIDE DEF S
<1>3. /\ IsFiniteSet(S \cup {q})
      /\ Cardinality(S \cup {q}) = IF q \in S THEN Cardinality(S) ELSE Cardinality(S) + 1
  BY <1>2, FS_AddElement
<1>4. Cardinality(S \cup {q}) <= MaxRecords
  BY <1>1, <1>2, <1>3, ParametersAssumption
<1> QED BY <1>3, <1>4 DEF Bounded, S

(* What becomes of a record a read reconciles, and what a read mints.       *)
Kept(r, S) ==
    [r EXCEPT !.active = IF r.cred \in S THEN r.active \/ pin ELSE r.active /\ pin]

New(c, t) == [cred |-> c, born |-> t, active |-> TRUE, label |-> FALSE]

Unknown(S) == S \ {r.cred : r \in {q \in records : q.active \/ pin}}

(* A record is kept as it is but for its being active.                      *)
LEMMA KeptOK ==
    ASSUME pin \in BOOLEAN, NEW r \in Record, NEW S
    PROVE  /\ Kept(r, S) \in Record /\ Ref(Kept(r, S)) = Ref(r)
           /\ Kept(r, S).cred = r.cred /\ Kept(r, S).born = r.born
           /\ Kept(r, S).label = r.label
           /\ Kept(r, S).active <=> IF r.cred \in S THEN r.active \/ pin ELSE r.active /\ pin
<1> DEFINE b == IF r.cred \in S THEN r.active \/ pin ELSE r.active /\ pin
<1>1. b \in BOOLEAN
  OBVIOUS
<1>2. ASSUME NEW c \in BOOLEAN
      PROVE  LET q == [r EXCEPT !.active = c] IN
             q \in Record /\ q.cred = r.cred /\ q.born = r.born /\ q.label = r.label
                 /\ q.active = c
  BY DEF Record
<1>3. Kept(r, S) = [r EXCEPT !.active = b]
  BY DEF Kept
<1> HIDE DEF b
<1>4. /\ Kept(r, S) \in Record /\ Kept(r, S).cred = r.cred /\ Kept(r, S).born = r.born
      /\ Kept(r, S).label = r.label /\ Kept(r, S).active = b
  BY <1>1, <1>2, <1>3
<1>5. Kept(r, S).active <=> IF r.cred \in S THEN r.active \/ pin ELSE r.active /\ pin
  BY <1>4 DEF b
<1> QED BY <1>4, <1>5 DEF Ref

(* So is a record that is minted.                                           *)
LEMMA NewOK ==
    ASSUME NEW c \in Credentials, NEW t \in Nat
    PROVE  /\ New(c, t) \in Record /\ New(c, t).cred = c /\ New(c, t).born = t
           /\ New(c, t).active /\ Ref(New(c, t)) = [cred |-> c, born |-> t]
BY DEF New, Record, Ref

(* The records after a read are those kept and those minted.                *)
LEMMA ReconciledIs ==
    ASSUME NEW S, NEW t
    PROVE  Reconciled(S, t) = {Kept(r, S) : r \in records} \cup {New(c, t) : c \in Unknown(S)}
BY DEF Reconciled, Kept, New, Unknown

(* The records after a read are records, and finitely many.                 *)
LEMMA ReconciledRecords ==
    ASSUME MemoryTypeOK, IsFiniteSet(records), NEW S \in SUBSET Credentials, NEW t \in Nat
    PROVE  Reconciled(S, t) \subseteq Record /\ IsFiniteSet(Reconciled(S, t))
<1> DEFINE K == {Kept(r, S) : r \in records}
           N == {New(c, t) : c \in Unknown(S)}
<1>1. K \subseteq Record
  BY KeptOK DEF MemoryTypeOK
<1>2. N \subseteq Record
  BY NewOK DEF Unknown
<1>3. IsFiniteSet(K)
  <2> DEFINE f == [r \in records |-> Kept(r, S)]
  <2>1. f \in Surjection(records, K)
    BY DEF Surjection
  <2> QED BY <2>1, FS_Surjection
<1>4. IsFiniteSet(N)
  <2> DEFINE U == Unknown(S)
             f == [c \in U |-> New(c, t)]
  <2>1. U \in SUBSET Credentials
    BY DEF Unknown
  <2>2. IsFiniteSet(U)
    BY <2>1, CredentialsAssumption, FS_Subset
  <2>3. f \in Surjection(U, N)
    BY DEF Surjection
  <2> QED BY <2>2, <2>3, FS_Surjection
<1>5. IsFiniteSet(K \cup N)
  BY <1>3, <1>4, FS_Union
<1> QED BY <1>1, <1>2, <1>5, ReconciledIs

(* A read leaves each credential its one reference.                         *)
LEMMA ReconciledOneEach ==
    ASSUME MemoryTypeOK, OneEach(records), NEW S \in SUBSET Credentials, NEW t \in Nat
    PROVE  OneEach(Reconciled(S, t))
<1> SUFFICES ASSUME NEW p \in Reconciled(S, t), NEW q \in Reconciled(S, t), p.cred = q.cred,
                    pin \/ (p.active /\ q.active)
             PROVE  p = q
  BY DEF OneEach
<1>1. pin \in BOOLEAN /\ records \subseteq Record
  BY DEF MemoryTypeOK
<1>2. ASSUME NEW r \in records, NEW s \in records, p = Kept(r, S), q = Kept(s, S)
      PROVE  p = q
  <2>1. r.cred = s.cred /\ (pin \/ (r.active /\ s.active))
    BY <1>1, <1>2, KeptOK
  <2> QED BY <1>2, <2>1 DEF OneEach
<1>3. ASSUME NEW r \in records, NEW c \in Unknown(S), NEW x, x = Kept(r, S), x.cred = c,
             pin \/ x.active
      PROVE  FALSE
  <2>1. r.cred = c /\ (r.active \/ pin)
    BY <1>1, <1>3, KeptOK
  <2> QED BY <2>1 DEF Unknown
<1>4. ASSUME NEW c \in Unknown(S), NEW d \in Unknown(S), p = New(c, t), q = New(d, t)
      PROVE  p = q
  BY <1>4, NewOK DEF Unknown
<1>5. \A c \in Unknown(S) : New(c, t).cred = c
  BY NewOK DEF Unknown
<1>6. /\ (\E r \in records : p = Kept(r, S)) \/ \E c \in Unknown(S) : p = New(c, t)
      /\ (\E r \in records : q = Kept(r, S)) \/ \E c \in Unknown(S) : q = New(c, t)
  BY ReconciledIs
<1> QED BY <1>2, <1>3, <1>4, <1>5, <1>6

(* What a read with the newest ticket keeps and mints is not of the past    *)
(* that was retired or forgotten, and what is active it listed.             *)
LEMMA ReconciledPast ==
    ASSUME IInv, NEW h \in Handlers, action[h] = "read", step[h] = "waiting",
           ticket[h] = revision, NEW q \in Reconciled(seen[h], ticket[h])
    PROVE  /\ q.born <= revision /\ Ref(q) \notin forgotten
           /\ ~pin /\ q.active => Ref(q) \notin missed /\ q.cred \in seen[h]
<1> DEFINE S == seen[h]
           t == ticket[h]
<1>1. /\ pin \in BOOLEAN /\ records \subseteq Record /\ S \in SUBSET Credentials
      /\ t \in Nat /\ revision \in Nat
  BY ParametersAssumption DEF IInv, Types, MemoryTypeOK, RequestTypeOK
<1>2. NewestReading
  BY DEF NewestReading
<1>3. CASE \E r \in records : q = Kept(r, S)
  <2>1. PICK r \in records : q = Kept(r, S)
    BY <1>3
  <2>2. /\ Minted(r.born) /\ Ref(r) \notin forgotten
        /\ ~pin /\ r.active => Ref(r) \notin missed
    BY DEF IInv, StoreSound, Sound, KeepsThePast
  <2>3. /\ Ref(q) = Ref(r) /\ q.cred = r.cred /\ q.born = r.born
        /\ ~pin /\ q.active => r.active /\ r.cred \in S
    BY <1>1, <2>1, KeptOK
  <2> QED BY <2>2, <2>3 DEF Minted
<1>4. CASE \E c \in Unknown(S) : q = New(c, t)
  <2>1. PICK c \in Unknown(S) : q = New(c, t)
    BY <1>4
  <2>2. c \in Credentials /\ c \in S
    BY <1>1 DEF Unknown
  <2>3. q.cred = c /\ q.born = t /\ Ref(q).born = t
    BY <1>1, <2>1, <2>2, NewOK
  <2>4. \A ref \in missed \cup forgotten : ref.born < revision
    BY <1>2 DEF IInv, StoreSound, Minted
  <2> QED BY <1>1, <2>2, <2>3, <2>4
<1>5. (\E r \in records : q = Kept(r, S)) \/ \E c \in Unknown(S) : q = New(c, t)
  BY ReconciledIs
<1> QED BY <1>3, <1>4, <1>5

(* Where no record moves and none is minted, what holds of them still does. *)
LEMMA PastStays ==
    ASSUME StoreSound, HistoryTypeOK, UNCHANGED <<pin, records, disk, missed, forgotten>>,
           \A b \in Nat : Minted(b) => Minted(b)'
    PROVE  StoreSound'
<1>1. Sound(records)'
  BY DEF StoreSound, Sound, Bounded, OneEach, KeepsThePast, Record
<1>2. Sound(disk.records)'
  BY DEF StoreSound, Sound, Bounded, OneEach, KeepsThePast, Record
<1>3. \A ref \in missed \cup forgotten : ref.born \in Nat
  BY DEF HistoryTypeOK, Reference
<1> QED BY <1>1, <1>2, <1>3 DEF StoreSound

-----------------------------------------------------------------------------
(* A request is answered before it saved anything.                          *)
LEMMA AnsweredKeeps ==
    ASSUME IInv, NEW h \in Handlers, step[h] # "saving", Answered(h),
           confirmed' \subseteq confirmed \cap vouched', vouched' \subseteq vouched,
           UNCHANGED <<records, legacy, fresh, observed, revision, holder, disk,
                       entryVars, boundVars, certifier, missed, forgotten, optedOut>>
    PROVE  IInv'
<1> USE HandlersAssumption, ParametersAssumption DEF memoryVars, requestVars, entryVars,
        boundVars, historyVars, IInv, Types
<1>1. MemoryTypeOK'
  <2>1. confirmed' \subseteq Reference
    BY DEF MemoryTypeOK
  <2> QED BY Zenon, <2>1 DEF MemoryTypeOK
<1>2. RequestTypeOK'
  BY AnsweredTypes
<1>3. StoreTypeOK'
  BY Zenon DEF StoreTypeOK
<1>4. HistoryTypeOK'
  BY DEF HistoryTypeOK
<1>5. DataTypeOK'
  BY AnsweredTypes DEF DataTypeOK
<1>6. StoreSound'
  <2>1. NewestReading' => NewestReading
    BY DEF NewestReading, Answered, RequestTypeOK, Tickets
  <2> QED BY <2>1, PastStays DEF Minted
<1>7. SavesTheMemory'
  BY DEF Answered, SavesTheMemory, RequestTypeOK, DataTypeOK
<1>8. Tickets'
  BY DEF Answered, Tickets, RequestTypeOK, MemoryTypeOK
<1>9. FreshIsCertified'
  BY DEF Answered, FreshIsCertified, RequestTypeOK
<1>10. ConfirmedOK'
  BY DEF ConfirmedOK, Ref
<1>11. OptOutInForce'
  BY DEF Answered, OptOutInForce, RequestTypeOK
<1> QED BY <1>1, <1>2, <1>3, <1>4, <1>5, <1>6, <1>7, <1>8, <1>9, <1>10, <1>11

(* A read begins.                                                           *)
LEMMA BeginReadKeeps == ASSUME NEW h \in Handlers, IInv, BeginRead(h) PROVE IInv'
<1> USE HandlersAssumption, ParametersAssumption DEF BeginRead, MarkStale, memoryVars,
        requestVars, entryVars, boundVars, historyVars, IInv, Types
<1>1. MemoryTypeOK'
  <2>1. fresh' \in BOOLEAN /\ UNCHANGED <<pin, records, legacy, confirmed, holder>>
    OBVIOUS
  <2>2. revision' \in 0 .. MaxTickets /\ observed' \subseteq Reference
    BY DEF MemoryTypeOK
  <2> QED BY Zenon, <2>1, <2>2 DEF MemoryTypeOK
<1>2. RequestTypeOK'
  BY DEF RequestTypeOK, Steps, Actions, MemoryTypeOK
<1>3. StoreTypeOK'
  BY Zenon DEF StoreTypeOK
<1>4. HistoryTypeOK'
  BY DEF HistoryTypeOK
<1>5. DataTypeOK'
  BY DEF DataTypeOK
<1>6. StoreSound'
  <2>1. revision \in Nat
    BY DEF MemoryTypeOK
  <2>2. \A b \in Nat : Minted(b) => Minted(b)'
    BY <2>1 DEF Minted
  <2> QED BY <2>2, PastStays
<1>7. SavesTheMemory'
  BY DEF SavesTheMemory, RequestTypeOK
<1>8. Tickets'
  BY DEF Tickets, RequestTypeOK, MemoryTypeOK
<1>9. FreshIsCertified'
  BY DEF FreshIsCertified, RequestTypeOK, Refs, Ref
<1>10. ConfirmedOK'
  BY DEF ConfirmedOK, Ref
<1>11. OptOutInForce'
  BY DEF OptOutInForce, RequestTypeOK
<1> QED BY <1>1, <1>2, <1>3, <1>4, <1>5, <1>6, <1>7, <1>8, <1>9, <1>10, <1>11

(* A read comes back, or does not.                                          *)
LEMMA ReadEndsKeeps == ASSUME NEW h \in Handlers, IInv, ReadReturns(h) \/ ReadFails(h) PROVE IInv'
<1> USE HandlersAssumption, ParametersAssumption DEF memoryVars, requestVars, entryVars,
        boundVars, historyVars, IInv, Types
<1>1. CASE Answered(h)
  BY <1>1, AnsweredKeeps DEF ReadReturns, ReadFails, ConfirmedOK
<1>2. CASE ~Answered(h)
  <2>1. PICK S \in SUBSET Credentials :
            /\ step[h] = "reading" /\ ticket[h] = revision
            /\ seen' = [seen EXCEPT ![h] = S]
            /\ step' = [step EXCEPT ![h] = "waiting"]
            /\ UNCHANGED <<action, ticket, target, payload, memoryVars, holder, disk,
                           entryVars, boundVars, historyVars>>
    BY <1>2 DEF ReadReturns, ReadFails
  <2>2. Types' /\ DataTypeOK'
    <3>1. MemoryTypeOK' /\ StoreTypeOK' /\ HistoryTypeOK'
      BY Zenon, <2>1 DEF MemoryTypeOK, StoreTypeOK, HistoryTypeOK
    <3>2. RequestTypeOK' /\ DataTypeOK'
      BY <2>1 DEF RequestTypeOK, Steps, DataTypeOK
    <3> QED BY <3>1, <3>2
  <2>3. StoreSound'
    <3>1. NewestReading' => NewestReading
      BY <2>1 DEF NewestReading, RequestTypeOK, Tickets
    <3> QED BY <2>1, <3>1, PastStays DEF Minted
  <2>4. SavesTheMemory' /\ Tickets' /\ FreshIsCertified' /\ ConfirmedOK'
    BY <2>1 DEF SavesTheMemory, Tickets, FreshIsCertified, ConfirmedOK, RequestTypeOK
  <2>5. OptOutInForce'
    BY <2>1 DEF OptOutInForce
  <2> QED BY <2>2, <2>3, <2>4, <2>5
<1> QED BY <1>1, <1>2

(* Another request queues.                                                  *)
LEMMA AskKeeps == ASSUME NEW h \in Handlers, NEW what \in Actions, IInv, Ask(h, what) PROVE IInv'
<1> USE HandlersAssumption, ParametersAssumption DEF Ask, memoryVars, requestVars,
        entryVars, boundVars, historyVars, IInv, Types
<1>1. MemoryTypeOK'
  BY Zenon DEF MemoryTypeOK
<1>2. RequestTypeOK'
  BY DEF RequestTypeOK, Steps, Actions, MemoryTypeOK
<1>3. StoreTypeOK'
  BY Zenon DEF StoreTypeOK
<1>4. HistoryTypeOK'
  BY DEF HistoryTypeOK
<1>5. DataTypeOK'
  BY DEF DataTypeOK
<1>6. StoreSound'
  <2>1. NewestReading' => NewestReading
    BY DEF NewestReading, RequestTypeOK
  <2> QED BY <2>1, PastStays DEF Minted
<1>7. SavesTheMemory'
  BY DEF SavesTheMemory, RequestTypeOK
<1>8. Tickets'
  BY DEF Tickets, RequestTypeOK, MemoryTypeOK
<1>9. FreshIsCertified'
  BY DEF FreshIsCertified, RequestTypeOK, Refs, Ref
<1>10. ConfirmedOK'
  BY DEF ConfirmedOK, Ref
<1>11. OptOutInForce'
  <2> SUFFICES ASSUME optedOut' PROVE OptOutInForce'
    BY DEF OptOutInForce
  <2>1. optedOut /\ what # "optIn"
    OBVIOUS
  <2> QED BY <2>1 DEF OptOutInForce, RequestTypeOK
<1> QED BY <1>1, <1>2, <1>3, <1>4, <1>5, <1>6, <1>7, <1>8, <1>9, <1>10, <1>11

-----------------------------------------------------------------------------
(* A request has its turn and saves the records as they now are.            *)
LEMMA SavingStarts ==
    ASSUME IInv, NEW h \in Handlers, step[h] = "waiting", holder = Nobody,
           NEW R \in SUBSET Record, NEW b \in BOOLEAN,
           Save(h, [records |-> R, legacy |-> b]),
           records' = R, legacy' = legacy, pin' = pin,
           b = IF action[h] \in {"optOut", "optIn"} THEN action[h] = "optOut" ELSE legacy,
           target' \in [Handlers -> Reference \cup {NoReference}],
           revision' \in 0 .. MaxTickets, revision <= revision',
           action[h] = "read" /\ ~pin => \A r \in R : r.active => r.cred \in seen[h],
           action[h] = "name" => \E r \in R : Ref(r) = target'[h] /\ r.label /\ r.active,
           action[h] = "reset" => R = {}
    PROVE  RequestTypeOK' /\ DataTypeOK' /\ SavesTheMemory' /\ Tickets'
<1> USE HandlersAssumption, ParametersAssumption DEF IInv, Types
<1> DEFINE data == [records |-> R, legacy |-> b]
<1>1. data \in Data /\ data.records = R /\ data.legacy = b
  BY DataOK
<1> HIDE DEF data
<1>2. Save(h, data)
  BY DEF data
<1>3. RequestTypeOK' /\ DataTypeOK'
  BY <1>1, <1>2, SaveTypes
<1>4. \A g \in Handlers : step[g] # "saving"
  BY DEF SavesTheMemory
<1>5. /\ holder' = h /\ step'[h] = "saving" /\ payload'[h] = data
      /\ \A g \in Handlers \ {h} : step'[g] = step[g]
      /\ UNCHANGED <<action, ticket, seen>>
  BY <1>2 DEF Save, RequestTypeOK, DataTypeOK
<1>6. SavesTheMemory'
  <2> SUFFICES ASSUME NEW g \in Handlers
               PROVE  /\ step'[g] = "saving" <=> holder' = g
                      /\ step'[g] = "saving" =>
                            /\ payload'[g].records = records'
                            /\ payload'[g].legacy = IF action'[g] \in {"optOut", "optIn"}
                                                    THEN action'[g] = "optOut" ELSE legacy'
                            /\ action'[g] = "read" /\ ~pin' =>
                                  \A r \in records' : r.active => r.cred \in seen'[g]
                            /\ action'[g] = "name" =>
                                  \E r \in records' : Ref(r) = target'[g] /\ r.label /\ r.active
                            /\ action'[g] = "reset" => records' = {}
    BY DEF SavesTheMemory, Ref
  <2>1. CASE g # h
    BY <1>4, <1>5, <2>1
  <2>2. CASE g = h
    BY <1>1, <1>5, <2>2
  <2> QED BY <2>1, <2>2
<1>7. Tickets'
  <2>1. \A g \in Handlers : step'[g] \in {"idle", "reading"} <=> step[g] \in {"idle", "reading"}
    BY <1>5
  <2>2. \A g \in Handlers : action[g] = "read" => ticket[g] \in 1 .. revision'
    BY DEF Tickets, MemoryTypeOK
  <2> QED BY <1>5, <2>1, <2>2 DEF Tickets
<1> QED BY <1>3, <1>6, <1>7

(* From then on no read may still reconcile with the newest ticket, if the  *)
(* request was that read.                                                   *)
LEMMA NoNewerReading ==
    ASSUME IInv, NEW h \in Handlers, NEW data, Save(h, data), revision' = revision
    PROVE  NewestReading' => NewestReading
BY DEF Save, NewestReading, IInv, Types, RequestTypeOK

(* A record gets a label, or the request is refused.                        *)
LEMMA NameKeeps == ASSUME IInv, NEW h \in Handlers, Name(h) PROVE IInv'
<1> USE HandlersAssumption, ParametersAssumption DEF IInv, Types
<1>1. CASE Answered(h) /\ UNCHANGED <<records, holder>>
  <2>1. step[h] # "saving" /\ UNCHANGED confirmed
    BY DEF Name, Turn
  <2> QED BY <1>1, <2>1, AnsweredKeeps DEF Name, memoryVars, historyVars, ConfirmedOK
<1>2. CASE ~(Answered(h) /\ UNCHANGED <<records, holder>>)
  <2>1. PICK r \in records :
            /\ fresh /\ r.active /\ Ref(r) \in observed
            /\ records' = (records \ {r}) \cup {[r EXCEPT !.label = TRUE]}
            /\ target' = [target EXCEPT ![h] = Ref(r)]
            /\ Save(h, [records |-> records', legacy |-> legacy])
    BY <1>2 DEF Name
  <2>2. /\ step[h] = "waiting" /\ action[h] = "name" /\ holder = Nobody
        /\ UNCHANGED <<legacy, fresh, observed, confirmed, revision, disk, pin, removed,
                       failures, restarts, certifier, missed, vouched, forgotten, optedOut>>
    BY DEF Name, Turn, entryVars, boundVars, historyVars
  <2> DEFINE q == [r EXCEPT !.label = TRUE]
             R == (records \ {r}) \cup {q}
  <2>3. /\ q \in Record /\ q.label /\ q.cred = r.cred /\ q.born = r.born
        /\ q.active = r.active /\ Ref(q) = Ref(r)
    BY LabelledOK DEF MemoryTypeOK
  <2>4. records' = R /\ R \subseteq Record /\ q \in R
    BY <2>1, <2>3 DEF MemoryTypeOK
  <2>5. Bounded(R)
    BY LabelledBounded DEF StoreSound, Sound
  <2>6. \A x \in R : \E y \in records :
            /\ x.cred = y.cred /\ x.born = y.born /\ x.active = y.active /\ Ref(x) = Ref(y)
            /\ (x = y) \/ (x = q /\ y = r)
    BY <2>3
  <2>7. \A y \in records : \E x \in R :
            /\ Ref(x) = Ref(y) /\ x.active = y.active /\ (y.label => x.label)
    BY <2>3
  <2> HIDE DEF q, R
  <2>8. Ref(r) \in Reference /\ target' \in [Handlers -> Reference \cup {NoReference}]
            /\ target'[h] = Ref(r)
    BY <2>1 DEF MemoryTypeOK, RequestTypeOK, Ref, Record, Reference
  <2>9. RequestTypeOK' /\ DataTypeOK' /\ SavesTheMemory' /\ Tickets'
    <3>1. legacy \in BOOLEAN /\ revision' \in 0 .. MaxTickets /\ revision <= revision'
      BY <2>2 DEF MemoryTypeOK
    <3>2. action[h] \notin {"optOut", "optIn", "read", "reset"}
      BY <2>2
    <3>3. \E x \in R : Ref(x) = target'[h] /\ x.label /\ x.active
      BY <2>1, <2>3, <2>4, <2>8
    <3> QED BY <2>1, <2>2, <2>4, <2>8, <3>1, <3>2, <3>3, SavingStarts
  <2>10. MemoryTypeOK'
    <3>1. Cardinality(records') <= MaxRecords
      BY <2>4, <2>5 DEF Bounded
    <3>2. holder' \in Handlers \cup {Nobody}
      BY <2>9 DEF DataTypeOK
    <3> QED BY Zenon, <2>2, <2>4, <3>1, <3>2 DEF MemoryTypeOK
  <2>11. StoreTypeOK' /\ HistoryTypeOK'
    BY Zenon, <2>2 DEF StoreTypeOK, HistoryTypeOK
  <2>12. StoreSound'
    <3>1. \A b \in Nat : Minted(b) => Minted(b)'
      BY <2>1, <2>2, NoNewerReading DEF Minted
    <3>2. OneEach(records)'
      <4> SUFFICES ASSUME NEW x \in R, NEW z \in R, x.cred = z.cred,
                          pin \/ (x.active /\ z.active)
                   PROVE  x = z
        BY <2>2, <2>4 DEF OneEach
      <4>1. PICK y \in records : /\ x.cred = y.cred /\ x.active = y.active
                                 /\ (x = y) \/ (x = q /\ y = r)
        BY <2>6
      <4>2. PICK w \in records : /\ z.cred = w.cred /\ z.active = w.active
                                 /\ (z = w) \/ (z = q /\ w = r)
        BY <2>6
      <4>3. y = w
        BY <4>1, <4>2 DEF StoreSound, Sound, OneEach
      <4>4. r \notin R \/ q = r
        BY DEF R
      <4> QED BY <4>1, <4>2, <4>3, <4>4
    <3>3. KeepsThePast(records)'
      BY <2>2, <2>4, <2>6, <3>1 DEF StoreSound, Sound, KeepsThePast, MemoryTypeOK, Record
    <3>4. Sound(disk.records)'
      BY <2>2, <3>1 DEF StoreSound, Sound, Bounded, OneEach, KeepsThePast, Record
    <3>5. Bounded(records)'
      BY <2>4, <2>5 DEF Bounded
    <3>6. \A ref \in missed \cup forgotten : ref.born \in Nat
      BY DEF HistoryTypeOK, Reference
    <3> QED BY <2>2, <2>4, <3>1, <3>2, <3>3, <3>4, <3>5, <3>6 DEF StoreSound, Sound
  <2>13. FreshIsCertified'
    <3>1. \A ref \in observed : \E x \in R : x.active /\ Ref(x) = ref
      BY <2>1, <2>7 DEF FreshIsCertified, Refs
    <3>2. observed \subseteq Refs({x \in R : x.active})
      BY <3>1 DEF Refs
    <3>3. UNCHANGED <<action, ticket>>
      BY <2>1 DEF Save
    <3> QED BY <2>2, <2>4, <3>2, <3>3 DEF FreshIsCertified, Refs, Ref
  <2>14. ConfirmedOK'
    <3> SUFFICES ASSUME NEW ref \in confirmed
                 PROVE  \E x \in R : Ref(x) = ref /\ x.label /\ (x.active \/ pin)
      BY <2>2, <2>4 DEF ConfirmedOK, Ref
    <3> QED BY <2>7 DEF ConfirmedOK
  <2>15. OptOutInForce'
    BY <2>1, <2>2 DEF OptOutInForce, Save
  <2> QED BY <2>9, <2>10, <2>11, <2>12, <2>13, <2>14, <2>15
<1> QED BY <1>1, <1>2

(* The records are dropped.                                                 *)
LEMMA ResetKeeps == ASSUME IInv, NEW h \in Handlers, Reset(h) PROVE IInv'
<1> USE HandlersAssumption, ParametersAssumption DEF IInv, Types
<1>1. /\ step[h] = "waiting" /\ action[h] = "reset" /\ holder = Nobody
      /\ records' = {} /\ confirmed' = confirmed \ Refs(records)
      /\ revision < MaxTickets /\ revision' = revision + 1 /\ fresh' = FALSE /\ observed' = {}
      /\ Save(h, [records |-> {}, legacy |-> legacy])
      /\ UNCHANGED <<legacy, target, disk, pin, removed, failures, restarts, certifier,
                     missed, vouched, forgotten, optedOut>>
  BY DEF Reset, Turn, MarkStale, entryVars, boundVars, historyVars
<1>2. revision \in 0 .. MaxTickets /\ legacy \in BOOLEAN
  BY DEF MemoryTypeOK
<1>3. RequestTypeOK' /\ DataTypeOK' /\ SavesTheMemory' /\ Tickets'
  <2>1. {} \in SUBSET Record /\ revision' \in 0 .. MaxTickets /\ revision <= revision'
    BY <1>1, <1>2
  <2>2. target' \in [Handlers -> Reference \cup {NoReference}]
    BY <1>1 DEF RequestTypeOK
  <2>3. action[h] \notin {"optOut", "optIn", "read", "name"}
    BY <1>1
  <2> QED BY <1>1, <1>2, <2>1, <2>2, <2>3, SavingStarts
<1>4. MemoryTypeOK'
  <2>1. revision' \in 0 .. MaxTickets /\ confirmed' \subseteq Reference
            /\ Cardinality(records') <= MaxRecords
    BY <1>1, <1>2, FS_EmptySet DEF MemoryTypeOK
  <2>2. fresh' \in BOOLEAN
    BY <1>1
  <2>3. records' \subseteq Record /\ observed' \subseteq Reference
    BY <1>1
  <2> QED BY Zenon, <1>1, <1>3, <2>1, <2>2, <2>3 DEF MemoryTypeOK, DataTypeOK
<1>5. StoreTypeOK' /\ HistoryTypeOK'
  BY Zenon, <1>1 DEF StoreTypeOK, HistoryTypeOK
<1>6. StoreSound'
  <2>1. \A b \in Nat : Minted(b) => Minted(b)'
    BY <1>1, <1>2 DEF Minted
  <2>2. Sound(records)'
    BY <1>1, FS_EmptySet DEF Sound, Bounded, OneEach, KeepsThePast
  <2>3. Sound(disk.records)'
    BY <1>1, <2>1 DEF StoreSound, Sound, Bounded, OneEach, KeepsThePast, Record
  <2>4. \A ref \in missed \cup forgotten : ref.born \in Nat
    BY DEF HistoryTypeOK, Reference
  <2> QED BY <1>1, <2>1, <2>2, <2>3, <2>4 DEF StoreSound
<1>7. FreshIsCertified'
  BY <1>1 DEF FreshIsCertified
<1>8. ConfirmedOK'
  BY <1>1 DEF ConfirmedOK, Refs
<1>9. OptOutInForce'
  BY <1>1 DEF OptOutInForce, Save
<1> QED BY <1>3, <1>4, <1>5, <1>6, <1>7, <1>8, <1>9

(* The opt-out is saved first.                                              *)
LEMMA SetLegacyKeeps == ASSUME IInv, NEW h \in Handlers, SetLegacy(h) PROVE IInv'
<1> USE HandlersAssumption, ParametersAssumption DEF IInv, Types
<1>1. /\ step[h] = "waiting" /\ action[h] \in {"optOut", "optIn"} /\ holder = Nobody
      /\ Save(h, [records |-> records, legacy |-> action[h] = "optOut"])
      /\ UNCHANGED <<records, legacy, fresh, observed, confirmed, revision, target, disk,
                     pin, removed, failures, restarts, certifier, missed, vouched, forgotten,
                     optedOut>>
  BY DEF SetLegacy, Turn, memoryVars, entryVars, boundVars, historyVars
<1>2. RequestTypeOK' /\ DataTypeOK' /\ SavesTheMemory' /\ Tickets'
  <2>1. records \in SUBSET Record /\ revision' \in 0 .. MaxTickets /\ revision <= revision'
    BY <1>1 DEF MemoryTypeOK
  <2>2. target' \in [Handlers -> Reference \cup {NoReference}]
    BY <1>1 DEF RequestTypeOK
  <2>3. action[h] \notin {"reset", "read", "name"}
    BY <1>1
  <2> DEFINE b == action[h] = "optOut"
  <2>4. b \in BOOLEAN
    OBVIOUS
  <2>5. b = IF action[h] \in {"optOut", "optIn"} THEN action[h] = "optOut" ELSE legacy
    BY <1>1
  <2>6. Save(h, [records |-> records, legacy |-> b])
    BY <1>1
  <2> HIDE DEF b
  <2> QED BY <1>1, <2>1, <2>2, <2>3, <2>4, <2>5, <2>6, SavingStarts
<1>3. MemoryTypeOK' /\ StoreTypeOK' /\ HistoryTypeOK'
  BY Zenon, <1>1, <1>2 DEF MemoryTypeOK, StoreTypeOK, HistoryTypeOK, DataTypeOK
<1>4. StoreSound'
  <2>1. \A b \in Nat : Minted(b) => Minted(b)'
    BY <1>1, NoNewerReading DEF Minted
  <2> QED BY <1>1, <2>1, PastStays
<1>5. FreshIsCertified' /\ ConfirmedOK'
  BY <1>1 DEF FreshIsCertified, ConfirmedOK, Save, Ref, Refs
<1>6. OptOutInForce'
  BY <1>1 DEF OptOutInForce, Save
<1> QED BY <1>2, <1>3, <1>4, <1>5, <1>6

(* What stays confirmed after a read was listed by it.                      *)
LEMMA ReconcileVouches ==
    ASSUME IInv, NEW h \in Handlers, Reconcile(h)
    PROVE  confirmed' \subseteq vouched' /\ vouched' \subseteq vouched
<1> DEFINE S == seen[h]
           R == Reconciled(S, ticket[h])
<1>1. CASE UNCHANGED <<confirmed, vouched>>
  BY <1>1 DEF IInv, ConfirmedOK
<1>2. CASE /\ confirmed' = confirmed \ Refs(Unlisted(S, R))
           /\ vouched' = {ref \in vouched : ref.cred \in S}
  <2> SUFFICES ASSUME NEW ref \in confirmed, ref \notin Refs(Unlisted(S, R))
               PROVE  ref \in vouched /\ ref.cred \in S
    BY <1>2
  <2>1. PICK r \in records : Ref(r) = ref
    BY DEF IInv, ConfirmedOK
  <2>2. pin \in BOOLEAN /\ r \in Record
    BY DEF IInv, Types, MemoryTypeOK
  <2>3. Kept(r, S) \in R
    BY ReconciledIs
  <2>4. Ref(Kept(r, S)) = ref /\ Kept(r, S).cred = r.cred /\ ref.cred = r.cred
    BY <2>1, <2>2, KeptOK DEF Ref
  <2> HIDE DEF R
  <2>5. Kept(r, S) \notin Unlisted(S, R)
    BY <2>4 DEF Refs
  <2> QED BY <2>3, <2>4, <2>5 DEF Unlisted, IInv, ConfirmedOK
<1> QED BY <1>1, <1>2 DEF Reconcile

(* A read that nobody superseded changes the records, unless they would be  *)
(* too many.                                                                *)
LEMMA ReconcileKeeps == ASSUME IInv, NEW h \in Handlers, Reconcile(h) PROVE IInv'
<1> USE HandlersAssumption, ParametersAssumption DEF IInv, Types
<1>1. /\ step[h] = "waiting" /\ action[h] = "read" /\ holder = Nobody
      /\ UNCHANGED <<legacy, fresh, observed, revision, disk, entryVars, boundVars,
                     certifier, missed, forgotten, optedOut>>
      /\ confirmed' \subseteq vouched' /\ vouched' \subseteq vouched
  BY ReconcileVouches DEF Reconcile, Turn
<1>2. CASE Answered(h) /\ confirmed' \subseteq confirmed /\ UNCHANGED <<records, holder>>
  BY <1>1, <1>2, AnsweredKeeps
<1>3. CASE ~(Answered(h) /\ confirmed' \subseteq confirmed /\ UNCHANGED <<records, holder>>)
  <2> DEFINE S == seen[h]
             R == Reconciled(S, ticket[h])
             lost == Unlisted(S, R)
  <2>1. /\ ticket[h] = revision /\ Cardinality(R) <= MaxRecords
        /\ confirmed' = confirmed \ Refs(lost) /\ records' = R
        /\ Save(h, [records |-> R, legacy |-> legacy])
        /\ UNCHANGED target
    BY <1>3 DEF Reconcile
  <2>2. UNCHANGED <<pin, removed, failures, restarts, certifier, missed, forgotten, optedOut>>
    BY <1>1 DEF entryVars, boundVars
  <2>3. /\ S \in SUBSET Credentials /\ ticket[h] \in Nat /\ pin \in BOOLEAN
        /\ legacy \in BOOLEAN /\ revision \in 0 .. MaxTickets
        /\ records \subseteq Record /\ IsFiniteSet(records) /\ OneEach(records)
    BY DEF RequestTypeOK, MemoryTypeOK, StoreSound, Sound, Bounded
  <2>4. R \subseteq Record /\ Bounded(R) /\ OneEach(R)
    BY <2>1, <2>3, ReconciledRecords, ReconciledOneEach DEF Bounded
  <2>5. \A q \in R : /\ q.born <= revision /\ Ref(q) \notin forgotten
                     /\ ~pin /\ q.active => Ref(q) \notin missed /\ q.cred \in S
    BY <1>1, <2>1, ReconciledPast
  <2>6. \A r \in records : \E q \in R :
            /\ Ref(q) = Ref(r) /\ q.cred = r.cred /\ q.label = r.label
            /\ r.cred \in S => (q.active <=> r.active \/ pin)
    <3> SUFFICES ASSUME NEW r \in records
                 PROVE  \E q \in R : /\ Ref(q) = Ref(r) /\ q.cred = r.cred
                                     /\ q.label = r.label
                                     /\ r.cred \in S => (q.active <=> r.active \/ pin)
      OBVIOUS
    <3>1. Kept(r, S) \in R
      BY ReconciledIs
    <3>2. /\ Ref(Kept(r, S)) = Ref(r) /\ Kept(r, S).cred = r.cred
          /\ Kept(r, S).label = r.label
          /\ r.cred \in S => (Kept(r, S).active <=> r.active \/ pin)
      BY <2>3, KeptOK
    <3> HIDE DEF R
    <3> QED BY <3>1, <3>2
  <2> HIDE DEF R
  <2>7. RequestTypeOK' /\ DataTypeOK' /\ SavesTheMemory' /\ Tickets'
    <3>1. action[h] \notin {"optOut", "optIn", "name", "reset"}
      BY <1>1
    <3>2. target' \in [Handlers -> Reference \cup {NoReference}]
      BY <2>1 DEF RequestTypeOK
    <3>3. ~pin => \A r \in R : r.active => r.cred \in seen[h]
      BY <2>5
    <3>4. revision' \in 0 .. MaxTickets /\ revision <= revision'
      BY <1>1, <2>3
    <3> QED BY <1>1, <2>1, <2>2, <2>3, <2>4, <3>1, <3>2, <3>3, <3>4, SavingStarts
  <2>8. MemoryTypeOK'
    <3>1. confirmed' \subseteq Reference /\ Cardinality(records') <= MaxRecords
      BY <2>1 DEF MemoryTypeOK
    <3> QED BY Zenon, <1>1, <2>1, <2>2, <2>4, <2>7, <3>1 DEF MemoryTypeOK, DataTypeOK
  <2>9. StoreTypeOK' /\ HistoryTypeOK'
    BY Zenon, <1>1, <2>2 DEF StoreTypeOK, HistoryTypeOK
  <2>10. ~NewestReading'
    <3>1. step'[h] = "saving" /\ UNCHANGED <<action, ticket>> /\ revision' = revision
      BY <1>1, <2>1 DEF Save, RequestTypeOK
    <3>2. \A g \in Handlers \ {h} : action[g] = "read" => ticket[g] # revision
      BY <1>1, <2>1 DEF Tickets
    <3> QED BY <3>1, <3>2 DEF NewestReading
  <2>11. StoreSound'
    <3>1. \A b \in Nat : Minted(b) => Minted(b)'
      BY <1>1, <2>10 DEF Minted
    <3>2. KeepsThePast(records)'
      BY <1>1, <2>1, <2>2, <2>5, <2>10 DEF KeepsThePast, Minted, Ref
    <3>3. OneEach(records)'
      BY <2>1, <2>2, <2>4 DEF OneEach
    <3>4. Sound(disk.records)'
      BY <1>1, <2>2, <3>1 DEF StoreSound, Sound, Bounded, OneEach, KeepsThePast, Record
    <3>5. Bounded(records)' /\ (records \subseteq Record)'
      BY <2>1, <2>4 DEF Bounded
    <3>6. \A ref \in missed \cup forgotten : ref.born \in Nat
      BY DEF HistoryTypeOK, Reference
    <3> QED BY <1>1, <2>2, <3>1, <3>2, <3>3, <3>4, <3>5, <3>6 DEF StoreSound, Sound
  <2>12. FreshIsCertified'
    BY <1>1, <2>1 DEF FreshIsCertified
  <2>13. ConfirmedOK'
    <3> SUFFICES ASSUME NEW ref \in confirmed, ref \notin Refs(lost)
                 PROVE  \E q \in R : Ref(q) = ref /\ q.label /\ (q.active \/ pin)
      BY <1>1, <2>1, <2>2 DEF ConfirmedOK, Ref
    <3>1. PICK r \in records : Ref(r) = ref /\ r.label /\ (r.active \/ pin)
      BY DEF ConfirmedOK
    <3>2. PICK q \in R : /\ Ref(q) = Ref(r) /\ q.cred = r.cred /\ q.label = r.label
                         /\ r.cred \in S => (q.active <=> r.active \/ pin)
      BY <2>6
    <3>3. q.cred \in S
      BY <3>1, <3>2 DEF Refs, Unlisted
    <3> QED BY <3>1, <3>2, <3>3
  <2>14. OptOutInForce'
    BY <1>1, <2>1, <2>2 DEF OptOutInForce, Save
  <2> QED BY <2>7, <2>8, <2>9, <2>11, <2>12, <2>13, <2>14
<1> QED BY <1>2, <1>3

-----------------------------------------------------------------------------
(* A save that ends, well or not, wrote what the memory holds, and nobody   *)
(* saves any more.                                                          *)
LEMMA SaveEnds ==
    ASSUME IInv, NEW h \in Handlers, step[h] = "saving", Answered(h), holder' = Nobody,
           revision' = revision
    PROVE  /\ RequestTypeOK' /\ DataTypeOK' /\ SavesTheMemory' /\ Tickets'
           /\ NewestReading' => NewestReading
           /\ payload[h] \in Data /\ payload[h].records = records
<1> USE HandlersAssumption, ParametersAssumption DEF IInv, Types
<1>1. RequestTypeOK' /\ DataTypeOK'
  BY AnsweredTypes DEF DataTypeOK
<1>2. \A g \in Handlers : step'[g] # "saving" /\ holder' # g
  BY DEF Answered, SavesTheMemory, RequestTypeOK
<1>3. SavesTheMemory'
  BY <1>2 DEF SavesTheMemory
<1>4. Tickets'
  BY SMTT(20) DEF Answered, Tickets, RequestTypeOK, MemoryTypeOK
<1>5. NewestReading' => NewestReading
  BY DEF NewestReading, Answered, RequestTypeOK, Tickets
<1>6. payload[h] \in Data /\ payload[h].records = records
  BY DEF DataTypeOK, SavesTheMemory
<1> QED BY <1>1, <1>3, <1>4, <1>5, <1>6

(* What the save makes known is of the past from then on.                   *)
LEMMA SavedPast ==
    ASSUME IInv, NEW h \in Handlers, step[h] = "saving",
           NewestReading' => NewestReading,
           UNCHANGED <<pin, records, revision>>, disk' = payload[h],
           \/ UNCHANGED <<missed, forgotten>>
           \/ /\ action[h] = "read" /\ forgotten' = forgotten
              /\ missed' = missed \cup Refs({q \in records : q.cred \notin seen[h]})
           \/ /\ action[h] = "reset" /\ missed' = missed
              /\ forgotten' = forgotten \cup Refs(disk.records)
    PROVE  StoreSound' /\ missed' \subseteq Reference /\ forgotten' \subseteq Reference
<1> USE DEF IInv, Types
<1>1. /\ payload[h] \in Data /\ payload[h].records = records
      /\ action[h] = "read" /\ ~pin => \A r \in records : r.active => r.cred \in seen[h]
      /\ action[h] = "reset" => records = {}
  BY DEF DataTypeOK, SavesTheMemory
<1>2. \A b \in Nat : Minted(b) => Minted(b)'
  BY DEF Minted
<1>3. \A r \in Record : /\ Ref(r) \in Reference /\ Ref(r).born = r.born
                        /\ Ref(r).cred = r.cred /\ r.born \in Nat
  BY DEF Record, Ref, Reference
<1>4. \A ref \in missed \cup forgotten : ref.born \in Nat /\ Minted(ref.born)
  BY DEF HistoryTypeOK, Reference, StoreSound
<1>5. \A r \in records \cup disk.records :
          r \in Record /\ Minted(r.born) /\ Ref(r).born = r.born
  BY <1>3 DEF StoreSound, Sound, KeepsThePast
<1>6. /\ missed' \subseteq missed \cup Refs(records)
      /\ forgotten' \subseteq forgotten \cup Refs(disk.records)
  BY DEF Refs
<1>7. \A ref \in missed' \cup forgotten' : ref \in Reference /\ Minted(ref.born)'
  <2> SUFFICES ASSUME NEW ref \in missed' \cup forgotten'
               PROVE  ref \in Reference /\ Minted(ref.born)'
    OBVIOUS
  <2>1. CASE ref \in missed \cup forgotten
    BY <1>2, <1>4, <2>1 DEF HistoryTypeOK
  <2>2. CASE ref \in Refs(records) \cup Refs(disk.records)
    <3>1. PICK r \in records \cup disk.records : ref = Ref(r)
      BY <2>2 DEF Refs
    <3> QED BY <1>2, <1>3, <1>5, <3>1
  <2> QED BY <1>6, <2>1, <2>2
<1>8. KeepsThePast(records)'
  <2> SUFFICES ASSUME NEW r \in records
               PROVE  /\ Minted(r.born)' /\ Ref(r) \notin forgotten'
                      /\ ~pin /\ r.active => Ref(r) \notin missed'
    BY DEF KeepsThePast, Ref
  <2>1. Minted(r.born)'
    BY <1>2, <1>3, <1>5
  <2>2. Ref(r) \notin forgotten'
    BY <1>1 DEF StoreSound, Sound, KeepsThePast
  <2>3. ASSUME ~pin, r.active PROVE Ref(r) \notin missed'
    <3>1. Ref(r) \notin missed
      BY <2>3 DEF StoreSound, Sound, KeepsThePast
    <3>2. action[h] = "read" => Ref(r) \notin Refs({q \in records : q.cred \notin seen[h]})
      BY <1>1, <1>3, <1>5, <2>3 DEF Refs
    <3> QED BY <3>1, <3>2
  <2> QED BY <2>1, <2>2, <2>3
<1>9. Sound(records)'
  BY <1>8 DEF StoreSound, Sound, Bounded, OneEach
<1>10. disk'.records = records' /\ disk' \in Data
  BY <1>1
<1>11. Sound(disk.records)'
  BY <1>9, <1>10
<1> QED BY <1>7, <1>9, <1>10, <1>11 DEF StoreSound

(* The request's data is on disk.                                           *)
LEMMA SavedKeeps == ASSUME IInv, NEW h \in Handlers, Saved(h) PROVE IInv'
<1> USE HandlersAssumption, ParametersAssumption DEF IInv, Types
<1>1. /\ step[h] = "saving" /\ disk' = payload[h] /\ holder' = Nobody /\ Answered(h)
      /\ UNCHANGED <<records, revision, pin, removed, failures, restarts>>
  BY DEF Saved, entryVars, boundVars
<1>2. /\ RequestTypeOK' /\ DataTypeOK' /\ SavesTheMemory' /\ Tickets'
      /\ NewestReading' => NewestReading
      /\ payload[h] \in Data /\ payload[h].records = records
  BY <1>1, SaveEnds
<1>3. StoreSound' /\ missed' \subseteq Reference /\ forgotten' \subseteq Reference
  <2>1. \/ UNCHANGED <<missed, forgotten>>
        \/ /\ action[h] = "read" /\ forgotten' = forgotten
           /\ missed' = missed \cup Refs({q \in records : q.cred \notin seen[h]})
        \/ /\ action[h] = "reset" /\ missed' = missed
           /\ forgotten' = forgotten \cup Refs(disk.records)
    BY DEF Saved, Certify, Refs
  <2> QED BY <1>1, <1>2, <2>1, SavedPast
<1>4. \/ /\ ticket[h] = revision /\ action[h] = "read"
         /\ fresh' = TRUE /\ certifier' = ticket[h]
         /\ observed' = Refs({q \in records : q.active /\ q.cred \in seen[h]})
      \/ UNCHANGED <<fresh, observed, certifier>>
  BY DEF Saved, Certify, Refs
<1>5. \/ UNCHANGED <<confirmed, vouched>>
      \/ action[h] = "reset" /\ confirmed' = confirmed /\ vouched' = {}
      \/ /\ action[h] = "name" /\ confirmed' = confirmed \cup {target[h]}
         /\ vouched' = vouched \cup {target[h]}
  BY DEF Saved
<1>6. \/ /\ action[h] \in {"read", "name", "reset"} /\ UNCHANGED <<legacy, optedOut>>
      \/ /\ action[h] \in {"optOut", "optIn"}
         /\ legacy' = (action[h] = "optOut")
         /\ optedOut' = (action[h] = "optOut" /\ \A g \in Handlers : action[g] # "optIn")
  BY DEF Saved
<1>7. \A r \in Record : Ref(r) \in Reference
  BY DEF Record, Ref, Reference
<1>8. records \subseteq Record /\ ticket[h] \in 0 .. MaxTickets
  BY DEF MemoryTypeOK, RequestTypeOK
<1>9. ConfirmedOK' /\ confirmed' \subseteq Reference /\ vouched' \subseteq Reference
  <2>1. action[h] = "name" =>
            \E r \in records : Ref(r) = target[h] /\ r.label /\ (r.active \/ pin)
    BY <1>1 DEF SavesTheMemory
  <2>2. action[h] = "name" => target[h] \in Reference
    BY <1>7, <1>8, <2>1
  <2>3. action[h] = "reset" => confirmed = {}
    BY <1>1 DEF SavesTheMemory, ConfirmedOK
  <2> QED BY <1>1, <1>5, <2>1, <2>2, <2>3 DEF ConfirmedOK, MemoryTypeOK, HistoryTypeOK, Ref
<1>10. MemoryTypeOK'
  <2>1. observed' \subseteq Reference
    BY <1>4, <1>7, <1>8 DEF MemoryTypeOK, Refs
  <2>2. fresh' \in BOOLEAN
    BY <1>4 DEF MemoryTypeOK
  <2>3. legacy' \in BOOLEAN
    BY <1>6 DEF MemoryTypeOK
  <2> QED BY Zenon, <1>1, <1>2, <1>9, <2>1, <2>2, <2>3 DEF MemoryTypeOK, DataTypeOK
<1>11. StoreTypeOK'
  <2>1. disk'.records = records /\ disk'.legacy \in BOOLEAN
    BY <1>1, <1>2 DEF Data
  <2>2. records \subseteq Record /\ Cardinality(records) <= MaxRecords
    BY DEF MemoryTypeOK
  <2> QED BY Zenon, <1>1, <2>1, <2>2 DEF StoreTypeOK
<1>12. HistoryTypeOK'
  <2>1. certifier' \in 0 .. MaxTickets
    BY <1>4, <1>8 DEF HistoryTypeOK
  <2>2. optedOut' \in BOOLEAN
    BY <1>6 DEF HistoryTypeOK
  <2> QED BY <1>3, <1>9, <2>1, <2>2 DEF HistoryTypeOK
<1>13. FreshIsCertified'
  <2>1. \A g \in Handlers : action'[g] = "read" =>
            g # h /\ action[g] = "read" /\ ticket'[g] = ticket[g]
    BY <1>1 DEF Answered, RequestTypeOK
  <2>2. CASE UNCHANGED <<fresh, observed, certifier>>
    BY <1>1, <2>1, <2>2 DEF FreshIsCertified, Refs, Ref
  <2>3. CASE /\ ticket[h] = revision /\ action[h] = "read"
             /\ fresh' = TRUE /\ certifier' = ticket[h]
             /\ observed' = Refs({q \in records : q.active /\ q.cred \in seen[h]})
    <3>1. observed' \subseteq Refs({r \in records : r.active})
      BY <2>3 DEF Refs
    <3>2. (Refs({r \in records : r.active}))' = Refs({r \in records : r.active})
      BY <1>1 DEF Refs, Ref
    <3>3. \A g \in Handlers : action'[g] = "read" => ticket'[g] # revision
      BY <2>1, <2>3 DEF Tickets
    <3> QED BY <1>1, <2>3, <3>1, <3>2, <3>3 DEF FreshIsCertified
  <2> QED BY <1>4, <2>2, <2>3
<1>14. OptOutInForce'
  <2> SUFFICES ASSUME optedOut'
               PROVE  /\ ~removed => legacy' /\ disk'.legacy
                      /\ \A g \in Handlers : action'[g] # "optIn"
    BY <1>1 DEF OptOutInForce
  <2>1. \A g \in Handlers : action'[g] = "none" \/ action'[g] = action[g]
    BY <1>1 DEF Answered, RequestTypeOK
  <2>2. disk'.legacy = IF action[h] \in {"optOut", "optIn"} THEN action[h] = "optOut"
                       ELSE legacy
    BY <1>1 DEF SavesTheMemory
  <2>3. CASE action[h] \in {"read", "name", "reset"} /\ UNCHANGED <<legacy, optedOut>>
    BY <2>1, <2>2, <2>3 DEF OptOutInForce
  <2>4. CASE /\ action[h] \in {"optOut", "optIn"}
             /\ legacy' = (action[h] = "optOut")
             /\ optedOut' = (action[h] = "optOut" /\ \A g \in Handlers : action[g] # "optIn")
    BY <2>1, <2>2, <2>4
  <2> QED BY <1>6, <2>3, <2>4
<1> QED BY <1>2, <1>3, <1>9, <1>10, <1>11, <1>12, <1>13, <1>14

(* The save failed or its caller was cancelled; it may have been written.   *)
LEMMA SaveFailsKeeps == ASSUME IInv, NEW h \in Handlers, SaveFails(h) PROVE IInv'
<1> USE HandlersAssumption, ParametersAssumption DEF IInv, Types
<1>1. /\ step[h] = "saving" /\ holder' = Nobody /\ Answered(h)
      /\ disk' = disk \/ disk' = payload[h]
      /\ failures < MaxFailures /\ failures' = failures + 1
      /\ UNCHANGED <<records, legacy, fresh, observed, confirmed, revision, pin, removed,
                     restarts, certifier, missed, vouched, forgotten, optedOut>>
  BY DEF SaveFails, memoryVars, entryVars, historyVars
<1>2. /\ RequestTypeOK' /\ DataTypeOK' /\ SavesTheMemory' /\ Tickets'
      /\ NewestReading' => NewestReading
      /\ payload[h] \in Data /\ payload[h].records = records
  BY <1>1, SaveEnds
<1>3. StoreSound'
  <2>1. CASE disk' = payload[h]
    BY <1>1, <1>2, <2>1, SavedPast
  <2>2. CASE disk' = disk
    <3>1. \A b \in Nat : Minted(b) => Minted(b)'
      BY <1>1, <1>2 DEF Minted
    <3> QED BY <1>1, <2>2, <3>1, PastStays
  <2> QED BY <1>1, <2>1, <2>2
<1>4. MemoryTypeOK' /\ HistoryTypeOK'
  BY Zenon, <1>1, <1>2 DEF MemoryTypeOK, HistoryTypeOK, DataTypeOK
<1>5. StoreTypeOK'
  <2>1. disk' \in Data /\ Cardinality(disk'.records) <= MaxRecords
    BY <1>3 DEF StoreSound, Sound, Bounded
  <2>2. disk'.records \subseteq Record /\ disk'.legacy \in BOOLEAN
    BY <2>1 DEF Data
  <2>3. failures' \in 0 .. MaxFailures
    BY <1>1 DEF StoreTypeOK
  <2> QED BY Zenon, <1>1, <2>1, <2>2, <2>3 DEF StoreTypeOK
<1>6. \A g \in Handlers :
          \/ action'[g] = "none"
          \/ action'[g] = action[g] /\ ticket'[g] = ticket[g]
  BY <1>1 DEF Answered, RequestTypeOK
<1>7. FreshIsCertified' /\ ConfirmedOK'
  BY <1>1, <1>6 DEF FreshIsCertified, ConfirmedOK, Ref, Refs
<1>8. OptOutInForce'
  <2> SUFFICES ASSUME optedOut
               PROVE  /\ ~removed => legacy /\ disk'.legacy
                      /\ \A g \in Handlers : action'[g] # "optIn"
    BY <1>1 DEF OptOutInForce
  <2>1. payload[h].legacy = IF action[h] \in {"optOut", "optIn"} THEN action[h] = "optOut"
                            ELSE legacy
    BY <1>1 DEF SavesTheMemory
  <2> QED BY <1>1, <1>6, <2>1 DEF OptOutInForce
<1> QED BY <1>2, <1>3, <1>4, <1>5, <1>7, <1>8

-----------------------------------------------------------------------------
(* Freshness expires.                                                       *)
LEMMA ExpireKeeps == ASSUME IInv, Expire PROVE IInv'
<1> USE DEF IInv, Types
<1>1. fresh' = FALSE
  BY DEF Expire
<1>2. /\ UNCHANGED <<records, legacy, observed, confirmed, revision, holder, disk, pin,
                     removed, failures, restarts, certifier, missed, vouched, forgotten, optedOut>>
      /\ UNCHANGED <<step, action, ticket, seen, target, payload>>
  BY DEF Expire, requestVars, entryVars, boundVars, historyVars
<1>3. fresh' \in BOOLEAN
  BY <1>1
<1>4. Types' /\ DataTypeOK'
  BY Zenon, <1>2, <1>3 DEF MemoryTypeOK, RequestTypeOK, StoreTypeOK, HistoryTypeOK, DataTypeOK
<1>5. StoreSound'
  <2>1. \A b \in Nat : Minted(b) => Minted(b)'
    BY <1>2 DEF Minted, NewestReading
  <2> QED BY <1>2, <2>1, PastStays
<1>6. SavesTheMemory' /\ Tickets' /\ ConfirmedOK' /\ OptOutInForce'
  BY <1>2 DEF SavesTheMemory, Tickets, ConfirmedOK, OptOutInForce, Ref
<1>7. FreshIsCertified'
  BY <1>1 DEF FreshIsCertified
<1> QED BY <1>4, <1>5, <1>6, <1>7

(* Home Assistant restarts.                                                 *)
LEMMA RestartKeeps == ASSUME IInv, Restart PROVE IInv'
<1> USE HandlersAssumption, ParametersAssumption DEF IInv, Types
<1>1. /\ ~removed /\ restarts < MaxRestarts /\ restarts' = restarts + 1
      /\ records' = disk'.records /\ legacy' = disk'.legacy
      /\ fresh' = FALSE /\ observed' = {} /\ confirmed' = {} /\ holder' = Nobody
      /\ UNCHANGED <<revision, pin, removed, failures, missed, forgotten, optedOut>>
      /\ certifier' = 0 /\ vouched' = {}
  BY DEF Restart, entryVars, historyVars
<1>2. /\ step' = [h \in Handlers |-> "idle"] /\ action' = [h \in Handlers |-> "none"]
      /\ ticket' = [h \in Handlers |-> 0] /\ seen' = [h \in Handlers |-> {}]
      /\ target' = [h \in Handlers |-> NoReference]
      /\ payload' = [h \in Handlers |-> EmptyData]
  BY DEF Restart
<1>3. disk' = disk \/ \E h \in Handlers : step[h] = "saving" /\ disk' = payload[h]
  BY DEF Restart
<1>4. EmptyData \in Data /\ EmptyData.records = {} /\ EmptyData.legacy = FALSE
  BY DEF EmptyData, Data
<1>5. RequestTypeOK'
  <2>1. \A h \in Handlers : payload'[h].records \subseteq Record /\ payload'[h].legacy \in BOOLEAN
    BY <1>2, <1>4
  <2> QED BY <1>2, <2>1 DEF RequestTypeOK, Steps, Actions
<1>6. DataTypeOK'
  BY <1>1, <1>2, <1>4 DEF DataTypeOK
<1>7. StoreSound' /\ disk' \in Data /\ Cardinality(disk'.records) <= MaxRecords
  <2>1. Sound(disk'.records) /\ disk' \in Data
    BY <1>3 DEF StoreSound, SavesTheMemory, DataTypeOK
  <2>2. ~NewestReading'
    BY <1>2 DEF NewestReading
  <2>3. \A b \in Nat : Minted(b) => Minted(b)'
    BY <1>1, <2>2 DEF Minted
  <2>4. \A r \in disk'.records : r.born \in Nat
    BY <2>1 DEF Sound, Record
  <2>5. Sound(records)' /\ Sound(disk.records)'
    BY <1>1, <2>1, <2>3, <2>4 DEF Sound, Bounded, OneEach, KeepsThePast, Ref
  <2>6. \A ref \in missed \cup forgotten : ref.born \in Nat
    BY DEF HistoryTypeOK, Reference
  <2> QED BY <1>1, <2>1, <2>3, <2>5, <2>6 DEF StoreSound, Sound, Bounded
<1>8. MemoryTypeOK'
  <2>1. disk'.records \subseteq Record /\ disk'.legacy \in BOOLEAN
    BY <1>7 DEF Data
  <2>2. fresh' \in BOOLEAN
    BY <1>1
  <2>3. observed' \subseteq Reference /\ confirmed' \subseteq Reference
    BY <1>1
  <2> QED BY Zenon, <1>1, <1>7, <2>1, <2>2, <2>3 DEF MemoryTypeOK
<1>9. StoreTypeOK' /\ HistoryTypeOK'
  <2>1. disk'.records \subseteq Record /\ disk'.legacy \in BOOLEAN
    BY <1>7 DEF Data
  <2>2. restarts' \in 0 .. MaxRestarts
    BY <1>1 DEF StoreTypeOK
  <2>3. certifier' \in 0 .. MaxTickets /\ vouched' \subseteq Reference
    BY <1>1
  <2> QED BY Zenon, <1>1, <1>7, <2>1, <2>2, <2>3 DEF StoreTypeOK, HistoryTypeOK
<1>10. SavesTheMemory' /\ Tickets' /\ FreshIsCertified' /\ ConfirmedOK'
  BY <1>1, <1>2 DEF SavesTheMemory, Tickets, FreshIsCertified, ConfirmedOK
<1>11. OptOutInForce'
  <2> SUFFICES ASSUME optedOut PROVE disk'.legacy
    BY <1>1, <1>2 DEF OptOutInForce
  <2>1. legacy /\ disk.legacy /\ \A h \in Handlers : action[h] # "optIn"
    BY <1>1 DEF OptOutInForce
  <2>2. ASSUME NEW h \in Handlers, step[h] = "saving" PROVE payload[h].legacy
    BY <2>1, <2>2 DEF SavesTheMemory
  <2> QED BY <1>3, <2>1, <2>2
<1> QED BY <1>5, <1>6, <1>7, <1>8, <1>9, <1>10, <1>11

(* The entry is removed, and its file.                                      *)
LEMMA RemoveEntryKeeps == ASSUME IInv, RemoveEntry PROVE IInv'
<1> USE HandlersAssumption, ParametersAssumption DEF IInv, Types
<1>1. /\ removed' = TRUE /\ disk' = EmptyData
      /\ UNCHANGED <<pin, records, legacy, fresh, observed, confirmed, revision, holder,
                     failures, restarts, certifier, missed, vouched, forgotten, optedOut>>
      /\ UNCHANGED <<step, action, ticket, seen, target, payload>>
  BY DEF RemoveEntry, memoryVars, requestVars, boundVars, historyVars
<1>2. /\ EmptyData \in Data /\ EmptyData.records = {} /\ EmptyData.legacy = FALSE
      /\ EmptyData.legacy \in BOOLEAN
  BY DEF EmptyData, Data
<1>3. StoreSound' /\ Cardinality(disk'.records) <= MaxRecords
  <2>1. \A b \in Nat : Minted(b) => Minted(b)'
    BY <1>1 DEF Minted, NewestReading
  <2>2. Sound(records)'
    BY <1>1, <2>1 DEF StoreSound, Sound, Bounded, OneEach, KeepsThePast, Record
  <2>3. Sound(disk.records)' /\ Cardinality(disk'.records) <= MaxRecords
    BY <1>1, <1>2, FS_EmptySet DEF Sound, Bounded, OneEach, KeepsThePast
  <2>4. \A ref \in missed \cup forgotten : ref.born \in Nat
    BY DEF HistoryTypeOK, Reference
  <2> QED BY <1>1, <1>2, <2>1, <2>2, <2>3, <2>4 DEF StoreSound
<1>4. MemoryTypeOK' /\ RequestTypeOK' /\ HistoryTypeOK' /\ DataTypeOK'
  BY Zenon, <1>1 DEF MemoryTypeOK, RequestTypeOK, HistoryTypeOK, DataTypeOK
<1>5. StoreTypeOK'
  <2>1. removed' \in BOOLEAN
    BY <1>1
  <2>2. disk'.records \subseteq Record /\ disk'.legacy \in BOOLEAN
    BY <1>1, <1>2
  <2> QED BY Zenon, <1>1, <1>3, <2>1, <2>2 DEF StoreTypeOK
<1>6. SavesTheMemory' /\ Tickets' /\ FreshIsCertified' /\ ConfirmedOK'
  BY <1>1 DEF SavesTheMemory, Tickets, FreshIsCertified, ConfirmedOK, Ref, Refs
<1>7. OptOutInForce'
  BY <1>1 DEF OptOutInForce
<1> QED BY <1>3, <1>4, <1>5, <1>6, <1>7

-----------------------------------------------------------------------------
(* At the start there are no records.                                       *)
LEMMA InitKeeps == Init => IInv
<1> SUFFICES ASSUME Init PROVE IInv
  OBVIOUS
<1> USE HandlersAssumption, ParametersAssumption DEF Init
<1>1. /\ EmptyData \in Data /\ EmptyData.records = {} /\ EmptyData.legacy = FALSE
      /\ EmptyData.legacy \in BOOLEAN
  BY DEF EmptyData, Data
<1>2. MemoryTypeOK
  <2>1. /\ Cardinality(records) <= MaxRecords /\ revision \in 0 .. MaxTickets
        /\ records \subseteq Record /\ observed \subseteq Reference /\ confirmed \subseteq Reference
    BY FS_EmptySet
  <2>2. legacy \in BOOLEAN /\ fresh \in BOOLEAN
    OBVIOUS
  <2> QED BY Zenon, <2>1, <2>2 DEF MemoryTypeOK
<1>3. RequestTypeOK
  <2>1. \A h \in Handlers : payload[h].records \subseteq Record /\ payload[h].legacy \in BOOLEAN
    BY <1>1
  <2> QED BY <2>1 DEF RequestTypeOK, Steps, Actions
<1>4. StoreTypeOK
  <2>1. disk = EmptyData /\ removed \in BOOLEAN
    OBVIOUS
  <2>2. failures \in 0 .. MaxFailures /\ restarts \in 0 .. MaxRestarts
    OBVIOUS
  <2>3. disk.records \subseteq Record /\ Cardinality(disk.records) <= MaxRecords
    BY <1>1, <2>1, FS_EmptySet
  <2> QED BY Zenon, <1>1, <2>1, <2>2, <2>3 DEF StoreTypeOK
<1>5. HistoryTypeOK /\ DataTypeOK
  <2>1. optedOut \in BOOLEAN
    OBVIOUS
  <2>2. HistoryTypeOK
    BY <2>1 DEF HistoryTypeOK
  <2>3. DataTypeOK
    BY <1>1 DEF DataTypeOK
  <2> QED BY <2>2, <2>3
<1>6. StoreSound
  BY <1>1, FS_EmptySet DEF StoreSound, Sound, Bounded, OneEach, KeepsThePast
<1>7. SavesTheMemory /\ Tickets /\ FreshIsCertified /\ ConfirmedOK /\ OptOutInForce
  BY DEF SavesTheMemory, Tickets, FreshIsCertified, ConfirmedOK, OptOutInForce
<1> QED BY <1>2, <1>3, <1>4, <1>5, <1>6, <1>7 DEF IInv, Types

(* A step that changes nothing.                                             *)
LEMMA StutterKeeps == ASSUME IInv, UNCHANGED vars PROVE IInv'
<1> USE DEF IInv, Types
<1>1. /\ UNCHANGED <<records, legacy, fresh, observed, confirmed, revision, holder, disk,
                     pin, removed, failures, restarts, certifier, missed, vouched, forgotten,
                     optedOut>>
      /\ UNCHANGED <<step, action, ticket, seen, target, payload>>
  BY DEF vars, memoryVars, requestVars, entryVars, boundVars, historyVars
<1>2. Types' /\ DataTypeOK'
  BY Zenon, <1>1 DEF MemoryTypeOK, RequestTypeOK, StoreTypeOK, HistoryTypeOK, DataTypeOK
<1>3. StoreSound'
  <2>1. \A b \in Nat : Minted(b) => Minted(b)'
    BY <1>1 DEF Minted, NewestReading
  <2> QED BY <1>1, <2>1, PastStays
<1>4. SavesTheMemory' /\ Tickets' /\ FreshIsCertified' /\ ConfirmedOK' /\ OptOutInForce'
  BY <1>1 DEF SavesTheMemory, Tickets, FreshIsCertified, ConfirmedOK, OptOutInForce,
              Ref, Refs
<1> QED BY <1>2, <1>3, <1>4

(* Every step keeps the invariant.                                          *)
LEMMA NextKeeps == ASSUME IInv, [Next]_vars PROVE IInv'
<1>1. ASSUME NEW h \in Handlers, BeginRead(h) PROVE IInv'
  BY <1>1, BeginReadKeeps
<1>2. ASSUME NEW h \in Handlers, ReadReturns(h) \/ ReadFails(h) PROVE IInv'
  BY <1>2, ReadEndsKeeps
<1>3. ASSUME NEW h \in Handlers, NEW what \in Actions, Ask(h, what) PROVE IInv'
  BY <1>3, AskKeeps
<1>4. ASSUME NEW h \in Handlers, Locked(h) PROVE IInv'
  BY <1>4, ReconcileKeeps, NameKeeps, ResetKeeps, SetLegacyKeeps DEF Locked
<1>5. ASSUME NEW h \in Handlers, Saved(h) \/ SaveFails(h) PROVE IInv'
  BY <1>5, SavedKeeps, SaveFailsKeeps
<1>6. CASE Expire \/ Restart \/ RemoveEntry
  BY <1>6, ExpireKeeps, RestartKeeps, RemoveEntryKeeps
<1>7. CASE UNCHANGED vars
  BY <1>7, StutterKeeps
<1> QED BY <1>1, <1>2, <1>3, <1>4, <1>5, <1>6, <1>7 DEF Next

(* The invariant the theorems below are read off from.                      *)
LEMMA Invariance == Spec => []IInv
<1>1. Init => IInv
  BY InitKeeps
<1>2. IInv /\ [Next]_vars => IInv'
  BY NextKeeps
<1> QED BY <1>1, <1>2, PTL DEF Spec

-----------------------------------------------------------------------------
(* Memory and file never hold more records than the schema allows, nor      *)
(* anything else that the next start would refuse.                          *)
THEOREM TypeCorrect == Spec => []TypeOK
<1>1. IInv => TypeOK
  BY DEF IInv, Types, TypeOK
<1> QED BY <1>1, Invariance, PTL

(* Fresh observations are the newest attempt's.                             *)
THEOREM FreshWord == Spec => []FreshIsNewest
<1>1. IInv => FreshIsNewest
  BY DEF IInv, FreshIsCertified, FreshIsNewest
<1> QED BY <1>1, Invariance, PTL

(* A card or fingerprint a certified read missed does not come back under   *)
(* its old reference, whatever fails or restarts.                           *)
THEOREM RetiredForGood == Spec => []RetiredStaysRetired
<1>1. IInv => RetiredStaysRetired
  BY DEF IInv, StoreSound, Sound, KeepsThePast, RetiredStaysRetired, Refs
<1> QED BY <1>1, Invariance, PTL

(* No credential has two references.                                        *)
THEOREM OneReference == Spec => []OneReferencePerCredential
<1>1. IInv => OneReferencePerCredential
  BY DEF IInv, StoreSound, Sound, OneEach, OneReferencePerCredential
<1> QED BY <1>1, Invariance, PTL

(* What a reset forgot is gone from memory and file, for good.              *)
THEOREM ForgottenForGood == Spec => []ForgottenStaysForgotten
<1>1. IInv => ForgottenStaysForgotten
  BY DEF IInv, StoreSound, Sound, KeepsThePast, ForgottenStaysForgotten, Refs
<1> QED BY <1>1, Invariance, PTL

(* A confirmed label was set in this run and listed by every reconciliation *)
(* since, and its record is there.                                          *)
THEOREM ConfirmedCurrent == Spec => []ConfirmedIsCurrent
<1>1. IInv => ConfirmedIsCurrent
  BY DEF IInv, ConfirmedOK, ConfirmedIsCurrent, Refs
<1> QED BY <1>1, Invariance, PTL

(* An answered opt-out outlives failed saves, later reads and restarts.     *)
THEOREM OptOutLasts == Spec => []OptOutHolds
<1>1. IInv => OptOutHolds
  BY DEF IInv, OptOutInForce, OptOutHolds
<1> QED BY <1>1, Invariance, PTL

-----------------------------------------------------------------------------
(* The durable book of labels.  What is being saved is what the one request *)
(* that holds the lock saves.                                               *)
LEMMA NoneBeingSaved ==
    ASSUME \A h \in Handlers : step[h] # "saving"
    PROVE  BeingSaved = {}
BY DEF BeingSaved

LEMMA OneBeingSaved ==
    ASSUME IInv, NEW h \in Handlers, step[h] = "saving"
    PROVE  BeingSaved = {payload[h]}
<1>1. \A g \in Handlers : step[g] = "saving" <=> g = h
  BY DEF IInv, SavesTheMemory
<1> QED BY <1>1 DEF BeingSaved

(* A request that is not saving, and does not begin to, saves nothing.      *)
LEMMA SavingGoesOn ==
    ASSUME NEW h \in Handlers, step[h] # "saving",
           step \in [Handlers -> Steps], payload \in [Handlers -> Data],
           NEW s \in Steps \ {"saving"}, step' = [step EXCEPT ![h] = s],
           payload' = payload \/ payload' = [payload EXCEPT ![h] = EmptyData]
    PROVE  BeingSaved' = BeingSaved
<1>1. /\ \A g \in Handlers : step'[g] = "saving" <=> step[g] = "saving"
      /\ \A g \in Handlers : step[g] = "saving" => payload'[g] = payload[g]
  OBVIOUS
<1> QED BY <1>1 DEF BeingSaved

(* The request that has its turn is the first to save.                      *)
LEMMA WriteBegins ==
    ASSUME IInv, NEW h \in Handlers, holder = Nobody, NEW data, Save(h, data)
    PROVE  BeingSaved = {} /\ BeingSaved' = {data}
<1>1. \A g \in Handlers : step[g] # "saving"
  BY HandlersAssumption DEF IInv, SavesTheMemory
<1>2. \A g \in Handlers : step'[g] = "saving" <=> g = h
  BY <1>1 DEF Save, IInv, Types, RequestTypeOK
<1>3. payload'[h] = data
  BY DEF Save, IInv, DataTypeOK
<1> QED BY <1>1, <1>2, <1>3, NoneBeingSaved DEF BeingSaved

(* The request that saved is answered, and nobody saves.                    *)
LEMMA WriteEnds ==
    ASSUME IInv, NEW h \in Handlers, step[h] = "saving", Answered(h)
    PROVE  BeingSaved' = {}
<1>1. \A g \in Handlers : step'[g] # "saving"
  BY DEF Answered, IInv, Types, RequestTypeOK, SavesTheMemory
<1> QED BY <1>1 DEF BeingSaved

(* What the book of labels does not see.                                    *)
LEMMA BookRests ==
    ASSUME UNCHANGED <<records, legacy, disk, pin, removed>>, BeingSaved' = BeingSaved
    PROVE  UNCHANGED Book!vars
BY DEF Book!vars

-----------------------------------------------------------------------------
LEMMA BookInit == ASSUME Init PROVE Book!Init
<1>1. BeingSaved = {}
  BY NoneBeingSaved DEF Init
<1> QED BY <1>1 DEF Init, Book!Init, EmptyData

(* Requests that begin, read, or are answered before they saved anything.   *)
LEMMA QuietSteps ==
    ASSUME IInv, NEW h \in Handlers,
           \/ BeginRead(h) \/ ReadReturns(h) \/ ReadFails(h)
           \/ \E what \in Actions : Ask(h, what)
    PROVE  UNCHANGED Book!vars
<1>1. step \in [Handlers -> Steps] /\ payload \in [Handlers -> Data] /\ step[h] # "saving"
  BY DEF IInv, Types, RequestTypeOK, DataTypeOK, BeginRead, ReadReturns, ReadFails, Ask
<1>2. \E s \in Steps \ {"saving"} :
          /\ step' = [step EXCEPT ![h] = s]
          /\ payload' = payload \/ payload' = [payload EXCEPT ![h] = EmptyData]
  BY DEF BeginRead, ReadReturns, ReadFails, Ask, Answered, Steps
<1>3. UNCHANGED <<records, legacy, disk, pin, removed>>
  BY DEF BeginRead, MarkStale, ReadReturns, ReadFails, Ask, memoryVars, entryVars
<1> QED BY <1>1, <1>2, <1>3, SavingGoesOn, BookRests

LEMMA AnsweredQuietly ==
    ASSUME IInv, NEW h \in Handlers, step[h] = "waiting", Answered(h),
           UNCHANGED <<records, legacy, disk, pin, removed>>
    PROVE  UNCHANGED Book!vars
<1>1. step \in [Handlers -> Steps] /\ payload \in [Handlers -> Data] /\ step[h] # "saving"
  BY DEF IInv, Types, RequestTypeOK, DataTypeOK
<1>2. "idle" \in Steps \ {"saving"}
  BY DEF Steps
<1> QED BY <1>1, <1>2, SavingGoesOn, BookRests DEF Answered

(* Reconciling is an observation of the book: no label is lost, none is     *)
(* given away, nothing retired comes back.                                  *)
LEMMA ReconcileObserves ==
    ASSUME IInv, NEW h \in Handlers, Reconcile(h)
    PROVE  Book!Observe \/ UNCHANGED Book!vars
<1> DEFINE S == seen[h]
           R == Reconciled(S, ticket[h])
<1>1. /\ step[h] = "waiting" /\ action[h] = "read" /\ holder = Nobody
      /\ UNCHANGED <<legacy, disk, pin, removed>>
  BY DEF Reconcile, Turn, entryVars
<1>2. CASE Answered(h) /\ UNCHANGED records
  BY <1>1, <1>2, AnsweredQuietly
<1>3. CASE ~(Answered(h) /\ UNCHANGED records)
  <2>1. /\ ticket[h] = revision /\ records' = R
        /\ Save(h, [records |-> R, legacy |-> legacy])
    BY <1>3 DEF Reconcile
  <2>2. /\ S \in SUBSET Credentials /\ ticket[h] \in Nat /\ pin \in BOOLEAN
        /\ records \subseteq Record
    BY ParametersAssumption DEF IInv, Types, RequestTypeOK, MemoryTypeOK
  <2>3. \A r \in records :
            \E q \in R : q.cred = r.cred /\ q.born = r.born /\ q.label = r.label
    <3> TAKE r \in records
    <3>1. Kept(r, S) \in R
      BY ReconciledIs
    <3>2. Kept(r, S).cred = r.cred /\ Kept(r, S).born = r.born /\ Kept(r, S).label = r.label
      BY <2>2, KeptOK
    <3> HIDE DEF R
    <3> QED BY <3>1, <3>2
  <2>4. \A q \in R :
            \/ ~q.label /\ \A r \in records : ~(q.cred = r.cred /\ q.born = r.born)
            \/ \E r \in records : /\ q.cred = r.cred /\ q.born = r.born
                                  /\ q.label = r.label /\ (q.active => r.active \/ pin)
    <3> TAKE q \in R
    <3>1. CASE \E r \in records : q = Kept(r, S)
      BY <2>2, <3>1, KeptOK
    <3>2. CASE \E c \in Unknown(S) : q = New(c, ticket[h])
      <4>1. PICK c \in Unknown(S) : q = New(c, ticket[h])
        BY <3>2
      <4>2. q.born = ticket[h] /\ ~q.label
        BY <2>2, <4>1, NewOK DEF Unknown, New
      <4>3. \A r \in records : r.born < revision
        BY <1>1, <2>1
           DEF IInv, StoreSound, Sound, KeepsThePast, Minted, NewestReading
      <4>4. revision \in Nat /\ \A r \in records : r.born \in Nat
        BY <2>1, <2>2 DEF Record
      <4> QED BY <2>1, <4>2, <4>3, <4>4
    <3> QED BY <3>1, <3>2, ReconciledIs
  <2> HIDE DEF R
  <2>5. BeingSaved = {} /\ BeingSaved' = {[records |-> R, legacy |-> legacy]}
    BY <1>1, <2>1, WriteBegins
  <2>6. Book!Write([records |-> records', legacy |-> legacy'])
    BY <1>1, <2>1, <2>5 DEF Book!Write
  <2> QED BY <1>1, <2>1, <2>3, <2>4, <2>6 DEF Book!Observe, Book!SameRef
<1> QED BY <1>2, <1>3

(* Naming labels one current reference.                                     *)
LEMMA NameLabels ==
    ASSUME IInv, NEW h \in Handlers, Name(h)
    PROVE  Book!Label \/ UNCHANGED Book!vars
<1>1. /\ step[h] = "waiting" /\ holder = Nobody
      /\ UNCHANGED <<legacy, disk, pin, removed>>
  BY DEF Name, Turn, entryVars
<1>2. CASE Answered(h) /\ UNCHANGED records
  BY <1>1, <1>2, AnsweredQuietly
<1>3. CASE ~(Answered(h) /\ UNCHANGED records)
  <2>1. PICK r \in records :
            /\ r.active
            /\ records' = (records \ {r}) \cup {[r EXCEPT !.label = TRUE]}
            /\ Save(h, [records |-> records', legacy |-> legacy])
    BY <1>3 DEF Name
  <2>2. BeingSaved = {} /\ BeingSaved' = {[records |-> records', legacy |-> legacy]}
    BY <1>1, <2>1, WriteBegins
  <2>3. Book!Write([records |-> records', legacy |-> legacy'])
    BY <1>1, <2>2 DEF Book!Write
  <2> QED BY <1>1, <2>1, <2>3 DEF Book!Label
<1> QED BY <1>2, <1>3

LEMMA ResetForgets ==
    ASSUME IInv, NEW h \in Handlers, Reset(h)
    PROVE  Book!Forget
<1>1. /\ holder = Nobody /\ records' = {} /\ Save(h, [records |-> {}, legacy |-> legacy])
      /\ UNCHANGED <<legacy, disk, pin, removed>>
  BY DEF Reset, Turn, entryVars
<1>2. BeingSaved = {} /\ BeingSaved' = {[records |-> {}, legacy |-> legacy]}
  BY <1>1, WriteBegins
<1>3. Book!Write([records |-> records', legacy |-> legacy'])
  BY <1>1, <1>2 DEF Book!Write
<1> QED BY <1>1, <1>3 DEF Book!Forget

(* The opt-out is written as it will be, and in force when that is done.    *)
LEMMA LegacySwitches ==
    ASSUME IInv, NEW h \in Handlers, SetLegacy(h)
    PROVE  Book!Switch
<1> DEFINE off == action[h] = "optOut"
<1>1. /\ holder = Nobody /\ Save(h, [records |-> records, legacy |-> off])
      /\ UNCHANGED <<records, legacy, disk, pin, removed>>
  BY DEF SetLegacy, Turn, memoryVars, entryVars
<1>2. off \in BOOLEAN
  OBVIOUS
<1> HIDE DEF off
<1>3. BeingSaved = {} /\ BeingSaved' = {[records |-> records, legacy |-> off]}
  BY <1>1, WriteBegins
<1>4. Book!Write([records |-> records, legacy |-> off])
  BY <1>1, <1>3 DEF Book!Write
<1> QED BY <1>1, <1>2, <1>4 DEF Book!Switch

(* A save that succeeds leaves memory and disk with the same book.          *)
LEMMA SavedSaves ==
    ASSUME IInv, NEW h \in Handlers, Saved(h)
    PROVE  Book!Saved
<1>1. /\ step[h] = "saving" /\ disk' = payload[h] /\ Answered(h)
      /\ UNCHANGED <<records, pin, removed>>
  BY DEF Saved, entryVars
<1>2. BeingSaved = {payload[h]} /\ BeingSaved' = {}
  BY <1>1, OneBeingSaved, WriteEnds
<1>3. /\ payload[h] \in Data /\ payload[h].records = records
      /\ payload[h].legacy = IF action[h] \in {"optOut", "optIn"}
                             THEN action[h] = "optOut" ELSE legacy
  BY <1>1 DEF IInv, DataTypeOK, SavesTheMemory
<1>4. legacy' = payload[h].legacy
  BY <1>3 DEF Saved
<1>5. payload[h] = [records |-> payload[h].records, legacy |-> payload[h].legacy]
  BY <1>3 DEF Data
<1>6. [records |-> records', legacy |-> legacy'] = payload[h]
  BY <1>1, <1>3, <1>4, <1>5
<1> QED BY <1>1, <1>2, <1>6 DEF Book!Saved

LEMMA FailureFails ==
    ASSUME IInv, NEW h \in Handlers, SaveFails(h)
    PROVE  Book!Fails
<1>1. /\ step[h] = "saving" /\ disk' \in {disk, payload[h]} /\ Answered(h)
      /\ UNCHANGED <<records, legacy, pin, removed>>
  BY DEF SaveFails, memoryVars, entryVars
<1>2. BeingSaved = {payload[h]} /\ BeingSaved' = {}
  BY <1>1, OneBeingSaved, WriteEnds
<1> QED BY <1>1, <1>2 DEF Book!Fails

(* A restart takes up the book on disk, which may be the one being saved.   *)
LEMMA RestartRestarts ==
    ASSUME IInv, Restart
    PROVE  Book!Restart
<1>1. /\ ~removed /\ disk' \in {disk} \cup BeingSaved
      /\ records' = disk'.records /\ legacy' = disk'.legacy
      /\ step' = [h \in Handlers |-> "idle"]
      /\ UNCHANGED <<pin, removed>>
  BY DEF Restart, BeingSaved, entryVars
<1>2. BeingSaved' = {}
  BY <1>1 DEF BeingSaved
<1>3. disk' \in Data
  <2>1. disk \in Data /\ \A h \in Handlers : payload[h] \in Data
    BY DEF IInv, StoreSound, DataTypeOK
  <2> QED BY <1>1, <2>1 DEF BeingSaved
<1>4. disk' = [records |-> disk'.records, legacy |-> disk'.legacy]
  BY <1>3 DEF Data
<1>5. [records |-> records', legacy |-> legacy'] = disk'
  BY <1>1, <1>4
<1> QED BY <1>1, <1>2, <1>5 DEF Book!Restart

(* Freshness is none of the book's business; removal takes its file away.   *)
LEMMA OtherSteps ==
    ASSUME Expire \/ RemoveEntry \/ UNCHANGED vars
    PROVE  Book!Remove \/ UNCHANGED Book!vars
<1>1. UNCHANGED <<records, legacy, pin, step, payload>>
  BY DEF Expire, RemoveEntry, vars, memoryVars, requestVars, entryVars
<1>2. BeingSaved' = BeingSaved
  BY <1>1 DEF BeingSaved
<1>3. CASE RemoveEntry
  BY <1>1, <1>2, <1>3 DEF RemoveEntry, Book!Remove
<1>4. CASE ~RemoveEntry
  <2>1. UNCHANGED <<disk, removed>>
    BY <1>4 DEF Expire, vars, entryVars
  <2> QED BY <1>1, <1>2, <2>1, BookRests
<1> QED BY <1>3, <1>4

(* The store implements the durable book of labels: whatever requests       *)
(* interleave, saves fail and Home Assistant restarts, labels are only      *)
(* changed by those who name or forget, and saved whole, one at a time.     *)
THEOREM ImplementsBook == Spec => BookSpec
<1>1. Init => Book!Init
  BY BookInit
<1>2. ASSUME IInv, [Next]_vars PROVE [Book!Next]_(Book!vars)
  <2>1. ASSUME NEW h \in Handlers, BeginRead(h) \/ ReadReturns(h) \/ ReadFails(h)
                                   \/ \E what \in Actions : Ask(h, what)
        PROVE  [Book!Next]_(Book!vars)
    BY <1>2, <2>1, QuietSteps
  <2>2. ASSUME NEW h \in Handlers, Locked(h) PROVE [Book!Next]_(Book!vars)
    BY <1>2, <2>2, ReconcileObserves, NameLabels, ResetForgets, LegacySwitches
       DEF Locked, Book!Next
  <2>3. ASSUME NEW h \in Handlers, Saved(h) \/ SaveFails(h) PROVE [Book!Next]_(Book!vars)
    BY <1>2, <2>3, SavedSaves, FailureFails DEF Book!Next
  <2>4. CASE Restart
    BY <1>2, <2>4, RestartRestarts DEF Book!Next
  <2>5. CASE Expire \/ RemoveEntry \/ UNCHANGED vars
    BY <2>5, OtherSteps DEF Book!Next
  <2> QED BY <1>2, <2>1, <2>2, <2>3, <2>4, <2>5 DEF Next
<1> QED BY <1>1, <1>2, Invariance, PTL DEF Spec, BookSpec, Book!Spec
=============================================================================
