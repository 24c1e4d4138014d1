---------------------------- MODULE LogHistoryProofs ----------------------------
(***************************************************************************)
(* For journals and logs of any size, pages of any records in any order,   *)
(* and any number of loads and kills: the deque and its set agree, and a   *)
(* record becomes an event in time, and again only when the journal is     *)
(* full of others.                                                         *)
(***************************************************************************)
EXTENDS LogHistory, NaturalsInduction, WellFoundedInduction, TLAPS

(* The log of the lock, and when its records were written.                  *)
LogOK ==
    /\ date \in Seq(0 .. MaxLoads + Ahead)
    /\ during \in Seq(1 .. MaxLoads)
    /\ Len(during) = Len(date)
    /\ Len(date) <= MaxRecords
    /\ \A r \in Written : during[r] <= load

(* A journal, loaded or saved, has no record twice.                         *)
JournalOK(j) ==
    /\ j \in Seq(Written)
    /\ Len(j) <= Capacity
    /\ \A p, q \in 1 .. Len(j) : p < q => j[p] # j[q]

(* A record is in the journal and at most n others came after it.           *)
Keeps(j, r, n) == \E p \in 1 .. Len(j) : j[p] = r /\ Len(j) - p <= n

JournalsOK ==
    /\ JournalOK(recent)
    /\ JournalOK(disk)
    /\ \A j \in late : JournalOK(j)
    /\ seen = Elements(recent)

InstanceOK ==
    /\ dirty \in BOOLEAN
    /\ phase \in {"starting", "up", "unloading", "saved"}
    /\ load \in 1 .. MaxLoads
    /\ crashes \in 0 .. MaxCrashes

(* What became an event in this load, and without a kill in any, is in the  *)
(* journal at its place, until as many others came after it as there is     *)
(* room for.                                                                *)
FiredOK ==
    /\ fired \subseteq Written /\ unheard \subseteq Records /\ again \subseteq Written
    /\ age \in [Records -> 0 .. Capacity]
    /\ \A r \in Records \ Written : age[r] = Capacity
    /\ OnceOnly
    /\ HistoryStaysQuiet
    /\ \A r \in Written :
          age[r] < Capacity /\ (crashes = 0 \/ during[r] = load) => Keeps(recent, r, age[r])

(* Nothing that was fired is lost with the instance, as long as nothing     *)
(* kills it: a journal that will be loaded has it where it should be.       *)
Covers(j) == \A r \in Written : age[r] < Capacity => Keeps(j, r, age[r])

StoredOK ==
    crashes = 0 =>
        /\ ~dirty \/ phase = "saved" => Covers(disk)
        /\ ~dirty => \A j \in late : Covers(j)
        /\ phase \in {"unloading", "saved"} => late = {}

IInv == LogOK /\ JournalsOK /\ InstanceOK /\ FiredOK /\ StoredOK /\ NothingSwallowed

-----------------------------------------------------------------------------
(* A set of natural numbers has a least one.                                *)
LEMMA LeastNatural ==
    ASSUME NEW T, T \subseteq Nat, T # {}
    PROVE  \E k \in T : \A j \in T : k <= j
<1>1. PICK k \in T : \A j \in T : <<j, k>> \notin OpToRel(<, Nat)
  BY WFMin, NatLessThanWellFounded, Zenon
<1>2. \A j \in T : ~(j < k)
  BY <1>1 DEF OpToRel
<1> QED BY <1>2

(* The loop over a page, as far as its nth record.                          *)
Start == [recent |-> recent, seen |-> seen, changed |-> FALSE, live |-> {}, age |-> age,
          again |-> again]

Noting(state, r) == IF r \in state.seen THEN state ELSE Noted(state, r)

Follows(f, page, n) ==
    f = [i \in 0 .. n |-> IF i = 0 THEN Start ELSE Noting(f[i - 1], page[i])]

(* Progress is such a loop, if there is one.                                *)
LEMMA ProgressIs ==
    ASSUME NEW page
    PROVE  Progress(page) = CHOOSE f : Follows(f, page, Len(page))
BY DEF Progress, Follows, Start, Noting

(* There is one: with the least n without one, the loop up to the record    *)
(* before could be continued.                                               *)
LEMMA FollowsExists ==
    ASSUME NEW page, NEW n \in Nat
    PROVE  \E f : Follows(f, page, n)
<1> DEFINE T == {k \in Nat : ~\E f : Follows(f, page, k)}
<1>1. CASE T = {}
  BY <1>1
<1>2. CASE T # {}
  <2>1. PICK k \in T : \A j \in T : k <= j
    BY <1>2, LeastNatural
  <2>2. k # 0
    <3> DEFINE f == [i \in 0 .. 0 |-> Start]
    <3>1. Follows(f, page, 0)
      BY DEF Follows
    <3> QED BY <3>1, <2>1
  <2>3. PICK f : Follows(f, page, k - 1)
    BY <2>1, <2>2
  <2> DEFINE g == [i \in 0 .. k |-> IF i < k THEN f[i] ELSE Noting(f[k - 1], page[k])]
  <2>4. \A i \in 0 .. k : g[i] = IF i = 0 THEN Start ELSE Noting(g[i - 1], page[i])
    <3>1. \A i \in 0 .. k - 1 : f[i] = IF i = 0 THEN Start ELSE Noting(f[i - 1], page[i])
      BY <2>3 DEF Follows
    <3>2. \A i \in 0 .. k : g[i] = IF i < k THEN f[i] ELSE Noting(f[k - 1], page[k])
      OBVIOUS
    <3> HIDE DEF g
    <3>3. k \in Nat
      BY <2>1
    <3> SUFFICES ASSUME NEW i \in 0 .. k
                 PROVE  g[i] = IF i = 0 THEN Start ELSE Noting(g[i - 1], page[i])
      OBVIOUS
    <3>4. CASE i = 0
      BY <2>2, <3>1, <3>2, <3>3, <3>4
    <3>5. CASE i # 0
      <4>1. g[i - 1] = f[i - 1]
        BY <3>2, <3>3, <3>5
      <4> QED BY <2>2, <3>1, <3>2, <3>3, <3>5, <4>1
    <3> QED BY <3>4, <3>5
  <2>5. Follows(g, page, k)
    BY <2>4 DEF Follows
  <2> QED BY <2>1, <2>5
<1> QED BY <1>1, <1>2

(* So Progress begins with the journal and notes one record after another.  *)
LEMMA ProgressSteps ==
    ASSUME NEW page, Len(page) \in Nat
    PROVE  /\ Progress(page)[0] = Start
           /\ \A i \in 1 .. Len(page) :
                  Progress(page)[i] = Noting(Progress(page)[i - 1], page[i])
<1> DEFINE P == Progress(page)
           n == Len(page)
<1>1. \E f : Follows(f, page, n)
  BY FollowsExists
<1>2. Follows(P, page, n)
  BY <1>1, ProgressIs
<1> HIDE DEF P
<1>3. P = [i \in 0 .. n |-> IF i = 0 THEN Start ELSE Noting(P[i - 1], page[i])]
  BY <1>2 DEF Follows
<1>4. \A i \in 0 .. n : P[i] = IF i = 0 THEN Start ELSE Noting(P[i - 1], page[i])
  BY <1>3
<1>5. P[0] = Start
  BY <1>4
<1>6. \A i \in 1 .. n : P[i] = Noting(P[i - 1], page[i])
  BY <1>4
<1> QED BY <1>5, <1>6 DEF P

-----------------------------------------------------------------------------
(* The dates are among those the lock may give.                             *)
LEMMA DatesOK ==
    ASSUME LogOK, NEW r \in Written
    PROVE  date[r] \in 0 .. MaxLoads + Ahead /\ during[r] \in 1 .. MaxLoads
<1>1. /\ date \in Seq(0 .. MaxLoads + Ahead) /\ during \in Seq(1 .. MaxLoads)
      /\ r \in 1 .. Len(date) /\ Len(during) = Len(date)
  BY DEF LogOK, Written
<1>2. \A S : \A t \in Seq(S) : r \in 1 .. Len(t) => t[r] \in S
  OBVIOUS
<1>3. date[r] \in 0 .. MaxLoads + Ahead
  BY <1>1, <1>2, Zenon
<1>4. during[r] \in 1 .. MaxLoads
  BY <1>1, <1>2, Zenon
<1> QED BY <1>3, <1>4

(* What a journal says of its records, and of a record that is not in it.   *)
LEMMA JournalFacts ==
    ASSUME LogOK, NEW j, JournalOK(j), NEW r \in Written, r \notin Elements(j)
    PROVE  /\ j \in Seq(Written) /\ Len(j) \in Nat /\ Len(j) <= Capacity
           /\ \A p \in 1 .. Len(j) : j[p] \in Written /\ j[p] # r
           /\ \A p, q \in 1 .. Len(j) : p < q => j[p] # j[q]
<1>1. j \in Seq(Written) /\ Len(j) <= Capacity
  BY DEF JournalOK
<1>2. Len(j) \in Nat /\ \A p \in 1 .. Len(j) : j[p] \in Written
  BY <1>1
<1>3. \A p \in 1 .. Len(j) : j[p] # r
  BY DEF Elements
<1> QED BY <1>1, <1>2, <1>3 DEF JournalOK

(* What is kept with few others after it is kept with more.                 *)
LEMMA KeepsMore ==
    ASSUME NEW j, Len(j) \in Nat, NEW r, NEW n \in Nat, NEW m \in Nat, n <= m, Keeps(j, r, n)
    PROVE  Keeps(j, r, m)
<1>1. PICK p \in 1 .. Len(j) : j[p] = r /\ Len(j) - p <= n
  BY DEF Keeps
<1>2. Len(j) - p <= m
  BY <1>1
<1> QED BY <1>1, <1>2 DEF Keeps

(* A record that is not there is journalled: it comes last, and what was    *)
(* there has one more after it, or was the one there is no room for.        *)
LEMMA JournalledOK ==
    ASSUME LogOK, NEW j, JournalOK(j), NEW r \in Written, r \notin Elements(j)
    PROVE  /\ JournalOK(Journalled(j, r))
           /\ Elements(Journalled(j, r)) =
                 (IF Full(j) THEN Elements(j) \ {Head(j)} ELSE Elements(j)) \cup {r}
           /\ Keeps(Journalled(j, r), r, 0)
           /\ \A x, n : n \in Nat /\ Keeps(j, x, n) /\ n + 1 < Capacity =>
                            Keeps(Journalled(j, r), x, n + 1)
<1> USE CapacityAssumption
<1>1. /\ j \in Seq(Written) /\ Len(j) \in Nat /\ Len(j) <= Capacity
      /\ \A p \in 1 .. Len(j) : j[p] \in Written /\ j[p] # r
      /\ \A p, q \in 1 .. Len(j) : p < q => j[p] # j[q]
  BY JournalFacts
<1>2. CASE ~Full(j)
  <2> DEFINE k == Append(j, r)
  <2>1. Journalled(j, r) = k
    BY <1>2 DEF Journalled
  <2>2. /\ k \in Seq(Written) /\ Len(k) = Len(j) + 1
        /\ \A p \in 1 .. Len(k) : k[p] = IF p <= Len(j) THEN j[p] ELSE r
    BY <1>1
  <2>a. Len(k) <= Capacity
    BY <1>1, <1>2, <2>2 DEF Full
  <2> HIDE DEF k
  <2>3. ASSUME NEW p \in 1 .. Len(k), NEW q \in 1 .. Len(k), p < q
        PROVE  k[p] # k[q]
    <3>1. p \in 1 .. Len(j) /\ k[p] = j[p]
      BY <1>1, <2>2, <2>3
    <3>2. CASE q <= Len(j)
      <4>1. q \in 1 .. Len(j) /\ k[q] = j[q]
        BY <2>2, <3>2
      <4> QED BY <1>1, <2>3, <3>1, <4>1
    <3>3. CASE ~(q <= Len(j))
      BY <1>1, <2>2, <3>1, <3>3
    <3> QED BY <3>2, <3>3
  <2>b. Len(k) \in 1 .. Len(k) /\ k[Len(k)] = r
    <3>1. Len(k) \in 1 .. Len(k) /\ ~(Len(k) <= Len(j))
      BY <1>1, <2>2
    <3> QED BY <2>2, <3>1
  <2>4. Elements(k) = Elements(j) \cup {r}
    <3>1. ASSUME NEW x \in Elements(k) PROVE x \in Elements(j) \cup {r}
      <4>1. PICK p \in 1 .. Len(k) : x = k[p]
        BY DEF Elements
      <4>2. p \in 1 .. Len(j) \/ x = r
        BY <1>1, <2>2, <4>1
      <4> QED BY <2>2, <4>1, <4>2 DEF Elements
    <3>2. ASSUME NEW x \in Elements(j) PROVE x \in Elements(k)
      <4>1. PICK p \in 1 .. Len(j) : x = j[p]
        BY DEF Elements
      <4>2. p \in 1 .. Len(k) /\ k[p] = x
        BY <1>1, <2>2, <4>1
      <4> QED BY <4>2 DEF Elements
    <3>3. r \in Elements(k)
      BY <2>b DEF Elements
    <3> QED BY <3>1, <3>2, <3>3
  <2>5. Keeps(k, r, 0)
    <3>1. Len(k) - Len(k) <= 0
      BY <1>1, <2>2
    <3> QED BY <2>b, <3>1 DEF Keeps
  <2>6. ASSUME NEW x, NEW n \in Nat, Keeps(j, x, n) PROVE Keeps(k, x, n + 1)
    <3>1. PICK p \in 1 .. Len(j) : j[p] = x /\ Len(j) - p <= n
      BY <2>6 DEF Keeps
    <3>2. p \in 1 .. Len(k) /\ k[p] = x /\ Len(k) - p <= n + 1
      BY <1>1, <2>2, <3>1
    <3> QED BY <3>2 DEF Keeps
  <2>7. JournalOK(k)
    BY <2>2, <2>a, <2>3 DEF JournalOK
  <2> QED BY <1>2, <2>1, <2>4, <2>5, <2>6, <2>7
<1>3. CASE Full(j)
  <2> DEFINE k == Append(Tail(j), r)
  <2>1. Journalled(j, r) = k
    BY <1>3 DEF Journalled
  <2>2. /\ Len(j) = Capacity /\ j # <<>> /\ Head(j) = j[1]
        /\ Tail(j) \in Seq(Written) /\ Len(Tail(j)) = Len(j) - 1
        /\ \A p \in 1 .. Len(j) - 1 : Tail(j)[p] = j[p + 1]
    BY <1>1, <1>3 DEF Full
  <2>3. /\ k \in Seq(Written) /\ Len(k) = Len(j) /\ Len(k) <= Capacity
        /\ \A p \in 1 .. Len(k) : k[p] = IF p < Len(j) THEN j[p + 1] ELSE r
    BY <1>1, <2>2
  <2> HIDE DEF k
  <2>4. ASSUME NEW p \in 1 .. Len(k), NEW q \in 1 .. Len(k), p < q
        PROVE  k[p] # k[q]
    <3>1. p < Len(j) /\ p + 1 \in 1 .. Len(j) /\ k[p] = j[p + 1]
      BY <1>1, <2>3, <2>4
    <3>2. CASE q < Len(j)
      <4>1. q + 1 \in 1 .. Len(j) /\ p + 1 < q + 1 /\ k[q] = j[q + 1]
        BY <1>1, <2>3, <2>4, <3>2
      <4> QED BY <1>1, <3>1, <4>1
    <3>3. CASE ~(q < Len(j))
      BY <1>1, <2>3, <3>1, <3>3
    <3> QED BY <3>2, <3>3
  <2>b. Len(k) \in 1 .. Len(k) /\ k[Len(k)] = r
    BY <1>1, <2>2, <2>3
  <2>5. Elements(k) = (Elements(j) \ {j[1]}) \cup {r}
    <3>1. ASSUME NEW x \in Elements(k), x # r PROVE x \in Elements(j) \ {j[1]}
      <4>1. PICK p \in 1 .. Len(k) : x = k[p]
        BY <3>1 DEF Elements
      <4>2. p + 1 \in 1 .. Len(j) /\ x = j[p + 1] /\ 1 \in 1 .. Len(j) /\ 1 < p + 1
        BY <1>1, <2>3, <3>1, <4>1
      <4>3. j[p + 1] # j[1]
        BY <1>1, <4>2
      <4> QED BY <4>2, <4>3 DEF Elements
    <3>2. ASSUME NEW x \in Elements(j), x # j[1] PROVE x \in Elements(k)
      <4>1. PICK p \in 1 .. Len(j) : x = j[p]
        BY DEF Elements
      <4>2. p - 1 \in 1 .. Len(k) /\ p - 1 < Len(j)
        BY <1>1, <2>3, <3>2, <4>1
      <4>3. PICK q \in 1 .. Len(k) : q < Len(j) /\ q + 1 = p
        BY <4>2
      <4>4. k[q] = x
        BY <2>3, <4>1, <4>3
      <4> QED BY <4>4 DEF Elements
    <3>3. r \in Elements(k)
      BY <2>b DEF Elements
    <3> QED BY <3>1, <3>2, <3>3, <1>1, <2>2 DEF Elements
  <2>6. Keeps(k, r, 0)
    <3>1. Len(k) - Len(k) <= 0
      BY <1>1, <2>3
    <3> QED BY <2>b, <3>1 DEF Keeps
  <2>7. ASSUME NEW x, NEW n \in Nat, Keeps(j, x, n), n + 1 < Capacity PROVE Keeps(k, x, n + 1)
    <3>1. PICK p \in 1 .. Len(j) : j[p] = x /\ Len(j) - p <= n
      BY <2>7 DEF Keeps
    <3>2. p - 1 \in 1 .. Len(k) /\ p - 1 < Len(j) /\ Len(k) - (p - 1) <= n + 1
      BY <1>1, <2>2, <2>3, <2>7, <3>1
    <3>3. PICK q \in 1 .. Len(k) : q < Len(j) /\ q + 1 = p /\ Len(k) - q <= n + 1
      BY <3>2
    <3>4. k[q] = x
      BY <2>3, <3>1, <3>3
    <3> QED BY <3>3, <3>4 DEF Keeps
  <2>8. JournalOK(k)
    BY <2>3, <2>4 DEF JournalOK
  <2> QED BY <1>3, <2>1, <2>2, <2>5, <2>6, <2>7, <2>8
<1> QED BY <1>2, <1>3

-----------------------------------------------------------------------------
(* The invariant of the loop over a page.                                   *)
LoopOK(s) ==
    /\ JournalOK(s.recent)
    /\ s.seen = Elements(s.recent)
    /\ s.changed \in BOOLEAN
    /\ ~s.changed => s.recent = recent /\ s.age = age
    /\ \A r \in s.live : r \in Written /\ date[r] >= load
    /\ \A r \in Elements(s.recent) \ Elements(recent) : date[r] >= load => r \in s.live
    /\ s.again \subseteq Written
    /\ \A r \in s.again : crashes > 0 /\ ~NotAhead(r)
    /\ s.age \in [Records -> 0 .. Capacity]
    /\ \A r \in Records \ Written : s.age[r] = Capacity
    /\ phase # "up" => \A r \in Records : age[r] <= s.age[r]
    /\ \A r \in Written :
          s.age[r] < Capacity /\ (crashes = 0 \/ during[r] = load) =>
              Keeps(s.recent, r, s.age[r])

(* Before the first record the loop has what the journal has.               *)
LEMMA LoopStarts == ASSUME IInv PROVE LoopOK(Start)
<1>1. \A r \in Records : age[r] \in 0 .. Capacity
  BY DEF IInv, FiredOK
<1>2. \A r \in Records : age[r] <= age[r]
  BY <1>1, CapacityAssumption
<1> QED BY <1>2 DEF LoopOK, Start, IInv, JournalsOK, FiredOK, OnceOnly

(* The loop takes a record.                                                 *)
LEMMA LoopKeeps ==
    ASSUME IInv, NEW s, LoopOK(s), NEW r \in Written
    PROVE  LoopOK(Noting(s, r))
<1>1. CASE r \in s.seen
  BY <1>1 DEF Noting
<1>2. CASE r \notin s.seen
  <2> DEFINE t == Noting(s, r)
             h == Head(s.recent)
             E == Elements(s.recent)
  <2>1. /\ JournalOK(s.recent) /\ r \notin E /\ LogOK /\ s.seen = E
    BY <1>2 DEF LoopOK, IInv
  <2>2. /\ t.recent = Journalled(s.recent, r)
        /\ t.seen = (IF Full(s.recent) THEN s.seen \ {h} ELSE s.seen) \cup {r}
        /\ t.changed = TRUE
        /\ t.live = IF date[r] >= load THEN s.live \cup {r} ELSE s.live
        /\ t.age = [q \in Records |-> IF q # r THEN Older(s.age[q])
                                      ELSE IF Heard(s, r) THEN 0 ELSE s.age[q]]
        /\ t.again = IF Heard(s, r) /\ s.age[r] < Capacity THEN s.again \cup {r} ELSE s.again
    BY <1>2 DEF Noting, Noted, IsLive
  <2> HIDE DEF t, h, E
  <2>3. /\ JournalOK(t.recent)
        /\ Elements(t.recent) = (IF Full(s.recent) THEN E \ {h} ELSE E) \cup {r}
        /\ Keeps(t.recent, r, 0)
        /\ \A x, n : n \in Nat /\ Keeps(s.recent, x, n) /\ n + 1 < Capacity =>
                         Keeps(t.recent, x, n + 1)
    BY <2>1, <2>2, JournalledOK DEF h, E
  <2>4. /\ r \in Records /\ Written \subseteq Records /\ Capacity \in Nat /\ Capacity > 0
        /\ \A x \in Records : s.age[x] \in 0 .. Capacity /\ age[x] \in 0 .. Capacity
        /\ Len(t.recent) \in Nat
    <3>1. Written \subseteq Records /\ r \in Records
      BY <2>1, BoundsAssumption DEF LogOK, Written, Records
    <3>2. Len(t.recent) \in Nat
      BY <2>3 DEF JournalOK
    <3> QED BY <3>1, <3>2, CapacityAssumption DEF LoopOK, IInv, FiredOK
  <2>5. /\ t.age \in [Records -> 0 .. Capacity]
        /\ \A x \in Records : x # r => t.age[x] = Older(s.age[x])
        /\ t.age[r] = IF Heard(s, r) THEN 0 ELSE s.age[r]
    BY <2>2, <2>4 DEF Older
  <2>6. t.seen = Elements(t.recent)
    BY <2>1, <2>2, <2>3
  <2>7. ASSUME NEW x \in t.live PROVE x \in Written /\ date[x] >= load
    BY <2>2, <2>7 DEF LoopOK
  <2>8. \A x \in Elements(t.recent) \ Elements(recent) : date[x] >= load => x \in t.live
    BY <2>2, <2>3 DEF LoopOK, E
  <2>9. s.age[r] < Capacity => ~(crashes = 0 \/ during[r] = load)
    <3> SUFFICES ASSUME s.age[r] < Capacity, crashes = 0 \/ during[r] = load PROVE FALSE
      OBVIOUS
    <3>1. Keeps(s.recent, r, s.age[r])
      BY DEF LoopOK
    <3> QED BY <2>1, <3>1 DEF Keeps, Elements, E
  <2>10. t.again \subseteq Written /\ \A x \in t.again : crashes > 0 /\ ~NotAhead(x)
    <3>1. CASE Heard(s, r) /\ s.age[r] < Capacity
      <4>1. date[r] \in Nat /\ during[r] \in Nat /\ load \in Nat /\ crashes \in Nat
        BY <2>1, DatesOK, BoundsAssumption DEF IInv, InstanceOK
      <4>2. during[r] <= load /\ date[r] >= load
        BY <2>1, <3>1 DEF LogOK, Heard, IsLive
      <4>3. crashes > 0 /\ ~NotAhead(r)
        BY <2>9, <3>1, <4>1, <4>2 DEF NotAhead
      <4> QED BY <2>2, <3>1, <4>3 DEF LoopOK
    <3>2. CASE ~(Heard(s, r) /\ s.age[r] < Capacity)
      BY <2>2, <3>2 DEF LoopOK
    <3> QED BY <3>1, <3>2
  <2>11. \A x \in Records \ Written : t.age[x] = Capacity
    <3> SUFFICES ASSUME NEW x \in Records \ Written PROVE t.age[x] = Capacity
      OBVIOUS
    <3>1. x # r /\ s.age[x] = Capacity
      BY DEF LoopOK
    <3> QED BY <2>4, <2>5, <3>1 DEF Older
  <2>12. ASSUME phase # "up", NEW x \in Records PROVE age[x] <= t.age[x]
    <3>1. age[x] <= s.age[x] /\ ~Heard(s, r)
      BY <2>12 DEF LoopOK, Heard
    <3> QED BY <2>4, <2>5, <3>1 DEF Older
  <2>13. ASSUME NEW x \in Written, t.age[x] < Capacity, crashes = 0 \/ during[x] = load
         PROVE  Keeps(t.recent, x, t.age[x])
    <3>1. CASE x = r
      <4>1. t.age[r] \in Nat /\ 0 <= t.age[r]
        BY <2>4, <2>5
      <4> QED BY <2>3, <2>4, <3>1, <4>1, KeepsMore
    <3>2. CASE x # r
      <4>1. s.age[x] \in Nat /\ s.age[x] < Capacity /\ t.age[x] = s.age[x] + 1
        BY <2>4, <2>5, <2>13, <3>2 DEF Older
      <4>2. Keeps(s.recent, x, s.age[x])
        BY <2>13, <4>1 DEF LoopOK
      <4> QED BY <2>3, <2>13, <4>1, <4>2
    <3> QED BY <3>1, <3>2
  <2>14. t.changed \in BOOLEAN /\ t.changed
    BY <2>2
  <2>15. LoopOK(t)
    BY <2>3, <2>5, <2>6, <2>7, <2>8, <2>10, <2>11, <2>12, <2>13, <2>14 DEF LoopOK
  <2> QED BY <2>15 DEF t
<1> QED BY <1>1, <1>2

(* So it holds after the page: a least record after which it did not would  *)
(* not be the first.                                                        *)
LEMMA ClassifiedOK ==
    ASSUME IInv, NEW page \in Pages
    PROVE  LoopOK(Classified(page))
<1> DEFINE n == Len(page)
           P == Progress(page)
           T == {k \in 0 .. n : ~LoopOK(P[k])}
<1>1. n \in Nat /\ \A i \in 1 .. n : page[i] \in Written
  <2>1. PICK m \in 0 .. PageSize : page \in [1 .. m -> Written]
    BY DEF Pages
  <2>2. n = m
    BY <2>1, BoundsAssumption
  <2> QED BY <2>1, <2>2, BoundsAssumption
<1>2. P[0] = Start /\ \A i \in 1 .. n : P[i] = Noting(P[i - 1], page[i])
  BY <1>1, ProgressSteps
<1> HIDE DEF P
<1>3. LoopOK(P[0])
  BY <1>2, LoopStarts
<1>4. CASE T # {}
  <2>1. PICK k \in T : \A j \in T : k <= j
    <3>1. T \subseteq Nat
      BY <1>1
    <3> QED BY <1>4, <3>1, LeastNatural
  <2>2. k \in 1 .. n /\ k - 1 \in 0 .. n /\ ~(k <= k - 1)
    BY <1>1, <1>3, <2>1
  <2>3. LoopOK(P[k - 1])
    BY <2>1, <2>2
  <2>4. LoopOK(Noting(P[k - 1], page[k]))
    BY <1>1, <2>2, <2>3, LoopKeeps
  <2> QED BY <1>2, <2>1, <2>2, <2>4
<1>5. CASE T = {}
  <2>1. n \in 0 .. n
    BY <1>1
  <2> QED BY <1>5, <2>1 DEF Classified, P
<1> QED BY <1>4, <1>5

-----------------------------------------------------------------------------
(* A page becomes events.                                                   *)
LEMMA FetchKeeps == ASSUME IInv, NEW page \in Pages, Fetch(page) PROVE IInv'
<1> DEFINE s == Classified(page)
<1>1. LoopOK(s)
  BY ClassifiedOK
<1>2. /\ recent' = s.recent /\ seen' = s.seen /\ age' = s.age /\ again' = s.again
      /\ dirty' = (dirty \/ s.changed)
      /\ fired' = IF phase = "up" THEN fired \cup s.live ELSE fired
      /\ unheard' = IF phase = "up" THEN unheard ELSE unheard \cup s.live
      /\ UNCHANGED <<disk, late, phase, load, crashes, date, during>>
  BY DEF Fetch, lockVars
<1> HIDE DEF s
<1>3. LogOK'
  BY <1>2 DEF IInv, LogOK, Written
<1>4. JournalsOK'
  <2>1. \A j : JournalOK(j) => JournalOK(j)'
    BY <1>2 DEF JournalOK, Written
  <2>2. JournalOK(s.recent) /\ JournalOK(disk) /\ \A j \in late : JournalOK(j)
    BY <1>1 DEF IInv, JournalsOK, LoopOK
  <2>3. seen' = Elements(recent)'
    BY <1>1, <1>2 DEF LoopOK, Elements
  <2>4. recent' = s.recent /\ disk' = disk /\ late' = late
    BY <1>2
  <2>5. JournalOK(recent)' /\ JournalOK(disk)'
    BY <2>1, <2>2, <2>4 DEF JournalOK, Written
  <2> QED BY <2>1, <2>2, <2>3, <2>4, <2>5 DEF JournalsOK
<1>5. InstanceOK'
  <2>1. dirty' \in BOOLEAN
    BY <1>1, <1>2 DEF IInv, InstanceOK, LoopOK
  <2> QED BY <1>2, <2>1 DEF IInv, InstanceOK
<1>6. Written \subseteq Records
  BY BoundsAssumption DEF IInv, LogOK, Written, Records
<1>7. FiredOK'
  <2>1. fired' \subseteq Written /\ unheard' \subseteq Records /\ again' \subseteq Written
    BY <1>1, <1>2, <1>6 DEF IInv, FiredOK, LoopOK
  <2>2. Written' = Written /\ (OnceOnly' <=> \A r \in s.again : crashes > 0 /\ ~NotAhead(r))
    BY <1>2 DEF Written, OnceOnly, NotAhead
  <2>3. HistoryStaysQuiet'
    <3> SUFFICES ASSUME NEW r \in fired', NotAhead(r) PROVE during[r] = load
      BY <1>2 DEF HistoryStaysQuiet, NotAhead
    <3>1. CASE r \in fired
      BY <3>1 DEF IInv, FiredOK, HistoryStaysQuiet
    <3>2. CASE r \in s.live
      <4>1. r \in Written /\ date[r] >= load
        BY <1>1, <3>2 DEF LoopOK
      <4>2. date[r] \in Nat /\ during[r] \in Nat /\ load \in Nat /\ during[r] <= load
        BY <4>1, DatesOK, BoundsAssumption DEF IInv, InstanceOK, LogOK
      <4> QED BY <4>1, <4>2 DEF NotAhead
    <3> QED BY <1>2, <3>1, <3>2
  <2>4. \A r \in Written :
            s.age[r] < Capacity /\ (crashes = 0 \/ during[r] = load) =>
                Keeps(recent, r, age[r])'
    BY <1>1, <1>2 DEF LoopOK, Keeps
  <2> QED BY <1>1, <1>2, <2>1, <2>2, <2>3, <2>4 DEF FiredOK, LoopOK
<1>8. StoredOK'
  <2>1. ASSUME NEW j, Len(j) \in Nat, Covers(j), ~dirty' \/ phase = "saved"
        PROVE  Covers(j)'
    <3>1. \A r \in Written : age[r] \in Nat /\ s.age[r] \in Nat /\ age[r] <= s.age[r]
      <4>1. \A r \in Records : age[r] \in Nat /\ s.age[r] \in Nat
        BY <1>1, CapacityAssumption DEF IInv, FiredOK, LoopOK
      <4>2. \A r \in Records : age[r] <= s.age[r]
        BY <1>1, <1>2, <2>1, <4>1 DEF LoopOK
      <4> QED BY <1>6, <4>1, <4>2
    <3> SUFFICES ASSUME NEW r \in Written, s.age[r] < Capacity PROVE Keeps(j, r, s.age[r])
      BY <1>2 DEF Covers, Written, Keeps
    <3>2. age[r] < Capacity
      BY <3>1, CapacityAssumption
    <3>3. Keeps(j, r, age[r])
      BY <2>1, <3>2 DEF Covers
    <3> QED BY <2>1, <3>1, <3>3, KeepsMore
  <2>2. Len(disk) \in Nat /\ \A j \in late : Len(j) \in Nat
    BY DEF IInv, JournalsOK, JournalOK
  <2>3. ~dirty' => ~dirty
    BY <1>2
  <2> QED BY <1>2, <2>1, <2>2, <2>3 DEF IInv, StoredOK
<1>9. NothingSwallowed'
  <2> SUFFICES ASSUME phase \in {"starting", "up"}, NEW r \in Elements(s.recent),
                      during[r] = load, date[r] >= load
               PROVE  r \in fired' \cup unheard'
    BY <1>2 DEF NothingSwallowed, Elements
  <2>1. CASE r \in Elements(recent)
    BY <1>2, <2>1 DEF IInv, NothingSwallowed
  <2>2. CASE r \notin Elements(recent)
    BY <1>1, <1>2, <2>2 DEF LoopOK
  <2> QED BY <2>1, <2>2
<1> QED BY <1>3, <1>4, <1>5, <1>7, <1>9, <1>8 DEF IInv

(* The lock writes a record: nothing of it is known yet.                    *)
LEMMA WriteKeeps ==
    ASSUME IInv, NEW d \in 0 .. MaxLoads + Ahead, WriteRecord(d) PROVE IInv'
<1> DEFINE n == Len(date)
<1>1. /\ n < MaxRecords
      /\ d = 0 \/ d \in load .. load + Ahead
      /\ date' = Append(date, d) /\ during' = Append(during, load)
      /\ UNCHANGED <<recent, seen, dirty, disk, late, phase, load, crashes, fired, unheard,
                     age, again>>
  BY DEF WriteRecord, historyVars, eventVars
<1>2. n \in Nat /\ load \in 1 .. MaxLoads /\ Len(during) = n
  BY DEF IInv, LogOK, InstanceOK
<1>3. /\ date' \in Seq(0 .. MaxLoads + Ahead) /\ Len(date') = n + 1
      /\ during' \in Seq(1 .. MaxLoads) /\ Len(during') = n + 1
      /\ \A r \in 1 .. n : date'[r] = date[r] /\ during'[r] = during[r]
      /\ date'[n + 1] = d /\ during'[n + 1] = load
  BY <1>1, <1>2 DEF IInv, LogOK
<1>4. Written' = 1 .. n + 1 /\ Written = 1 .. n /\ Written \subseteq Written'
  BY <1>2, <1>3 DEF Written
<1>5. LogOK'
  <2>1. \A r \in Written' : during'[r] <= load
    <3> SUFFICES ASSUME NEW r \in Written'
                 PROVE  during'[r] <= load
      OBVIOUS
    <3>1. CASE r \in Written
      BY <1>3, <1>4, <3>1 DEF IInv, LogOK
    <3>2. CASE r = n + 1
      BY <1>1, <1>2, <1>3, <3>2, BoundsAssumption
    <3> QED BY <1>2, <1>4, <3>1, <3>2
  <2>2. MaxLoads \in Nat /\ MaxRecords \in Nat /\ Ahead \in Nat
    BY BoundsAssumption
  <2>3. Len(date') <= MaxRecords
    BY <1>1, <1>2, <1>3, <2>2
  <2> QED BY <1>1, <1>2, <1>3, <2>1, <2>3 DEF LogOK
<1>6. \A j : JournalOK(j) => JournalOK(j)'
  <2> SUFFICES ASSUME NEW j, j \in Seq(Written) PROVE j \in Seq(Written')
    BY DEF JournalOK
  <2> QED BY <1>4
<1>7. JournalsOK'
  BY <1>1, <1>6 DEF IInv, JournalsOK, Elements
<1>8. /\ \A r \in Written : (NotAhead(r)' <=> NotAhead(r)) /\ during'[r] = during[r]
      /\ Written' \subseteq Records /\ \A r \in Records \ Written : age[r] = Capacity
  <2>1. \A r \in Written : (NotAhead(r)' <=> NotAhead(r)) /\ during'[r] = during[r]
    BY <1>3, <1>4 DEF NotAhead
  <2>2. Written' \subseteq Records
    BY <1>1, <1>2, <1>4, BoundsAssumption DEF Records
  <2> QED BY <2>1, <2>2 DEF IInv, FiredOK
<1>9. FiredOK'
  <2>1. /\ fired' = fired /\ unheard' = unheard /\ age' = age /\ again' = again
        /\ recent' = recent /\ crashes' = crashes /\ load' = load
    BY <1>1
  <2>2. OnceOnly' /\ HistoryStaysQuiet'
    BY <1>8, <2>1 DEF IInv, FiredOK, OnceOnly, HistoryStaysQuiet
  <2>3. ASSUME NEW r \in Written', age[r] < Capacity, crashes = 0 \/ during'[r] = load
        PROVE  Keeps(recent, r, age[r])
    <3>1. r \in Written
      BY <1>8, <2>3, CapacityAssumption
    <3> QED BY <1>8, <2>3, <3>1 DEF IInv, FiredOK
  <2>4. \A r \in Written' :
            age'[r] < Capacity /\ (crashes' = 0 \/ during'[r] = load') =>
                Keeps(recent, r, age[r])'
    BY <2>1, <2>3 DEF Keeps
  <2>5. /\ fired \subseteq Written' /\ unheard \subseteq Records /\ again \subseteq Written'
        /\ age \in [Records -> 0 .. Capacity]
        /\ \A r \in Records \ Written' : age[r] = Capacity
    BY <1>4 DEF IInv, FiredOK
  <2> QED BY <2>1, <2>2, <2>4, <2>5 DEF FiredOK
<1>10. StoredOK'
  <2>1. \A j : Covers(j) => Covers(j)'
    <3> SUFFICES ASSUME NEW j, Covers(j), NEW r \in Written', age[r] < Capacity
                 PROVE  Keeps(j, r, age[r])
      BY <1>1 DEF Covers, Keeps
    <3>1. r \in Written
      BY <1>8, CapacityAssumption
    <3> QED BY <3>1 DEF Covers
  <2> QED BY <1>1, <2>1 DEF IInv, StoredOK
<1>11. NothingSwallowed'
  <2> SUFFICES ASSUME phase \in {"starting", "up"}, NEW r \in Elements(recent),
                      during'[r] = load, date'[r] >= load
               PROVE  r \in fired \cup unheard
    BY <1>1 DEF NothingSwallowed, Elements
  <2>1. r \in Written
    BY DEF IInv, JournalsOK, JournalOK, Elements
  <2> QED BY <1>3, <1>4, <2>1 DEF IInv, NothingSwallowed
<1>12. InstanceOK'
  BY <1>1 DEF IInv, InstanceOK
<1> QED BY <1>5, <1>7, <1>11, <1>12, <1>9, <1>10 DEF IInv

(* A save writes a journal there is; set-up and unload send no event.       *)
LEMMA SaveKeeps ==
    ASSUME IInv, DelayedSave \/ LateSave \/ EntitiesListen \/ Unload \/ SaveOnUnload
    PROVE  IInv'
<1>1. /\ dirty' \in BOOLEAN /\ phase' \in {"starting", "up", "unloading", "saved"}
      /\ phase' \in {"starting", "up"} => phase \in {"starting", "up"}
      /\ disk' \in {disk, recent} \cup late /\ late' \subseteq late
      /\ UNCHANGED <<recent, seen, load, crashes, date, during, fired, unheard, age, again>>
  BY DEF DelayedSave, LateSave, EntitiesListen, Unload, SaveOnUnload, historyVars, lockVars,
         eventVars, IInv, InstanceOK
<1>2. LogOK' /\ InstanceOK' /\ FiredOK'
  <2>1. LogOK' /\ InstanceOK'
    BY <1>1 DEF IInv, LogOK, InstanceOK, Written
  <2>2. FiredOK'
    BY <1>1 DEF IInv, FiredOK, Written, NotAhead, OnceOnly, HistoryStaysQuiet, Keeps
  <2> QED BY <2>1, <2>2
<1>3. \A j : JournalOK(j) => JournalOK(j)'
  BY <1>1 DEF JournalOK, Written
<1>4. JournalsOK'
  BY <1>1, <1>3 DEF IInv, JournalsOK, Elements
<1>5. NothingSwallowed'
  BY <1>1 DEF IInv, NothingSwallowed, Elements
<1>6. StoredOK'
  <2>1. \A j : Covers(j)' <=> Covers(j)
    BY <1>1 DEF Covers, Written, Keeps
  <2>2. crashes = 0 => Covers(recent)
    BY DEF IInv, FiredOK, Covers
  <2>3. CASE DelayedSave
    BY <2>1, <2>2, <2>3 DEF DelayedSave, IInv, StoredOK
  <2>4. CASE LateSave
    <3>1. PICK j \in late : disk' = j /\ late' = late \ {j}
      BY <2>4 DEF LateSave
    <3>2. dirty' = dirty /\ phase' = phase /\ crashes' = crashes
      BY <2>4 DEF LateSave, historyVars
    <3> QED BY <2>1, <3>1, <3>2 DEF IInv, StoredOK
  <2>5. CASE Unload
    BY <2>1, <2>5 DEF Unload, historyVars, IInv, StoredOK
  <2>6. CASE SaveOnUnload
    BY <2>1, <2>2, <2>6 DEF SaveOnUnload, IInv, StoredOK
  <2>7. CASE EntitiesListen
    BY <2>1, <2>7 DEF EntitiesListen, historyVars, IInv, StoredOK
  <2> QED BY <2>3, <2>4, <2>5, <2>6, <2>7
<1> QED BY <1>2, <1>4, <1>5, <1>6 DEF IInv

(* The next instance loads a journal: what it has of records is older.      *)
LEMMA LoadKeeps == ASSUME IInv, Reload \/ Restart \/ Crash PROVE IInv'
<1>1. /\ load < MaxLoads /\ load' = load + 1 /\ phase' = "starting" /\ dirty' = FALSE
      /\ recent' = disk' /\ seen' = Elements(disk')
      /\ disk' \in {disk, recent} /\ late' \subseteq late \cup {recent}
      /\ fired' = {} /\ unheard' = {}
      /\ UNCHANGED <<date, during, age, again>>
  BY DEF Reload, Restart, Crash, Load, lockVars
<1>2. crashes' \in 0 .. MaxCrashes
  BY BoundsAssumption DEF Reload, Restart, Crash, IInv, InstanceOK
<1>3. load \in 1 .. MaxLoads /\ \A r \in Written : during[r] \in Nat /\ during[r] < load'
  <2>1. load \in 1 .. MaxLoads /\ \A r \in Written : during[r] <= load
    BY DEF IInv, InstanceOK, LogOK
  <2>2. \A r \in Written : during[r] \in Nat
    <3>1. during \in Seq(1 .. MaxLoads) /\ Written = 1 .. Len(during)
      BY DEF IInv, LogOK, Written
    <3> QED BY <3>1, BoundsAssumption
  <2> QED BY <1>1, <2>1, <2>2, BoundsAssumption
<1>4. InstanceOK'
  <2>1. dirty' \in BOOLEAN
    BY <1>1
  <2>2. load' \in 1 .. MaxLoads
    BY <1>1, <1>3, BoundsAssumption
  <2> QED BY <1>1, <1>2, <2>1, <2>2 DEF InstanceOK
<1>5. LogOK'
  <2>1. \A r \in Written : during[r] <= load'
    BY <1>1, <1>3, BoundsAssumption DEF IInv, LogOK
  <2> QED BY <1>1, <2>1 DEF IInv, LogOK, Written
<1>6. \A j : JournalOK(j) => JournalOK(j)'
  BY <1>1 DEF JournalOK, Written
<1>7. JournalsOK'
  BY <1>1, <1>6 DEF IInv, JournalsOK, Elements
<1>8. crashes' = 0 => crashes = 0 /\ Covers(disk') /\ \A j \in late' : Covers(j)
  <2>1. crashes = 0 => Covers(recent)
    BY DEF IInv, FiredOK, Covers
  <2>2. CASE Crash
    BY <2>2 DEF Crash, IInv, InstanceOK
  <2>3. CASE Reload
    BY <2>1, <2>3 DEF Reload, IInv, StoredOK
  <2>4. CASE Restart
    BY <2>1, <2>4 DEF Restart, IInv, StoredOK
  <2> QED BY <2>2, <2>3, <2>4
<1>9. FiredOK'
  <2>1. \A r \in Written : during[r] # load'
    BY <1>1, <1>3, BoundsAssumption
  <2>2. Written' = Written
    BY <1>1 DEF Written
  <2>3. crashes \in Nat /\ (crashes > 0 => crashes' > 0)
    <3>1. crashes \in Nat
      BY BoundsAssumption DEF IInv, InstanceOK
    <3> QED BY <3>1 DEF Reload, Restart, Crash
  <2>4. OnceOnly' /\ HistoryStaysQuiet'
    BY <1>1, <2>3 DEF IInv, FiredOK, OnceOnly, HistoryStaysQuiet, NotAhead
  <2>5. \A r \in Written :
            age[r] < Capacity /\ (crashes' = 0 \/ during[r] = load') => Keeps(disk', r, age[r])
    BY <1>8, <2>1 DEF Covers
  <2>6. \A r \in Written' :
            age'[r] < Capacity /\ (crashes' = 0 \/ during'[r] = load') =>
                Keeps(recent, r, age[r])'
    BY <1>1, <2>2, <2>5 DEF Keeps
  <2> QED BY <1>1, <2>2, <2>4, <2>6 DEF IInv, FiredOK
<1>10. StoredOK'
  <2>1. \A j : Covers(j)' <=> Covers(j)
    BY <1>1 DEF Covers, Written, Keeps
  <2> QED BY <1>1, <1>8, <2>1 DEF StoredOK
<1>11. NothingSwallowed'
  <2> SUFFICES ASSUME NEW r \in Elements(recent'), during[r] = load' PROVE FALSE
    BY <1>1 DEF NothingSwallowed, Elements
  <2>1. JournalOK(recent')
    BY <1>1 DEF IInv, JournalsOK
  <2>2. r \in Written
    BY <2>1 DEF JournalOK, Elements
  <2> QED BY <1>1, <1>3, <2>2, BoundsAssumption
<1> QED BY <1>4, <1>5, <1>7, <1>9, <1>11, <1>10 DEF IInv

-----------------------------------------------------------------------------
(* At first the journals and the log are empty.                             *)
LEMMA InitKeeps == Init => IInv
<1> SUFFICES ASSUME Init PROVE IInv
  OBVIOUS
<1> USE BoundsAssumption, CapacityAssumption DEF Init
<1>1. Written = {} /\ Elements(<<>>) = {}
  BY DEF Written, Elements
<1>2. JournalOK(<<>>)
  BY DEF JournalOK
<1>3. LogOK
  BY <1>1 DEF LogOK
<1>4. InstanceOK
  <2>1. dirty \in BOOLEAN
    OBVIOUS
  <2> QED BY <2>1 DEF InstanceOK
<1>5. FiredOK
  <2>1. age \in [Records -> 0 .. Capacity] /\ \A r \in Records : age[r] = Capacity
    OBVIOUS
  <2> QED BY <1>1, <2>1 DEF FiredOK, OnceOnly, HistoryStaysQuiet
<1>6. StoredOK
  BY <1>1 DEF StoredOK, Covers
<1> QED BY <1>1, <1>2, <1>3, <1>4, <1>5, <1>6 DEF IInv, JournalsOK, NothingSwallowed

(* Every step keeps the invariant.                                          *)
LEMMA NextKeeps == ASSUME IInv, [Next]_vars PROVE IInv'
<1>1. CASE UNCHANGED vars
  <2>1. LogOK' /\ InstanceOK' /\ FiredOK'
    BY <1>1 DEF vars, historyVars, lockVars, eventVars, IInv, LogOK, InstanceOK, FiredOK, Written,
                NotAhead, OnceOnly, HistoryStaysQuiet, Keeps
  <2>2. StoredOK'
    <3>1. \A j : Covers(j)' <=> Covers(j)
      BY <1>1 DEF vars, lockVars, eventVars, Covers, Written, Keeps
    <3> QED BY <1>1, <3>1 DEF vars, historyVars, IInv, StoredOK
  <2>3. \A j : JournalOK(j) => JournalOK(j)'
    BY <1>1 DEF vars, lockVars, JournalOK, Written
  <2>4. JournalsOK' /\ NothingSwallowed'
    BY <1>1, <2>3 DEF vars, historyVars, lockVars, eventVars, IInv, JournalsOK, NothingSwallowed,
                Elements
  <2> QED BY <2>1, <2>4, <2>2 DEF IInv
<1> QED BY <1>1, WriteKeeps, FetchKeeps, SaveKeeps, LoadKeeps DEF Next

(* The invariant the theorems below are read off from.                      *)
LEMMA Invariance == Spec => []IInv
<1>1. Init => IInv
  BY InitKeeps
<1>2. IInv /\ [Next]_vars => IInv'
  BY NextKeeps
<1> QED BY <1>1, <1>2, PTL DEF Spec

-----------------------------------------------------------------------------
(* The journal never outgrows its capacity, in memory, in the store or in a *)
(* save still to come.                                                      *)
THEOREM TypeCorrect == Spec => []TypeOK
<1>1. ASSUME IInv PROVE TypeOK
  <2>1. Written \subseteq Records
    BY <1>1, BoundsAssumption DEF IInv, LogOK, Written, Records
  <2>2. \A j : JournalOK(j) => j \in Journals /\ Elements(j) \subseteq Records
    <3> SUFFICES ASSUME NEW j, JournalOK(j)
                 PROVE  j \in Journals /\ Elements(j) \subseteq Records
      OBVIOUS
    <3>1. j \in Seq(Records) /\ Len(j) \in 0 .. Capacity
      BY <2>1, CapacityAssumption DEF JournalOK
    <3>2. j \in [1 .. Len(j) -> Records]
      BY <3>1
    <3> QED BY <3>1, <3>2 DEF Journals, Elements
  <2>3. \A r \in Written : date[r] \in 0 .. MaxLoads + Ahead /\ during[r] \in 1 .. MaxLoads
    BY <1>1, DatesOK DEF IInv
  <2>4. /\ recent \in Journals /\ disk \in Journals /\ late \subseteq Journals
        /\ seen \subseteq Records
    BY <1>1, <2>2 DEF IInv, JournalsOK
  <2>5. /\ fired \subseteq Records /\ unheard \subseteq Records
        /\ age \in [Records -> 0 .. Capacity] /\ again \subseteq Records
    BY <1>1, <2>1 DEF IInv, FiredOK
  <2>6. Len(date) <= MaxRecords /\ Len(during) = Len(date)
    BY <1>1 DEF IInv, LogOK
  <2>7. /\ dirty \in BOOLEAN
        /\ phase \in {"starting", "up", "unloading", "saved"}
        /\ load \in 1 .. MaxLoads /\ crashes \in 0 .. MaxCrashes
    BY <1>1 DEF IInv, InstanceOK
  <2> QED BY <2>3, <2>4, <2>5, <2>6, <2>7 DEF TypeOK
<1> QED BY <1>1, Invariance, PTL

(* The deque and the set evict the same identity.                           *)
THEOREM SetAndDequeAgree == Spec => []JournalAgrees
<1>1. ASSUME IInv PROVE JournalAgrees
  <2>1. /\ recent \in Seq(Written) /\ Len(recent) \in Nat
        /\ \A p, q \in 1 .. Len(recent) : p < q => recent[p] # recent[q]
    BY <1>1 DEF IInv, JournalsOK, JournalOK
  <2>2. ASSUME NEW p \in DOMAIN recent, NEW q \in DOMAIN recent, recent[p] = recent[q]
        PROVE  p = q
    <3>1. p \in 1 .. Len(recent) /\ q \in 1 .. Len(recent)
      BY <2>1
    <3> QED BY <2>1, <2>2, <3>1
  <2> QED BY <1>1, <2>2 DEF IInv, JournalsOK, JournalAgrees
<1> QED BY <1>1, Invariance, PTL

(* A record becomes an event again only after Capacity others have been     *)
(* journalled, unless its date is ahead and a kill lost the journal.        *)
THEOREM OneEventEach == Spec => []OnceOnly
<1>1. IInv => OnceOnly
  BY DEF IInv, FiredOK
<1> QED BY <1>1, Invariance, PTL

(* No record of this load with a date to prove it is journalled unheard.    *)
THEOREM NoneSwallowed == Spec => []NothingSwallowed
<1>1. IInv => NothingSwallowed
  BY DEF IInv
<1> QED BY <1>1, Invariance, PTL

(* What was there before the load does not fire in it, unless dated ahead.  *)
THEOREM HistoryIsQuiet == Spec => []HistoryStaysQuiet
<1>1. IInv => HistoryStaysQuiet
  BY DEF IInv, FiredOK
<1> QED BY <1>1, Invariance, PTL
=============================================================================
