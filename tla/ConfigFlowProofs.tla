---------------------------- MODULE ConfigFlowProofs ----------------------------
(***************************************************************************)
(* For any number of accounts, locks, entries and flows: whatever flows    *)
(* run side by side, a lock is in one entry only, an entry is found under  *)
(* what it holds, and no flow replaces another's entry or repoints it.     *)
(***************************************************************************)
EXTENDS ConfigFlow, TLAPS

(* FlowTypeOK, for the state r of one flow.                                 *)
WellFormed(r) ==
    /\ r \in FlowState
    /\ r.step \in Requests => r.account # None
    /\ r.step \in CloudRequests => r.uid # None
    /\ r.closed => r.step \in EditRequests

(* The unique id a flow holds is that of the account it asked for last, and *)
(* a flow that is over has left nothing behind.                             *)
UidIsTheAccounts(r) ==
    /\ r.uid # None => r.account # None /\ r.uid = Slug[r.account]
    /\ r.step = "idle" => r = Idle

(* From the first request to the entry, waiting for a code included, the    *)
(* unique id of the account to be added stays free.                         *)
UidStaysFree(r) ==
    r.step \in CloudRequests \cup {"verify"} =>
        r.uid # None /\ ~UidConfigured(r.uid)

(* A flow that edits an entry edits one that is there, in the way it was    *)
(* made, and asks for the account of that entry.                            *)
EditsItsEntry(r) ==
    r.entry # None =>
        /\ r.entry \in Configured
        /\ r.step \in {"key", "credentials"} \cup EditRequests
        /\ (r.step = "key") <=> (entries[r.entry].account = None)
        /\ r.step \in EditRequests => entries[r.entry].uid = Slug[r.account]

BlamesTheCloudsAnswer(r) ==
    r.error \in {"auth", "invalid_code"} => r.answer \in {"errcode", "status401"}

FlowOK(r) == WellFormed(r) /\ UidIsTheAccounts(r) /\ UidStaysFree(r)
                 /\ EditsItsEntry(r) /\ BlamesTheCloudsAnswer(r)

(* No two flows hold the same unique id.                                    *)
OneHolder ==
    \A f, g \in Flows : f # g /\ flow[f].uid # None => flow[f].uid # flow[g].uid

FlowsOK ==
    /\ flow \in [Flows -> FlowState]
    /\ \A f \in Flows : FlowOK(flow[f])
    /\ OneHolder

EntriesOK == EntriesTypeOK /\ NoLockTwice /\ IdentityFollowsData

IInv == FlowsOK /\ EntriesOK

-----------------------------------------------------------------------------
(* A flow's state stays one when a form, with its answer and error, is shown. *)
LEMMA FieldsKept ==
    ASSUME NEW s \in FlowState, NEW form \in {"idle"} \cup Forms \cup Requests,
           NEW answer \in Answers \cup {"none"}, NEW error \in Errors
    PROVE  [s EXCEPT !.step = form, !.answer = answer, !.error = error] \in FlowState
<1> DEFINE p == [s EXCEPT !.step = form]
           q == [p EXCEPT !.answer = answer]
<1>1. p \in FlowState
  BY SMTT(20) DEF FlowState
<1>2. [s EXCEPT !.step = form, !.answer = answer, !.error = error]
          = [q EXCEPT !.error = error]
  OBVIOUS
<1> HIDE DEF p
<1>3. q \in FlowState
  BY <1>1, SMTT(20) DEF FlowState
<1> HIDE DEF q
<1>4. [q EXCEPT !.error = error] \in FlowState
  BY <1>3, SMTT(20) DEF FlowState
<1> QED BY <1>2, <1>4

(* Only one flow moves and no entry changes: its new state decides.         *)
LEMMA FlowStep ==
    ASSUME IInv, NEW f \in Flows, NEW r, FlowOK(r), UNCHANGED entries,
           flow' = [flow EXCEPT ![f] = r],
           r.uid # None => \A g \in Flows \ {f} : flow[g].uid # r.uid
    PROVE  IInv'
<1> USE DEF IInv, FlowsOK, EntriesOK
<1>1. EntriesOK'
  BY DEF EntriesTypeOK, NoLockTwice, IdentityFollowsData, Configured
<1>3. r \in FlowState
  BY DEF FlowOK, WellFormed
<1>4. flow' \in [Flows -> FlowState]
  BY <1>3
<1>5. \A g \in Flows : flow'[g] = IF g = f THEN r ELSE flow[g]
  OBVIOUS
<1>6. (\A g \in Flows : FlowOK(flow[g]))'
  BY <1>5 DEF FlowOK, WellFormed, UidIsTheAccounts, UidStaysFree, EditsItsEntry,
         BlamesTheCloudsAnswer, UidConfigured, Configured
<1>7. OneHolder'
  BY <1>5 DEF OneHolder
<1> QED BY <1>1, <1>4, <1>6, <1>7

(* The initial state of a flow is one it can be in.                         *)
LEMMA IdleOK ==
    /\ FlowOK(Idle) /\ Idle \in FlowState
    /\ Idle.uid = None /\ Idle.entry = None /\ Idle.error = "none" /\ ~Idle.closed
BY DataAssumption DEF Idle, FlowOK, WellFormed, FlowState, UidIsTheAccounts, UidStaysFree,
       EditsItsEntry, BlamesTheCloudsAnswer, Requests, CloudRequests, EditRequests, Forms,
       Answers, Errors

(* So is that of a dialog just opened.                                      *)
LEMMA OpenedOK ==
    ASSUME NEW form \in {"cloud", "manual", "key", "credentials"},
           NEW e \in Slots \cup {None}, NEW r \in FlowState,
           r.step = form, r.entry = e, r.uid = None, ~r.closed, r.error = "none",
           e # None => /\ e \in Configured
                       /\ form \in {"key", "credentials"}
                       /\ (form = "key") <=> (entries[e].account = None)
    PROVE  FlowOK(r)
BY DataAssumption DEF FlowOK, WellFormed, FlowState, UidIsTheAccounts, UidStaysFree,
       EditsItsEntry, BlamesTheCloudsAnswer, Requests, CloudRequests, EditRequests, Forms,
       Answers, Errors

(* A flow that ends without an entry.                                       *)
LEMMA EndKeeps ==
    ASSUME IInv, NEW f \in Flows, End(f), UNCHANGED entries
    PROVE  IInv'
BY FlowStep, IdleOK DEF End

(* A request that ends in a form: the one that was submitted, or the next.  *)
LEMMA ShowKeeps ==
    ASSUME IInv, NEW f \in Flows, NEW form \in Forms,
           NEW answer \in Answers \cup {"none"}, NEW error \in Errors,
           ShowAnswered(f, form, answer, error), UNCHANGED entries,
           form \in {"cloud", "verify"} => flow[f].step \in CloudRequests,
           form = "credentials" => flow[f].step \in EditRequests,
           form \in {"manual", "key"} => flow[f].step = form,
           error \in {"auth", "invalid_code"} => answer \in {"errcode", "status401"}
    PROVE  IInv'
<1> DEFINE r == [flow[f] EXCEPT !.step = form, !.answer = answer, !.error = error]
<1>1. CASE flow[f].closed
  BY <1>1, EndKeeps DEF ShowAnswered, End
<1>2. CASE ~flow[f].closed
  <2>1. FlowOK(flow[f]) /\ flow[f] \in FlowState
    BY DEF IInv, FlowsOK
  <2>2. r \in FlowState
    <3>1. form \in {"idle"} \cup Forms \cup Requests
      OBVIOUS
    <3> QED BY <2>1, <3>1, FieldsKept
  <2>3. /\ r.step = form /\ r.account = flow[f].account /\ r.uid = flow[f].uid
        /\ r.entry = flow[f].entry /\ r.answer = answer /\ r.error = error
        /\ r.closed = flow[f].closed
    BY <2>1 DEF FlowState
  <2> HIDE DEF r
  <2>4. FlowOK(r)
    BY <1>2, <2>1, <2>2, <2>3, SMTT(20) DEF FlowOK, WellFormed, UidIsTheAccounts, UidStaysFree,
           EditsItsEntry, BlamesTheCloudsAnswer, Requests, CloudRequests, EditRequests, Forms
  <2>5. flow' = [flow EXCEPT ![f] = r]
    BY <1>2 DEF ShowAnswered, r
  <2>6. r.uid # None => \A g \in Flows \ {f} : flow[g].uid # r.uid
    BY <2>3 DEF IInv, FlowsOK, OneHolder
  <2> QED BY <2>4, <2>5, <2>6, FlowStep
<1> QED BY <1>1, <1>2

(* A step that goes on to another request.                                  *)
LEMMA AwaitKeeps ==
    ASSUME IInv, NEW f \in Flows, NEW request \in Requests,
           Await(f, request), UNCHANGED entries,
           \/ flow[f].step \in CloudRequests \cup {"verify"} /\ request \in CloudRequests
           \/ flow[f].step \in EditRequests /\ request \in EditRequests
    PROVE  IInv'
<1> DEFINE r == [flow[f] EXCEPT !.step = request]
<1>1. FlowOK(flow[f]) /\ flow[f] \in FlowState
  BY DEF IInv, FlowsOK
<1>2. r \in FlowState
  BY <1>1, SMTT(20) DEF FlowState
<1>3. /\ r.step = request /\ r.account = flow[f].account /\ r.uid = flow[f].uid
      /\ r.entry = flow[f].entry /\ r.answer = flow[f].answer /\ r.error = flow[f].error
      /\ r.closed = flow[f].closed
  BY <1>1 DEF FlowState
<1> HIDE DEF r
<1>4. FlowOK(r)
  BY <1>1, <1>2, <1>3, SMTT(20) DEF FlowOK, WellFormed, UidIsTheAccounts, UidStaysFree,
         EditsItsEntry, BlamesTheCloudsAnswer, Requests, CloudRequests, EditRequests
<1>5. flow' = [flow EXCEPT ![f] = r]
  BY <1>1 DEF Await, r, IInv, FlowsOK
<1>6. r.uid # None => \A g \in Flows \ {f} : flow[g].uid # r.uid
  BY <1>3 DEF IInv, FlowsOK, OneHolder
<1> QED BY <1>4, <1>5, <1>6, FlowStep

(* The unique id of an account is taken, and the account asked for.         *)
LEMMA AskKeeps ==
    ASSUME IInv, NEW f \in Flows, NEW a \in Accounts, NEW request \in {"login", "editLogin"},
           flow' = [flow EXCEPT ![f].uid = Slug[a], ![f].account = a, ![f].step = request],
           UNCHANGED entries, ~flow[f].closed,
           \A g \in Flows \ {f} : flow[g].uid # Slug[a],
           IF request = "login" THEN flow[f].entry = None /\ ~UidConfigured(Slug[a])
           ELSE /\ flow[f].step = "credentials" /\ flow[f].entry # None
                /\ entries[flow[f].entry].uid = Slug[a]
    PROVE  IInv'
<1> DEFINE p == [flow[f] EXCEPT !.uid = Slug[a]]
           q == [p EXCEPT !.account = a]
           r == [q EXCEPT !.step = request]
<1>1. FlowOK(flow[f]) /\ flow[f] \in FlowState /\ flow \in [Flows -> FlowState]
  BY DEF IInv, FlowsOK
<1>2. Slug[a] \in Uids /\ Slug[a] # None /\ a # None
  BY DataAssumption DEF Uids, AccountUids
<1>3. flow' = [flow EXCEPT ![f] = r]
  BY <1>1
<1>4. p \in FlowState /\ p.entry = flow[f].entry /\ p.uid = Slug[a] /\ p.closed = flow[f].closed
      /\ p.error = flow[f].error /\ p.answer = flow[f].answer
  BY <1>1, <1>2, SMTT(20) DEF FlowState
<1> HIDE DEF p
<1>5. q \in FlowState /\ q.entry = p.entry /\ q.uid = p.uid /\ q.closed = p.closed
      /\ q.error = p.error /\ q.answer = p.answer /\ q.account = a
  BY <1>4, SMTT(20) DEF FlowState
<1> HIDE DEF q
<1>6. r \in FlowState /\ r.entry = q.entry /\ r.uid = q.uid /\ r.closed = q.closed
      /\ r.error = q.error /\ r.answer = q.answer /\ r.account = q.account
      /\ r.step = request
  BY <1>5, SMTT(20) DEF FlowState, Requests, CloudRequests, EditRequests
<1> HIDE DEF r
<1>7. FlowOK(r)
  BY <1>1, <1>2, <1>4, <1>5, <1>6, SMTT(20) DEF FlowOK, WellFormed, UidIsTheAccounts,
         UidStaysFree, EditsItsEntry, BlamesTheCloudsAnswer, Requests, CloudRequests,
         EditRequests
<1>8. r.uid = Slug[a]
  BY <1>4, <1>5, <1>6
<1>9. \A g \in Flows \ {f} : flow[g].uid # r.uid
  BY <1>8
<1> QED BY <1>3, <1>7, <1>9, FlowStep

(* Dialogs are opened, submitted with an account, and closed.               *)
LEMMA DialogKeeps ==
    ASSUME IInv, NEW f \in Flows,
           \/ \E form \in {"cloud", "manual"} : StartAdding(f, form)
           \/ \E e \in Slots : StartEditing(f, e)
           \/ \E a \in Accounts : SubmitAccount(f, a) \/ SubmitCredentials(f, a)
           \/ CloseDialog(f)
    PROVE  IInv'
<1>1. FlowOK(flow[f]) /\ flow[f] \in FlowState /\ flow \in [Flows -> FlowState]
  BY DEF IInv, FlowsOK
<1>2. flow[f].step = "idle" => flow[f] = Idle
  BY <1>1 DEF FlowOK, UidIsTheAccounts
<1>3. flow[f].step \notin EditRequests => ~flow[f].closed
  BY <1>1 DEF FlowOK, WellFormed
<1>4. ASSUME NEW form \in {"cloud", "manual"}, StartAdding(f, form) PROVE IInv'
  <2> DEFINE r == [Idle EXCEPT !.step = form]
  <2>1. flow' = [flow EXCEPT ![f] = r] /\ UNCHANGED entries
    BY <1>1, <1>2, <1>4 DEF StartAdding
  <2>2. r \in FlowState /\ r.step = form /\ r.entry = None /\ r.uid = None /\ ~r.closed
         /\ r.error = "none"
    BY IdleOK, SMTT(20) DEF FlowState, Forms
  <2> HIDE DEF r
  <2>3. FlowOK(r) /\ r.uid = None
    BY <2>2, OpenedOK
  <2> QED BY <2>1, <2>3, FlowStep
<1>5. ASSUME NEW e \in Slots, StartEditing(f, e) PROVE IInv'
  <2> DEFINE form == IF entries[e].account = None THEN "key" ELSE "credentials"
             p == [Idle EXCEPT !.entry = e]
             r == [p EXCEPT !.step = form]
  <2>1. flow' = [flow EXCEPT ![f] = r] /\ UNCHANGED entries /\ e \in Configured
    BY <1>1, <1>2, <1>5 DEF StartEditing
  <2>2. p \in FlowState /\ p.entry = e /\ p.uid = None /\ ~p.closed /\ p.error = "none"
    BY IdleOK, SMTT(20) DEF FlowState
  <2> HIDE DEF p
  <2>3. form \in {"key", "credentials"} /\ (form = "key" <=> entries[e].account = None)
    OBVIOUS
  <2> HIDE DEF form
  <2>4. r \in FlowState /\ r.step = form /\ r.entry = e /\ r.uid = None /\ ~r.closed
         /\ r.error = "none"
    BY <2>2, <2>3, SMTT(20) DEF FlowState, Forms
  <2> HIDE DEF r
  <2>5. FlowOK(r)
    BY <2>1, <2>3, <2>4, OpenedOK
  <2> QED BY <2>1, <2>4, <2>5, FlowStep
<1>6. ASSUME NEW a \in Accounts, SubmitAccount(f, a) PROVE IInv'
  <2>1. flow[f].entry = None
    BY <1>1, <1>6 DEF SubmitAccount, FlowOK, EditsItsEntry, EditRequests
  <2>2. ~flow[f].closed
    BY <1>3, <1>6 DEF SubmitAccount, EditRequests
  <2> QED BY <1>6, <2>1, <2>2, EndKeeps, AskKeeps DEF SubmitAccount, UidInProgress
<1>7. ASSUME NEW a \in Accounts, SubmitCredentials(f, a) PROVE IInv'
  <2>1. ~flow[f].closed
    BY <1>3, <1>7 DEF SubmitCredentials, EditRequests
  <2> QED BY <1>7, <2>1, EndKeeps, AskKeeps DEF SubmitCredentials, UidInProgress
<1>8. ASSUME CloseDialog(f) PROVE IInv'
  <2>1. CASE flow[f].step \notin EditRequests
    BY <1>8, <2>1, EndKeeps DEF CloseDialog, End
  <2>2. CASE flow[f].step \in EditRequests
    <3> DEFINE p == [flow[f] EXCEPT !.uid = None]
               r == [p EXCEPT !.closed = TRUE]
    <3>1. flow' = [flow EXCEPT ![f] = r] /\ UNCHANGED entries
      BY <1>1, <1>8, <2>2 DEF CloseDialog
    <3>2. p \in FlowState /\ p.entry = flow[f].entry /\ p.uid = None /\ p.step = flow[f].step
          /\ p.account = flow[f].account /\ p.error = flow[f].error
          /\ p.answer = flow[f].answer
      BY <1>1, SMTT(20) DEF FlowState
    <3> HIDE DEF p
    <3>3. r.entry = p.entry /\ r.uid = p.uid /\ r.step = p.step
          /\ r.account = p.account /\ r.error = p.error /\ r.answer = p.answer
      BY <3>2 DEF FlowState
    <3>4. r \in FlowState
      <4>1. ASSUME NEW b \in BOOLEAN PROVE [p EXCEPT !.closed = b] \in FlowState
        BY <3>2, SMTT(20) DEF FlowState
      <4> QED BY <4>1
    <3> HIDE DEF r
    <3>5. FlowOK(r)
      BY <1>1, <2>2, <3>2, <3>3, <3>4, SMTT(20) DEF FlowOK, WellFormed, UidIsTheAccounts,
             UidStaysFree, EditsItsEntry, BlamesTheCloudsAnswer, Requests, CloudRequests,
             EditRequests
    <3> QED BY <3>1, <3>2, <3>3, <3>5, FlowStep
  <2> QED BY <2>1, <2>2
<1> QED BY <1>4, <1>5, <1>6, <1>7, <1>8

-----------------------------------------------------------------------------
(* An entry is created whose unique id and whose locks are free: no other   *)
(* makes way for it.                                                        *)
LEMMA CreateKeeps ==
    ASSUME IInv, NEW f \in Flows, NEW account \in Accounts \cup {None}, NEW u \in Uids,
           NEW keys \in SUBSET Locks, Create(f, account, u, keys),
           ~UidConfigured(u), ~LocksConfigured(keys, None),
           IF account = None THEN keys = {u} ELSE u = Slug[account],
           \A g \in Flows \ {f} : flow[g].uid # u
    PROVE  IInv' /\ \A e \in Configured : entries'[e] = entries[e]
<1> USE DataAssumption DEF IInv, FlowsOK, EntriesOK, EntriesTypeOK
<1> DEFINE new == [account |-> account, uid |-> u, keys |-> keys]
<1>1. {e \in Configured : entries[e].uid = u} = {}
  BY DEF UidConfigured
<1>2. PICK slot \in Slots \ Configured :
          /\ entries' = [Without({}) EXCEPT ![slot] = new]
          /\ EndDetaching(f, {})
  BY <1>1 DEF Create
<1>3. Without({}) = entries
  BY DEF Without
<1>4. new \in Entry /\ new # None
  BY DEF Entry
<1>5. new.account = account /\ new.uid = u /\ new.keys = keys
  OBVIOUS
<1> HIDE DEF new
<1>6. entries' = [entries EXCEPT ![slot] = new] /\ entries[slot] = None
  BY <1>2, <1>3 DEF Configured
<1>7. Configured' = Configured \cup {slot} /\ \A e \in Configured : entries'[e] = entries[e]
  BY <1>4, <1>6 DEF Configured
<1>8. flow' = [flow EXCEPT ![f] = Idle]
  BY <1>2 DEF EndDetaching
<1>9. EntriesTypeOK'
  BY <1>4, <1>6
<1>10. NoLockTwice'
  BY <1>5, <1>6, <1>7 DEF NoLockTwice, LocksConfigured, Configured
<1>11. IdentityFollowsData'
  <2>1. ASSUME NEW e \in Configured PROVE entries[e].uid # u
    BY DEF UidConfigured
  <2>2. entries'[slot] = new
    BY <1>6
  <2>3. ASSUME NEW e \in Configured'
        PROVE  IF entries'[e].account = None THEN entries'[e].keys = {entries'[e].uid}
                                             ELSE entries'[e].uid = Slug[entries'[e].account]
    BY <1>5, <1>7, <2>2, <2>3 DEF IdentityFollowsData
  <2>4. ASSUME NEW e \in Configured', NEW d \in Configured' \ {e}
        PROVE  entries'[d].uid # entries'[e].uid
    BY <1>5, <1>7, <2>1, <2>2, <2>4 DEF IdentityFollowsData
  <2> QED BY <2>3, <2>4 DEF IdentityFollowsData
<1>12. FlowsOK'
  <2>1. flow' \in [Flows -> FlowState] /\ OneHolder'
    BY <1>8, IdleOK DEF OneHolder
  <2>2. ASSUME NEW g \in Flows \ {f} PROVE FlowOK(flow[g])'
    <3>1. flow'[g] = flow[g] /\ FlowOK(flow[g])
      BY <1>8
    <3>2. UidStaysFree(flow[g])'
      BY <1>5, <1>6, <1>7, <3>1 DEF FlowOK, UidStaysFree, UidConfigured
    <3>3. EditsItsEntry(flow[g])'
      BY <1>7, <3>1 DEF FlowOK, EditsItsEntry
    <3> QED BY <3>1, <3>2, <3>3 DEF FlowOK, WellFormed, UidIsTheAccounts,
                BlamesTheCloudsAnswer
  <2>3. FlowOK(flow[f])'
    <3>1. flow'[f] = Idle
      BY <1>8
    <3> QED BY <3>1, IdleOK DEF FlowOK, WellFormed, UidIsTheAccounts, UidStaysFree,
               EditsItsEntry, BlamesTheCloudsAnswer, Idle, CloudRequests
  <2> QED BY <2>1, <2>2, <2>3
<1> QED BY <1>7, <1>9, <1>10, <1>11, <1>12

(* The entry a flow edits is changed, but not in whose it is, and the flow  *)
(* ends.                                                                    *)
LEMMA EditKeeps ==
    ASSUME IInv, NEW f \in Flows, End(f), flow[f].entry # None,
           NEW new \in Entry, entries' = [entries EXCEPT ![flow[f].entry] = new],
           ~LocksConfigured(new.keys, flow[f].entry),
           IF new.account = None THEN new.keys = {new.uid} /\ new.uid \in Locks
                                 ELSE new.uid = Slug[new.account],
           new.account = None <=> entries[flow[f].entry].account = None,
           new.account # None => new.uid = entries[flow[f].entry].uid
    PROVE  IInv'
<1> USE DataAssumption DEF End, IInv, FlowsOK, EntriesOK, EntriesTypeOK
<1> DEFINE own == flow[f].entry
<1>1. own \in Configured /\ own \in Slots
  BY DEF FlowOK, EditsItsEntry, Configured
<1>2. new # None
  OBVIOUS
<1>3. entries' = [entries EXCEPT ![own] = new] /\ flow' = [flow EXCEPT ![f] = Idle]
  OBVIOUS
<1> HIDE DEF own
<1>4. Configured' = Configured /\ entries'[own] = new
          /\ \A e \in Configured \ {own} : entries'[e] = entries[e]
  BY <1>1, <1>2, <1>3 DEF Configured
<1>5. EntriesTypeOK'
  BY <1>1, <1>3
<1>6. NoLockTwice'
  BY <1>4 DEF NoLockTwice, LocksConfigured, own
<1>7. ASSUME NEW e \in Configured \ {own} PROVE entries[e].uid # new.uid
  <2>1. CASE new.account # None
    BY <1>1, <2>1 DEF IdentityFollowsData, own
  <2>2. CASE new.account = None /\ entries[e].account = None
    BY <2>2 DEF IdentityFollowsData, LocksConfigured, own
  <2>3. CASE new.account = None /\ entries[e].account # None
    <3>1. entries[e] \in Entry
      BY DEF Configured
    <3>2. entries[e].account \in Accounts
      BY <2>3, <3>1 DEF Entry
    <3> QED BY <2>3, <3>2 DEF IdentityFollowsData, AccountUids
  <2> QED BY <2>1, <2>2, <2>3
<1>8. IdentityFollowsData'
  <2>1. ASSUME NEW e \in Configured'
        PROVE  IF entries'[e].account = None THEN entries'[e].keys = {entries'[e].uid}
                                             ELSE entries'[e].uid = Slug[entries'[e].account]
    BY <1>4, <2>1 DEF IdentityFollowsData
  <2>2. ASSUME NEW e \in Configured', NEW d \in Configured' \ {e}
        PROVE  entries'[d].uid # entries'[e].uid
    BY <1>4, <1>7, <2>2 DEF IdentityFollowsData
  <2> QED BY <2>1, <2>2 DEF IdentityFollowsData
<1>9. FlowsOK'
  <2>1. flow' \in [Flows -> FlowState] /\ OneHolder'
    BY <1>3, IdleOK DEF OneHolder
  <2>2. ASSUME NEW g \in Flows \ {f} PROVE FlowOK(flow[g])'
    <3>1. flow'[g] = flow[g] /\ FlowOK(flow[g])
      BY <1>3
    <3>2. UidStaysFree(flow[g])'
      <4> SUFFICES ASSUME flow[g].step \in CloudRequests \cup {"verify"}
                   PROVE  flow[g].uid # None /\ \A e \in Configured : entries'[e].uid # flow[g].uid
        BY <1>4, <3>1 DEF UidStaysFree, UidConfigured
      <4>1. flow[g].uid # None /\ \A e \in Configured : entries[e].uid # flow[g].uid
        BY <3>1 DEF FlowOK, UidStaysFree, UidConfigured
      <4>2. flow[g].account \in Accounts /\ flow[g].uid = Slug[flow[g].account]
        BY <3>1, <4>1 DEF FlowOK, WellFormed, FlowState, UidIsTheAccounts
      <4>3. new.uid # flow[g].uid
        BY <1>1, <4>1, <4>2 DEF AccountUids, own
      <4> QED BY <1>4, <4>1, <4>3
    <3>3. EditsItsEntry(flow[g])'
      <4> SUFFICES ASSUME flow[g].entry # None
                   PROVE  EditsItsEntry(flow[g])'
        BY <3>1 DEF EditsItsEntry
      <4>1. EditsItsEntry(flow[g]) /\ flow[g].entry \in Configured
        BY <3>1 DEF FlowOK, EditsItsEntry
      <4>2. CASE flow[g].entry # own
        BY <1>4, <3>1, <4>1, <4>2 DEF EditsItsEntry
      <4>3. CASE flow[g].entry = own
        <5>1. flow[g].step \in EditRequests => entries[own].account # None
          BY <4>1, <4>3 DEF EditsItsEntry, EditRequests
        <5> QED BY <1>1, <1>4, <3>1, <4>1, <4>3, <5>1 DEF EditsItsEntry, own
      <4> QED BY <4>2, <4>3
    <3> QED BY <3>1, <3>2, <3>3 DEF FlowOK, WellFormed, UidIsTheAccounts,
                BlamesTheCloudsAnswer
  <2>3. FlowOK(flow[f])'
    <3>1. flow'[f] = Idle
      BY <1>3
    <3> QED BY <3>1, IdleOK DEF FlowOK, WellFormed, UidIsTheAccounts, UidStaysFree,
               EditsItsEntry, BlamesTheCloudsAnswer, Idle, CloudRequests
  <2> QED BY <2>1, <2>2, <2>3
<1> QED BY <1>5, <1>6, <1>8, <1>9

(* The user deletes an entry.                                               *)
LEMMA DeleteKeeps ==
    ASSUME IInv, NEW e \in Slots, DeleteEntry(e) PROVE IInv'
<1> USE DataAssumption DEF DeleteEntry, IInv, FlowsOK, EntriesOK, EntriesTypeOK
<1>1. entries' = [d \in Slots |-> IF d = e THEN None ELSE entries[d]]
  BY DEF Without
<1>2. Configured' = Configured \ {e}
          /\ \A d \in Configured \ {e} : entries'[d] = entries[d]
  BY <1>1 DEF Configured
<1>3. EntriesOK'
  <2>1. EntriesTypeOK'
    BY <1>1
  <2>2. NoLockTwice'
    BY <1>2 DEF NoLockTwice
  <2>3. IdentityFollowsData'
    <3>1. \A d \in Configured' : d \in Configured /\ entries'[d] = entries[d]
      BY <1>2
    <3> QED BY <3>1 DEF IdentityFollowsData
  <2> QED BY <2>1, <2>2, <2>3
<1>4. ASSUME NEW f \in Flows PROVE flow'[f] \in FlowState /\ FlowOK(flow[f])'
                /\ flow'[f].uid = flow[f].uid
  <2>1. FlowOK(flow[f]) /\ flow[f] \in FlowState
    OBVIOUS
  <2>2. CASE flow[f].entry # e
    <3>1. flow'[f] = flow[f]
      BY <2>2
    <3> QED BY <1>2, <2>1, <2>2, <3>1 DEF FlowOK, WellFormed, UidIsTheAccounts, UidStaysFree,
               UidConfigured, EditsItsEntry, BlamesTheCloudsAnswer
  <2>3. CASE flow[f].entry = e
    <3> DEFINE r == [flow[f] EXCEPT !.entry = None]
    <3>1. flow'[f] = r
      BY <2>3
    <3>2. r \in FlowState /\ r.entry = None /\ r.uid = flow[f].uid /\ r.step = flow[f].step
          /\ r.account = flow[f].account /\ r.error = flow[f].error
          /\ r.answer = flow[f].answer /\ r.closed = flow[f].closed
      BY <2>1, SMTT(20) DEF FlowState
    <3>3. r.step # "idle"
      BY <2>1, <2>3, <3>2 DEF FlowOK, EditsItsEntry, EditRequests
    <3> HIDE DEF r
    <3>4. WellFormed(r) /\ UidIsTheAccounts(r) /\ BlamesTheCloudsAnswer(r)
      BY <2>1, <3>2, <3>3 DEF FlowOK, WellFormed, UidIsTheAccounts, BlamesTheCloudsAnswer
    <3>5. UidStaysFree(flow[f])' /\ EditsItsEntry(flow[f])'
      BY <1>2, <2>1, <3>1, <3>2 DEF FlowOK, UidStaysFree, UidConfigured, EditsItsEntry
    <3>6. FlowOK(flow[f])'
      BY <3>1, <3>4, <3>5 DEF FlowOK, WellFormed, UidIsTheAccounts, BlamesTheCloudsAnswer
    <3> QED BY <3>1, <3>2, <3>6
  <2> QED BY <2>2, <2>3
<1>5. flow' \in [Flows -> FlowState] /\ OneHolder'
  BY <1>4 DEF OneHolder
<1> QED BY <1>3, <1>4, <1>5

-----------------------------------------------------------------------------
(* What a step may do to the entries: keep whose each is, and take one away *)
(* only because the user deletes it.                                        *)
KeepsAccount(e) ==
    LET old == entries[e]  new == entries'[e] IN
    old # None /\ new # None =>
        IF old.account = None THEN new.account = None
        ELSE new.account # None /\ Slug[new.account] = Slug[old.account]

Gentle == \A e \in Slots : KeepsAccount(e) /\ (entries'[e] = None => entries[e] = None)

(* The answers of the cloud while an account is being added.                *)
LEMMA AddAnswered ==
    ASSUME IInv, NEW f \in Flows, NEW answer \in Answers,
           LoginAnswered(f, answer) \/ CodeRequested(f, answer) \/ CodeValidated(f, answer)
    PROVE  IInv' /\ UNCHANGED entries
<1> USE DEF Classify, LoginError, Answers, Errors, Forms, Requests, CloudRequests, EditRequests
<1>1. flow[f].answer \in Answers \cup {"none"}
  BY DEF IInv, FlowsOK, FlowState
<1>2. CASE LoginAnswered(f, answer)
  BY <1>2, ShowKeeps, AwaitKeeps DEF LoginAnswered
<1>3. CASE CodeRequested(f, answer)
  <2>1. Show(f, "verify", "none") => ShowAnswered(f, "verify", flow[f].answer, "none")
    BY DEF Show, ShowAnswered
  <2> QED BY <1>1, <1>3, <2>1, ShowKeeps DEF CodeRequested
<1>4. CASE CodeValidated(f, answer)
  BY <1>4, ShowKeeps, AwaitKeeps DEF CodeValidated
<1> QED BY <1>2, <1>3, <1>4

(* A code is submitted, or a key that is refused.                           *)
LEMMA SubmitKeeps ==
    ASSUME IInv, NEW f \in Flows, SubmitCode(f) \/ RejectKey(f)
    PROVE  IInv' /\ UNCHANGED entries
<1> USE DEF Answers, Errors, Forms, Requests, CloudRequests, EditRequests
<1>1. CASE SubmitCode(f)
  BY <1>1, AwaitKeeps DEF SubmitCode
<1>2. CASE RejectKey(f)
  <2>1. flow[f].answer \in Answers \cup {"none"} /\ flow[f].step \in {"manual", "key"}
    BY <1>2 DEF IInv, FlowsOK, FlowState, RejectKey
  <2>2. ShowAnswered(f, flow[f].step, flow[f].answer, "invalid_key")
    BY <1>2 DEF RejectKey, Show, ShowAnswered
  <2> QED BY <1>2, <2>1, <2>2, ShowKeeps DEF RejectKey
<1> QED BY <1>1, <1>2

(* The keys of a new account arrive.                                        *)
LEMMA KeysListedKeeps ==
    ASSUME IInv, NEW f \in Flows, NEW answer \in Answers, NEW keys \in SUBSET Locks,
           KeysListed(f, answer, keys)
    PROVE  IInv' /\ \A e \in Configured : entries'[e] = entries[e]
<1>1. FlowOK(flow[f]) /\ flow[f] \in FlowState
  BY DEF IInv, FlowsOK
<1>2. flow[f].step \in CloudRequests
  BY DEF KeysListed, CloudRequests
<1>3. CASE answer = "ok" /\ ~LocksConfigured(keys, None)
  <2>1. Create(f, flow[f].account, flow[f].uid, keys)
    BY <1>3 DEF KeysListed
  <2>2. /\ flow[f].account \in Accounts /\ flow[f].account # None
        /\ flow[f].uid = Slug[flow[f].account]
        /\ flow[f].uid # None /\ ~UidConfigured(flow[f].uid)
    BY <1>1, <1>2 DEF FlowOK, WellFormed, FlowState, UidIsTheAccounts, UidStaysFree
  <2>3. flow[f].uid \in Uids
    BY <2>2 DEF Uids, AccountUids
  <2>4. \A g \in Flows \ {f} : flow[g].uid # flow[f].uid
    BY <2>2 DEF IInv, FlowsOK, OneHolder
  <2> QED BY <1>3, <2>1, <2>2, <2>3, <2>4, CreateKeeps
<1>4. CASE answer = "ok" /\ LocksConfigured(keys, None)
  BY <1>4, EndKeeps DEF KeysListed
<1>5. CASE answer # "ok"
  BY <1>2, <1>5, ShowKeeps DEF KeysListed, Classify, LoginError, Answers, Errors, Forms
<1> QED BY <1>3, <1>4, <1>5

(* A key is typed in for a new lock.                                        *)
LEMMA SubmitKeyKeeps ==
    ASSUME IInv, NEW f \in Flows, NEW l \in Locks, SubmitKey(f, l)
    PROVE  IInv' /\ \A e \in Configured : entries'[e] = entries[e]
BY EndKeeps, CreateKeeps DEF SubmitKey, UidInProgress, Uids

(* A typed-in key is corrected.                                             *)
LEMMA CorrectKeyKeeps ==
    ASSUME IInv, NEW f \in Flows, NEW l \in Locks, CorrectKey(f, l)
    PROVE  IInv' /\ Gentle
<1>1. CASE LocksConfigured({l}, flow[f].entry)
  BY <1>1, EndKeeps DEF CorrectKey, Gentle, KeepsAccount
<1>2. CASE ~LocksConfigured({l}, flow[f].entry)
  <2> DEFINE own == flow[f].entry
             p == [entries[own] EXCEPT !.keys = {l}]
             new == [p EXCEPT !.uid = l]
  <2>1. /\ own \in Slots /\ entries[own].account = None
        /\ entries[own] \in [account : {None}, uid : Uids, keys : SUBSET Locks]
    BY DataAssumption DEF CorrectKey, IInv, FlowsOK, FlowOK, EditsItsEntry, EntriesOK,
           EntriesTypeOK, Configured, Entry
  <2>2. entries \in [Slots -> Entry \cup {None}]
    BY DEF IInv, EntriesOK, EntriesTypeOK
  <2>3. entries' = [entries EXCEPT ![own] = new] /\ End(f) /\ own # None
    BY <1>2, <2>1, <2>2 DEF CorrectKey
  <2>4. /\ p \in [account : {None}, uid : Uids, keys : SUBSET Locks]
        /\ p.account = None /\ p.keys = {l}
    BY <2>1
  <2> HIDE DEF p
  <2>5. /\ new \in [account : {None}, uid : Uids, keys : SUBSET Locks]
        /\ new.account = None /\ new.keys = {l} /\ new.uid = l
    BY <2>4 DEF Uids
  <2> HIDE DEF new
  <2>6. IInv'
    <3>1. new \in Entry
      BY <2>5 DEF Entry
    <3>2. ~LocksConfigured(new.keys, flow[f].entry)
      BY <1>2, <2>5
    <3> QED BY <2>1, <2>3, <2>5, <3>1, <3>2, EditKeeps
  <2>7. Gentle
    BY <2>1, <2>2, <2>3, <2>5, DataAssumption DEF Gentle, KeepsAccount, Entry
  <2> QED BY <2>6, <2>7
<1> QED BY <1>1, <1>2

(* An account is asked again for an entry of its own.                       *)
LEMMA EditAnswered ==
    ASSUME IInv, NEW f \in Flows, NEW answer \in Answers, NEW keys \in SUBSET Locks,
           EditLoginAnswered(f, answer) \/ EditKeysListed(f, answer, keys)
    PROVE  IInv' /\ Gentle
<1> USE DEF Classify, LoginError, Answers, Errors, Forms, Requests, CloudRequests, EditRequests
<1>1. flow[f].answer \in Answers \cup {"none"}
  BY DEF IInv, FlowsOK, FlowState
<1>2. UNCHANGED entries => Gentle
  BY DEF Gentle, KeepsAccount
<1>3. CASE EditLoginAnswered(f, answer)
  BY <1>2, <1>3, ShowKeeps, AwaitKeeps DEF EditLoginAnswered
<1>4. CASE EditKeysListed(f, answer, keys)
  <2> USE <1>4 DEF EditKeysListed
  <2>1. CASE answer # "ok"
    BY <1>2, <2>1, ShowKeeps
  <2>2. CASE answer = "ok" /\ LocksConfigured(keys, flow[f].entry)
    BY <1>2, <2>2, EndKeeps
  <2>3. CASE answer = "ok" /\ ~LocksConfigured(keys, flow[f].entry) /\ flow[f].entry = None
    <3>1. Show(f, "credentials", "none") /\ UNCHANGED entries
      BY <2>3
    <3>2. ShowAnswered(f, "credentials", flow[f].answer, "none")
      BY <3>1 DEF Show, ShowAnswered
    <3> QED BY <1>1, <1>2, <3>1, <3>2, ShowKeeps
  <2>4. CASE answer = "ok" /\ ~LocksConfigured(keys, flow[f].entry) /\ flow[f].entry # None
    <3> DEFINE own == flow[f].entry
               p == [entries[own] EXCEPT !.account = flow[f].account]
               new == [p EXCEPT !.keys = keys]
    <3>1. FlowOK(flow[f]) /\ flow[f] \in FlowState /\ flow[f].step = "editList"
      BY DEF IInv, FlowsOK
    <3>2. /\ own \in Slots /\ own \in Configured /\ entries[own].account # None
          /\ entries[own] \in [account : Accounts, uid : Uids, keys : SUBSET Locks]
          /\ entries[own].uid = Slug[flow[f].account]
      BY <2>4, <3>1 DEF IInv, FlowOK, EditsItsEntry, EntriesOK, EntriesTypeOK, Configured,
             Entry
    <3>3. flow[f].account \in Accounts /\ flow[f].account # None
      BY <3>1 DEF FlowOK, WellFormed, FlowState
    <3>4. entries \in [Slots -> Entry \cup {None}]
      BY DEF IInv, EntriesOK, EntriesTypeOK
    <3>5. entries' = [entries EXCEPT ![own] = new] /\ End(f)
      BY <2>4, <3>2, <3>4
    <3>6. /\ p \in [account : Accounts, uid : Uids, keys : SUBSET Locks]
          /\ p.account = flow[f].account /\ p.uid = entries[own].uid
      BY <3>2, <3>3
    <3> HIDE DEF p
    <3>7. /\ new \in Entry /\ new.account = flow[f].account /\ new.uid = entries[own].uid
          /\ new.keys = keys
      BY <3>6 DEF Entry
    <3> HIDE DEF new
    <3>8. IInv'
      BY <2>4, <3>2, <3>3, <3>5, <3>7, EditKeeps
    <3>9. entries[own].account # None /\ Slug[entries[own].account] = entries[own].uid
      BY <3>2 DEF IInv, EntriesOK, IdentityFollowsData
    <3>10. Gentle
      BY <3>2, <3>3, <3>4, <3>5, <3>7, <3>9, DataAssumption DEF Gentle, KeepsAccount
    <3> QED BY <3>8, <3>10
  <2> QED BY <2>1, <2>2, <2>3, <2>4
<1> QED BY <1>3, <1>4

(* Dialogs do not touch the entries.                                        *)
LEMMA DialogEntries ==
    ASSUME NEW f \in Flows,
           \/ \E form \in {"cloud", "manual"} : StartAdding(f, form)
           \/ \E e \in Slots : StartEditing(f, e)
           \/ \E a \in Accounts : SubmitAccount(f, a) \/ SubmitCredentials(f, a)
           \/ CloseDialog(f)
    PROVE  UNCHANGED entries
BY DEF StartAdding, StartEditing, SubmitAccount, SubmitCredentials, CloseDialog

(* Every step of a flow keeps the invariant and is gentle with the entries. *)
LEMMA FlowKeeps ==
    ASSUME IInv, NEW f \in Flows, Add(f) \/ Edit(f) \/ RejectKey(f) \/ CloseDialog(f)
    PROVE  IInv' /\ Gentle
<1>1. UNCHANGED entries => Gentle
  BY DEF Gentle, KeepsAccount
<1>2. (\A e \in Configured : entries'[e] = entries[e]) => Gentle
  BY DEF Gentle, KeepsAccount, Configured
<1>3. CASE Add(f)
  BY <1>1, <1>2, <1>3, AddAnswered, SubmitKeeps, KeysListedKeeps, SubmitKeyKeeps,
     DialogKeeps, DialogEntries DEF Add
<1>4. CASE Edit(f)
  BY <1>1, <1>4, CorrectKeyKeeps, EditAnswered, DialogKeeps, DialogEntries DEF Edit
<1>5. CASE RejectKey(f) \/ CloseDialog(f)
  BY <1>1, <1>5, SubmitKeeps, DialogKeeps, DialogEntries
<1> QED BY <1>3, <1>4, <1>5

-----------------------------------------------------------------------------
(* The invariant holds from the start.                                      *)
LEMMA InitIInv == Init => IInv
<1> SUFFICES ASSUME Init PROVE IInv
  OBVIOUS
<1>1. FlowsOK
  BY IdleOK DEF Init, FlowsOK, OneHolder
<1>2. EntriesOK
  BY DEF Init, EntriesOK, EntriesTypeOK, NoLockTwice, IdentityFollowsData, Configured
<1> QED BY <1>1, <1>2 DEF IInv

(* Every step keeps it.                                                     *)
LEMMA NextIInv == IInv /\ [Next]_vars => IInv'
<1> SUFFICES ASSUME IInv, [Next]_vars PROVE IInv'
  OBVIOUS
<1>1. CASE Next
  BY <1>1, FlowKeeps, DeleteKeeps DEF Next
<1>2. CASE UNCHANGED vars
  <2> USE <1>2 DEF vars, IInv
  <2>1. EntriesOK'
    BY DEF EntriesOK, EntriesTypeOK, NoLockTwice, IdentityFollowsData, Configured
  <2>2. FlowsOK'
    BY DEF FlowsOK, OneHolder, FlowOK, WellFormed, UidIsTheAccounts, UidStaysFree,
           UidConfigured, EditsItsEntry, BlamesTheCloudsAnswer, Configured
  <2> QED BY <2>1, <2>2
<1> QED BY <1>1, <1>2

(* Type correctness: a request is made for the account last submitted, and  *)
(* the one of a closed dialog is an edit's.                                 *)
THEOREM TypeCorrect == Spec => []TypeOK
<1>1. Init => IInv
  BY InitIInv
<1>2. IInv /\ [Next]_vars => IInv'
  BY NextIInv
<1>3. IInv => TypeOK
  BY DEF IInv, TypeOK, EntriesOK, FlowsOK, FlowTypeOK, FlowOK, WellFormed
<1> QED BY <1>1, <1>2, <1>3, PTL DEF Spec

(* Whichever flows overlap and however long they wait for the cloud, no two *)
(* entries share a lock (_abort_if_lock_configured).                        *)
THEOREM LockInOneEntry == Spec => []NoLockTwice
<1>1. Init => IInv
  BY InitIInv
<1>2. IInv /\ [Next]_vars => IInv'
  BY NextIInv
<1>3. IInv => NoLockTwice
  BY DEF IInv, EntriesOK
<1> QED BY <1>1, <1>2, <1>3, PTL DEF Spec

(* An entry's unique id is that of its account or of its only lock, and no  *)
(* two entries have the same (_async_finalize_create_entry, reconfiguring). *)
THEOREM FoundUnderItsData == Spec => []IdentityFollowsData
<1>1. Init => IInv
  BY InitIInv
<1>2. IInv /\ [Next]_vars => IInv'
  BY NextIInv
<1>3. IInv => IdentityFollowsData
  BY DEF IInv, EntriesOK
<1> QED BY <1>1, <1>2, <1>3, PTL DEF Spec

(* An outage is never shown as a wrong password or code (LOGIN_ERRORS, the  *)
(* classification of the API client).                                       *)
THEOREM OutageNotBlamed == Spec => []OutageIsNotBlamed
<1>1. Init => IInv
  BY InitIInv
<1>2. IInv /\ [Next]_vars => IInv'
  BY NextIInv
<1>3. IInv => OutageIsNotBlamed
  BY DEF IInv, FlowsOK, FlowOK, BlamesTheCloudsAnswer, OutageIsNotBlamed
<1> QED BY <1>1, <1>2, <1>3, PTL DEF Spec

(* No flow creates an entry that takes the place of another: the unique id  *)
(* looked up before the cloud was asked is still free when the entry is     *)
(* made, however many flows run.  Only the user removes entries.            *)
THEOREM OnlyTheUserRemoves == Spec => NothingIsReplaced
<1>1. Init => IInv
  BY InitIInv
<1>2. IInv /\ [Next]_vars => IInv'
  BY NextIInv
<1>3. IInv /\ [Next]_vars => [(\E e \in Configured : entries'[e] = None) => \E e \in Slots : DeleteEntry(e)]_vars
  <2> SUFFICES ASSUME IInv, Next PROVE (\E e \in Configured : entries'[e] = None) => \E e \in Slots : DeleteEntry(e)
    OBVIOUS
  <2> QED BY FlowKeeps DEF Next, Gentle, Configured
<1> QED BY <1>1, <1>2, <1>3, PTL DEF Spec, NothingIsReplaced

(* An entry stays with its account, as far as the slug tells accounts       *)
(* apart, and a lock's own entry stays one ("wrong_account").               *)
THEOREM AccountKept == Spec => EntriesKeepTheirAccount
<1>1. Init => IInv
  BY InitIInv
<1>2. IInv /\ [Next]_vars => IInv'
  BY NextIInv
<1>3. IInv /\ [Next]_vars => [\A e \in Slots :
          LET old == entries[e]  new == entries'[e] IN
          old # None /\ new # None =>
              IF old.account = None THEN new.account = None
              ELSE new.account # None /\ Slug[new.account] = Slug[old.account]]_vars
  <2> SUFFICES ASSUME IInv, Next PROVE \A e \in Slots :
          LET old == entries[e]  new == entries'[e] IN
          old # None /\ new # None =>
              IF old.account = None THEN new.account = None
              ELSE new.account # None /\ Slug[new.account] = Slug[old.account]
    OBVIOUS
  <2>1. CASE \E f \in Flows : Add(f) \/ Edit(f) \/ RejectKey(f) \/ CloseDialog(f)
    BY <2>1, FlowKeeps DEF Gentle, KeepsAccount
  <2>2. CASE \E e \in Slots : DeleteEntry(e)
    BY <2>2 DEF DeleteEntry, Without
  <2> QED BY <2>1, <2>2 DEF Next
<1> QED BY <1>1, <1>2, <1>3, PTL DEF Spec, EntriesKeepTheirAccount
================================================================================
