------------------------------- MODULE ConfigFlow -------------------------------
(***************************************************************************)
(* The config flows of the integration (config_flow.py, manual_key.py and  *)
(* the error mapping of api.py): entries are created from a cloud account  *)
(* or from a key typed in by hand, and edited later (reauthentication and  *)
(* reconfiguration).  Flows run side by side, each awaiting the cloud in   *)
(* the middle, while entries are created, changed and deleted.             *)
(*                                                                         *)
(* An entry is keyed by a unique id, the slug of the account or the MAC of *)
(* the lock, but what must not be shared is the locks.  The cloud and Home *)
(* Assistant are external.  Home Assistant refuses a flow that takes the   *)
(* unique id another flow holds, removes an entry whose unique id a new    *)
(* one brings along, and lets the request of a dialog that was closed run  *)
(* on, whose result it drops; what the step changed by itself stays.       *)
(***************************************************************************)

CONSTANTS
    Locks,      \* locks, by formatted MAC: format_mac undoes the spelling
    Accounts,   \* cloud accounts, by username
    Slug,       \* slugify(username), which may be the same for two of them
    Slots,      \* bound: entries there can be at a time
    Flows,      \* bound: flows there can be at a time
    None

AccountUids == {Slug[a] : a \in Accounts}

VARIABLES
    entries,    \* the config entries
    flow        \* the flows in progress

vars == <<entries, flow>>

Uids == AccountUids \cup Locks

Entry == [account : Accounts, uid : Uids, keys : SUBSET Locks]
             \cup [account : {None}, uid : Uids, keys : SUBSET Locks]

ASSUME DataAssumption ==
    /\ AccountUids \cap Locks = {}
    /\ None \notin Locks \cup Accounts \cup AccountUids \cup Slots
    /\ None \notin Entry

CloudRequests == {"login", "requestCode", "list", "validate", "listVerified"}
EditRequests  == {"editLogin", "editList"}
Requests      == CloudRequests \cup EditRequests
Forms         == {"cloud", "verify", "manual", "credentials", "key"}

(* What the cloud answers: a body with an errcode, -1014 among them, an HTTP *)
(* status without one, or no answer at all.                                  *)
Answers == {"ok", "newDevice", "errcode", "status401", "status5xx", "unreachable",
            "unidentified"}

(* The error classes of the API client that the flows tell apart.            *)
Classify(answer) ==
    CASE answer = "ok"                          -> "none"
      [] answer = "newDevice"                   -> "verification"
      [] answer \in {"errcode", "status401"}    -> "authentication"
      [] answer \in {"status5xx", "unreachable"} -> "communication"
      [] answer = "unidentified"                -> "other"

(* The text a form shows for a class of error; none of them is caught twice. *)
LoginError(class) ==
    CASE class = "authentication" -> "auth"
      [] class = "communication"  -> "connection"
      [] OTHER                    -> "unknown"

Errors == {"none", "auth", "connection", "unknown", "invalid_code",
           "verification_required", "invalid_key"}

(* "entry" is the entry being edited, None when there is none any more; a   *)
(* flow whose dialog was closed holds no unique id.                         *)
FlowState ==
    [step : {"idle"} \cup Forms \cup Requests, account : Accounts \cup {None},
     uid : Uids \cup {None}, entry : Slots \cup {None},
     answer : Answers \cup {"none"}, error : Errors, closed : BOOLEAN]

Idle == [step |-> "idle", account |-> None, uid |-> None, entry |-> None,
         answer |-> "none", error |-> "none", closed |-> FALSE]

Init ==
    /\ entries = [e \in Slots |-> None]
    /\ flow = [f \in Flows |-> Idle]

-----------------------------------------------------------------------------
Configured == {e \in Slots : entries[e] # None}

(* _abort_if_lock_configured for a set of keys: an entry other than the one *)
(* being edited carries one of the locks.                                   *)
LocksConfigured(keys, own) ==
    \E e \in Configured \ {own} : entries[e].keys \cap keys # {}

(* _abort_if_unique_id_configured.                                          *)
UidConfigured(u) == \E e \in Configured : entries[e].uid = u

(* async_set_unique_id: another flow in progress may hold it.               *)
(* Mutant: raise_on_progress=False.                                         *)
UidInProgressIgnored(f, u) == FALSE

UidInProgress(f, u) == \E g \in Flows \ {f} : flow[g].uid = u

(* The step is over and its result a form or an abort; of a flow that was   *)
(* closed nobody sees it.                                                   *)
Show(f, form, error) ==
    flow' = [flow EXCEPT ![f] = IF flow[f].closed THEN Idle
                                ELSE [@ EXCEPT !.step = form, !.error = error]]

ShowAnswered(f, form, answer, error) ==
    flow' = [flow EXCEPT ![f] = IF flow[f].closed THEN Idle
                ELSE [@ EXCEPT !.step = form, !.answer = answer, !.error = error]]

Await(f, request) == flow' = [flow EXCEPT ![f].step = request]

End(f) == flow' = [flow EXCEPT ![f] = Idle]

(* Entries go, and with them what a flow was editing.                       *)
Without(gone) ==
    [e \in Slots |-> IF e \in gone THEN None ELSE entries[e]]

EndDetaching(f, gone) ==
    flow' = [g \in Flows |->
                IF g = f THEN Idle
                ELSE IF flow[g].entry \in gone THEN [flow[g] EXCEPT !.entry = None]
                ELSE flow[g]]

(* async_create_entry, after which an entry that has the unique id already  *)
(* makes way.                                                               *)
Create(f, account, u, keys) ==
    LET replaced == {e \in Configured : entries[e].uid = u} IN
    \E slot \in Slots \ Configured :
        /\ entries' = [Without(replaced) EXCEPT ![slot] =
                          [account |-> account, uid |-> u, keys |-> keys]]
        /\ EndDetaching(f, replaced)

-----------------------------------------------------------------------------
(* An account is added: async_step_cloud and async_step_verify_code.        *)

(* The menu, or "Reconfigure" on an entry, which comes to the form its      *)
(* entry was made with; reauthentication asks the same of a cloud entry.    *)
StartAdding(f, form) ==
    /\ flow[f].step = "idle"
    /\ flow' = [flow EXCEPT ![f].step = form]
    /\ UNCHANGED entries

StartEditing(f, e) ==
    /\ flow[f].step = "idle"
    /\ e \in Configured
    /\ flow' = [flow EXCEPT ![f].entry = e,
                            ![f].step = IF entries[e].account = None
                                        THEN "key" ELSE "credentials"]
    /\ UNCHANGED entries

(* Before anything is asked of the cloud the unique id must be free; from   *)
(* then on the flow holds it.                                               *)
SubmitAccount(f, a) ==
    /\ flow[f].step = "cloud"
    /\ IF UidInProgress(f, Slug[a]) \/ UidConfigured(Slug[a])
       THEN End(f)
       ELSE flow' = [flow EXCEPT ![f].uid = Slug[a], ![f].account = a,
                                 ![f].step = "login"]
    /\ UNCHANGED entries

(* _async_login_and_maybe_request_code *)
LoginAnswered(f, answer) ==
    /\ flow[f].step = "login"
    /\ CASE answer = "ok"                       -> Await(f, "list")
         [] Classify(answer) = "verification"   -> Await(f, "requestCode")
         [] OTHER -> ShowAnswered(f, "cloud", answer, LoginError(Classify(answer)))
    /\ UNCHANGED entries

(* _async_request_verification_code: a rejection is no password's fault.    *)
CodeRequested(f, answer) ==
    /\ flow[f].step = "requestCode"
    /\ CASE answer = "ok" -> Show(f, "verify", "none")
         [] OTHER -> ShowAnswered(f, "cloud", answer,
                        IF Classify(answer) = "communication" THEN "connection"
                                                              ELSE "unknown")
    /\ UNCHANGED entries

SubmitCode(f) ==
    /\ flow[f].step = "verify"
    /\ Await(f, "validate")
    /\ UNCHANGED entries

(* _async_validate_code_and_login *)
CodeValidated(f, answer) ==
    /\ flow[f].step = "validate"
    /\ CASE answer = "ok" -> Await(f, "listVerified")
         [] Classify(answer) = "authentication" ->
                ShowAnswered(f, "verify", answer, "invalid_code")
         [] OTHER -> ShowAnswered(f, "verify", answer, LoginError(Classify(answer)))
    /\ UNCHANGED entries

(* Mutant: the locks are not looked up once the keys are there.             *)
KeysListedUnchecked(f, answer, keys) ==
    /\ flow[f].step \in {"list", "listVerified"}
    /\ IF answer = "ok"
       THEN Create(f, flow[f].account, flow[f].uid, keys)
       ELSE /\ ShowAnswered(f, IF flow[f].step = "list" THEN "cloud" ELSE "verify",
                            answer, LoginError(Classify(answer)))
            /\ UNCHANGED entries

(* _async_finalize_create_entry: the keys decide whether the locks are free *)
(* and the entry is created in the same step; a failure shows the form that *)
(* was submitted last.                                                      *)
KeysListed(f, answer, keys) ==
    /\ flow[f].step \in {"list", "listVerified"}
    /\ CASE answer = "ok" /\ ~LocksConfigured(keys, None) ->
                Create(f, flow[f].account, flow[f].uid, keys)
         [] answer = "ok" /\ LocksConfigured(keys, None) ->
                End(f) /\ UNCHANGED entries
         [] OTHER ->
                /\ ShowAnswered(f, IF flow[f].step = "list" THEN "cloud" ELSE "verify",
                                answer, LoginError(Classify(answer)))
                /\ UNCHANGED entries

-----------------------------------------------------------------------------
(* A key is typed in: async_step_manual and async_step_reconfigure_manual.  *)

(* async_validate refuses what the form says or what the lock advertises.   *)
RejectKey(f) ==
    /\ flow[f].step \in {"manual", "key"}
    /\ flow[f].step = "key" => flow[f].entry # None
    /\ Show(f, flow[f].step, "invalid_key")
    /\ UNCHANGED entries

SubmitKey(f, l) ==
    /\ flow[f].step = "manual"
    /\ IF UidInProgress(f, l) \/ UidConfigured(l) \/ LocksConfigured({l}, None)
       THEN End(f) /\ UNCHANGED entries
       ELSE Create(f, None, l, {l})

(* Mutant: the unique id stays that of the lock the key was for before.     *)
CorrectKeyUidKept(f, l) ==
    /\ flow[f].step = "key"
    /\ flow[f].entry # None
    /\ End(f)
    /\ IF LocksConfigured({l}, flow[f].entry) THEN UNCHANGED entries
       ELSE entries' = [entries EXCEPT ![flow[f].entry].keys = {l}]

(* The MAC may be corrected too, and the unique id moves with it.           *)
CorrectKey(f, l) ==
    /\ flow[f].step = "key"
    /\ flow[f].entry # None
    /\ End(f)
    /\ IF LocksConfigured({l}, flow[f].entry) THEN UNCHANGED entries
       ELSE entries' = [entries EXCEPT ![flow[f].entry].keys = {l},
                                       ![flow[f].entry].uid = l]

-----------------------------------------------------------------------------
(* An entry's account is asked again: _async_step_credentials_for_entry.    *)

(* Mutant: whoever logs in takes the entry over.                            *)
SubmitCredentialsOfAnyone(f, a) ==
    /\ flow[f].step = "credentials"
    /\ flow[f].entry # None
    /\ IF UidInProgress(f, Slug[a]) THEN End(f)
       ELSE flow' = [flow EXCEPT ![f].uid = Slug[a], ![f].account = a,
                                 ![f].step = "editLogin"]
    /\ UNCHANGED entries

(* "wrong_account" otherwise. *)
SubmitCredentials(f, a) ==
    /\ flow[f].step = "credentials"
    /\ flow[f].entry # None
    /\ IF UidInProgress(f, Slug[a]) \/ entries[flow[f].entry].uid # Slug[a]
       THEN End(f)
       ELSE flow' = [flow EXCEPT ![f].uid = Slug[a], ![f].account = a,
                                 ![f].step = "editLogin"]
    /\ UNCHANGED entries

(* _async_login_for_existing_entry: no code is asked for.                   *)
EditLoginAnswered(f, answer) ==
    /\ flow[f].step = "editLogin"
    /\ CASE answer = "ok" -> Await(f, "editList")
         [] Classify(answer) = "verification" ->
                ShowAnswered(f, "credentials", answer, "verification_required")
         [] OTHER -> ShowAnswered(f, "credentials", answer, LoginError(Classify(answer)))
    /\ UNCHANGED entries

(* _async_finalize_update_entry.  An entry that is gone cannot be updated:  *)
(* Home Assistant raises, and the form is still there.                      *)
EditKeysListed(f, answer, keys) ==
    /\ flow[f].step = "editList"
    /\ CASE answer # "ok" ->
                /\ ShowAnswered(f, "credentials", answer, LoginError(Classify(answer)))
                /\ UNCHANGED entries
         [] answer = "ok" /\ LocksConfigured(keys, flow[f].entry) ->
                End(f) /\ UNCHANGED entries
         [] answer = "ok" /\ ~LocksConfigured(keys, flow[f].entry) ->
                IF flow[f].entry = None
                THEN Show(f, "credentials", "none") /\ UNCHANGED entries
                ELSE /\ entries' = [entries EXCEPT
                                       ![flow[f].entry].account = flow[f].account,
                                       ![flow[f].entry].keys = keys]
                     /\ End(f)

-----------------------------------------------------------------------------
(* The user closes a dialog.  The step of an edit goes on unseen, and no    *)
(* longer keeps the unique id from others.                                  *)
CloseDialog(f) ==
    /\ flow[f].step # "idle"
    /\ flow' = [flow EXCEPT ![f] =
                   IF @.step \in EditRequests THEN [@ EXCEPT !.uid = None, !.closed = TRUE]
                   ELSE Idle]
    /\ UNCHANGED entries

DeleteEntry(e) ==
    /\ e \in Configured
    /\ entries' = Without({e})
    /\ flow' = [f \in Flows |-> IF flow[f].entry = e THEN [flow[f] EXCEPT !.entry = None]
                                                     ELSE flow[f]]

Add(f) ==
    \/ \E form \in {"cloud", "manual"} : StartAdding(f, form)
    \/ \E a \in Accounts : SubmitAccount(f, a)
    \/ \E answer \in Answers : LoginAnswered(f, answer) \/ CodeRequested(f, answer)
                                  \/ CodeValidated(f, answer)
    \/ SubmitCode(f)
    \/ \E answer \in Answers, keys \in SUBSET Locks : KeysListed(f, answer, keys)
    \/ \E l \in Locks : SubmitKey(f, l)

Edit(f) ==
    \/ \E e \in Slots : StartEditing(f, e)
    \/ \E a \in Accounts : SubmitCredentials(f, a)
    \/ \E answer \in Answers : EditLoginAnswered(f, answer)
    \/ \E answer \in Answers, keys \in SUBSET Locks : EditKeysListed(f, answer, keys)
    \/ \E l \in Locks : CorrectKey(f, l)

Next ==
    \/ \E f \in Flows : Add(f) \/ Edit(f) \/ RejectKey(f) \/ CloseDialog(f)
    \/ \E e \in Slots : DeleteEntry(e)

Spec == Init /\ [][Next]_vars

-----------------------------------------------------------------------------
EntriesTypeOK == entries \in [Slots -> Entry \cup {None}]

(* A request is made for the account last submitted; one that is unseen is  *)
(* an edit's.                                                               *)
FlowTypeOK ==
    /\ flow \in [Flows -> FlowState]
    /\ \A f \in Flows :
          /\ flow[f].step \in Requests => flow[f].account # None
          /\ flow[f].step \in CloudRequests => flow[f].uid # None
          /\ flow[f].closed => flow[f].step \in EditRequests

TypeOK == EntriesTypeOK /\ FlowTypeOK

(* A lock is in one entry only: the second would get no entities, since the *)
(* unique ids are taken (config_flow.py:336).                               *)
NoLockTwice ==
    \A d, e \in Configured : d # e => entries[d].keys \cap entries[e].keys = {}

(* An entry is found under what it holds: its account, or its only lock.    *)
(* No correction leaves an id behind that keeps the real lock from being    *)
(* added (config_flow.py:302), and no two entries have the same.            *)
IdentityFollowsData ==
    \A e \in Configured :
        /\ IF entries[e].account = None THEN entries[e].keys = {entries[e].uid}
                                        ELSE entries[e].uid = Slug[entries[e].account]
        /\ \A d \in Configured \ {e} : entries[d].uid # entries[e].uid

(* Only the user removes an entry.  No flow creates one that takes the      *)
(* place of another, though the unique id was looked up before the cloud    *)
(* was asked, minutes ago and perhaps waiting for a code.                   *)
NothingIsReplaced ==
    [][(\E e \in Configured : entries'[e] = None) => \E e \in Slots : DeleteEntry(e)]_vars

(* Edits do not repoint an entry at another account, nor from an account to *)
(* a single lock (config_flow.py:377).                                      *)
EntriesKeepTheirAccount ==
    [][\A e \in Slots :
          LET old == entries[e]  new == entries'[e] IN
          old # None /\ new # None =>
              IF old.account = None THEN new.account = None
              ELSE new.account # None /\ Slug[new.account] = Slug[old.account]]_vars

(* The password, or the code, is only blamed when the cloud itself refused  *)
(* them; an outage or a rate limit is not (api.py:94).                      *)
OutageIsNotBlamed ==
    \A f \in Flows : flow[f].error \in {"auth", "invalid_code"}
                        => flow[f].answer \in {"errcode", "status401"}

=============================================================================
