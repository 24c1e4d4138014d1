------------------------------ MODULE LabelBook ------------------------------
(***************************************************************************)
(* What the private records of a lock promise an administrator             *)
(* (docs/STABLE_3.5.1.md, docs/RC16_SECURE_ACCESS.md): a durable book of   *)
(* labels.  A read may add references and retire some, never drop or       *)
(* relabel one; a name changes one label; only a reset forgets.  Changes   *)
(* are saved one at a time, each as the whole book, so that what is on     *)
(* disk is always a book that was in force or about to be, and a restart   *)
(* takes up the one that was saved last or was being saved.                *)
(***************************************************************************)

CONSTANT Empty          \* a book with nothing in it

VARIABLES
    book,       \* the records and the opt-out in force
    stored,     \* the book on disk
    saving,     \* the book being saved, if there is one
    limited,    \* reads may omit what the lock still has
    gone        \* the entry is removed, and its file

vars == <<book, stored, saving, limited, gone>>

Init ==
    /\ book = Empty
    /\ stored = Empty
    /\ saving = {}
    /\ limited \in BOOLEAN
    /\ gone = FALSE

SameRef(q, r) == q.cred = r.cred /\ q.born = r.born

(* A book as it is changed, from the moment its save begins.                *)
Write(next) ==
    /\ saving = {}
    /\ saving' = {next}
    /\ UNCHANGED <<stored, limited, gone>>

(* A reconciled read keeps every reference and its label, labels nothing    *)
(* new, and takes nothing up again that retired, but in a limited method.   *)
Observe ==
    /\ Write(book')
    /\ book'.legacy = book.legacy
    /\ \A r \in book.records : \E q \in book'.records : SameRef(q, r) /\ q.label = r.label
    /\ \A q \in book'.records :
          \/ ~q.label /\ \A r \in book.records : ~SameRef(q, r)
          \/ \E r \in book.records :
                SameRef(q, r) /\ q.label = r.label /\ (q.active => r.active \/ limited)

(* One current reference gets its label; nothing else changes.              *)
Label ==
    /\ Write(book')
    /\ book'.legacy = book.legacy
    /\ \E r \in book.records :
          /\ r.active
          /\ book'.records = (book.records \ {r}) \cup {[r EXCEPT !.label = TRUE]}

Forget ==
    /\ Write(book')
    /\ book' = [book EXCEPT !.records = {}]

(* The opt-out is in force when it is saved, not before.                    *)
Switch ==
    /\ \E off \in BOOLEAN : Write([book EXCEPT !.legacy = off])
    /\ UNCHANGED book

(* Once saved, memory and disk agree.                                       *)
Saved ==
    /\ \E s \in saving : book' = s /\ stored' = s
    /\ saving' = {}
    /\ UNCHANGED <<limited, gone>>

(* A save that fails may have reached the disk.                             *)
Fails ==
    /\ saving # {}
    /\ stored' \in {stored} \cup saving
    /\ saving' = {}
    /\ UNCHANGED <<book, limited, gone>>

Restart ==
    /\ ~gone
    /\ stored' \in {stored} \cup saving
    /\ book' = stored'
    /\ saving' = {}
    /\ UNCHANGED <<limited, gone>>

Remove ==
    /\ gone' = TRUE
    /\ stored' = Empty
    /\ UNCHANGED <<book, saving, limited>>

Next ==
    \/ Observe \/ Label \/ Forget \/ Switch
    \/ Saved \/ Fails \/ Restart \/ Remove

Spec == Init /\ [][Next]_vars
=============================================================================
