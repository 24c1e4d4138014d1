-------------------------- MODULE PreemptibleRead --------------------------
(***************************************************************************)
(* What the session of a lock promises about reading its credentials       *)
(* (docs/RC14_ACCESS_MANAGEMENT.md and the comments of connection.py): one *)
(* read at a time, begun only when nobody else needs the lock, and told to *)
(* end as soon as explicit control is asked for.  A read that was told to  *)
(* end never resumes: waiting, it is not let in any more; inside, it lets  *)
(* go when it has given up its client, which is the end of it.             *)
(***************************************************************************)

CONSTANTS
    Readers,    \* the reads that may be asked for
    Commands,   \* the callers of explicit control
    Holders,    \* everybody who uses the session
    None        \* nobody is inside

VARIABLES
    controls,   \* the commands under way, waiting or inside
    reads,      \* the read under way, if there is one
    ending,     \* it was told to end, or gives up its client
    holder,     \* who is inside, or None
    shut        \* the entry is being unloaded

vars == <<controls, reads, ending, holder, shut>>

Init ==
    /\ controls = {}
    /\ reads = {}
    /\ ending = FALSE
    /\ holder = None
    /\ shut = FALSE

(* A read is begun in an idle session only; it may still have to queue.     *)
Begin(r) ==
    /\ reads = {} /\ controls = {} /\ holder = None /\ ~shut
    /\ reads' = {r}
    /\ holder' \in {None, r}
    /\ UNCHANGED <<controls, ending, shut>>

(* Explicit control preempts the read it finds, before it waits itself.     *)
Ask(c) ==
    /\ c \notin controls
    /\ controls' = controls \cup {c}
    /\ ending' = (reads # {})
    /\ \/ UNCHANGED holder
       \/ holder = None /\ holder' = c
    /\ UNCHANGED <<reads, shut>>

(* A command that waits may be cancelled.                                   *)
GiveUp(c) ==
    /\ c \in controls /\ c # holder
    /\ controls' = controls \ {c}
    /\ UNCHANGED <<reads, ending, holder, shut>>

(* A read that was told to end is not let in.                               *)
Take ==
    /\ holder = None
    /\ holder' \in Holders
    /\ ending => holder' \notin reads
    /\ UNCHANGED <<controls, reads, ending, shut>>

(* It is told to end, by whom ever, or comes to its end by itself.          *)
End ==
    /\ reads # {}
    /\ ending' = TRUE
    /\ UNCHANGED <<controls, reads, holder, shut>>

(* A read is over when it lets go, and lets go when it has ended.           *)
Leave ==
    /\ holder # None
    /\ holder' = None
    /\ holder \in reads => ending
    /\ controls' = controls \ {holder}
    /\ reads' = reads \ {holder}
    /\ ending' = (ending /\ reads' # {})
    /\ UNCHANGED shut

(* It is over, too, when it was told to end before it was let in.           *)
Withdraw ==
    /\ ending /\ holder \notin reads
    /\ reads' = {}
    /\ ending' = FALSE
    /\ UNCHANGED <<controls, holder, shut>>

(* The unload of the entry tells it to end, and none begins any more.       *)
Shut ==
    /\ shut' = TRUE
    /\ ending' = (reads # {})
    /\ UNCHANGED <<controls, reads, holder>>

Next ==
    \/ \E r \in Readers : Begin(r)
    \/ \E c \in Commands : Ask(c) \/ GiveUp(c)
    \/ Take \/ End \/ Leave \/ Withdraw \/ Shut

Spec == Init /\ [][Next]_vars
============================================================================
