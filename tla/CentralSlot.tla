---------------------------- MODULE CentralSlot ----------------------------
(***************************************************************************)
(* What a lock's Bluetooth session promises (README.md and the comments of *)
(* connection.py): the lock accepts one central, so at most one client     *)
(* claims it at a time; a claim ends only with a confirmed disconnect, a   *)
(* link exists only under a claim, and after shutdown the slot is only     *)
(* given back.                                                             *)
(***************************************************************************)
EXTENDS Naturals

VARIABLES
    holder,     \* the client that claims the slot, or 0
    claims,     \* how many clients ever claimed it; the last one's number
    offered,    \* the holder's session is offered to callers
    linked,     \* the clients that have a link to the lock
    shut        \* the entry is being unloaded

vars == <<holder, claims, offered, linked, shut>>

Nobody == 0

Init ==
    /\ holder = Nobody
    /\ claims = 0
    /\ offered = FALSE
    /\ linked = {}
    /\ shut = FALSE

(* A new client takes a free slot.                                          *)
Claim ==
    /\ holder = Nobody
    /\ ~shut
    /\ claims' = claims + 1
    /\ holder' = claims + 1
    /\ UNCHANGED <<offered, linked, shut>>

Connect ==
    /\ holder # Nobody
    /\ linked' = {holder}
    /\ UNCHANGED <<holder, claims, offered, shut>>

Drop ==
    /\ linked' = {}
    /\ UNCHANGED <<holder, claims, offered, shut>>

(* The session is offered while its link is up.                             *)
Offer ==
    /\ holder \in linked
    /\ ~shut
    /\ offered' = TRUE
    /\ UNCHANGED <<holder, claims, linked, shut>>

Withdraw ==
    /\ offered' = FALSE
    /\ UNCHANGED <<holder, claims, linked, shut>>

(* The claim and its link end together, and only for a withdrawn session.   *)
Release ==
    /\ holder # Nobody
    /\ ~offered
    /\ holder' = Nobody
    /\ linked' = {}
    /\ UNCHANGED <<claims, offered, shut>>

Shut ==
    /\ shut' = TRUE
    /\ UNCHANGED <<holder, claims, offered, linked>>

Next == Claim \/ Connect \/ Drop \/ Offer \/ Withdraw \/ Release \/ Shut

Spec == Init /\ [][Next]_vars
============================================================================
