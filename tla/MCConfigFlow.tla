------------------------------ MODULE MCConfigFlow ------------------------------
(***************************************************************************)
(* Three accounts, two of which the slug does not tell apart.  Flows, slots *)
(* and locks are interchangeable.                                           *)
(***************************************************************************)
EXTENDS ConfigFlow, TLC

CONSTANTS jane_doe, janedoe, john, jane_id, john_id

MCSlug == (jane_doe :> jane_id) @@ (janedoe :> jane_id) @@ (john :> john_id)

Symmetry == Permutations(Flows) \cup Permutations(Slots) \cup Permutations(Locks)
=============================================================================
