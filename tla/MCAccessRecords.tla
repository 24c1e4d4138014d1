---------------------------- MODULE MCAccessRecords ----------------------------
(***************************************************************************)
(* AccessRecords for TLC.  Requests and credentials are interchangeable:   *)
(* the module treats no name of either kind differently from another.      *)
(***************************************************************************)
EXTENDS AccessRecords, TLC

Symmetry == Permutations(Handlers) \cup Permutations(Credentials)
=============================================================================
