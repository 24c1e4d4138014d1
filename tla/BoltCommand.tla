---------------------------- MODULE BoltCommand ----------------------------
(***************************************************************************)
(* What an explicit lock or unlock promises its caller (README.md, "How a  *)
(* command runs", and the docstrings of client.py): one request writes at  *)
(* most one control frame, and every definite answer stays true however    *)
(* late the lock acts on what it received.                                 *)
(***************************************************************************)
EXTENDS Naturals

CONSTANT Requests

VARIABLES
    written,    \* how many control frames a request began to write
    executed,   \* how often the lock moved its bolt for a request
    answer      \* what the caller was told, "none" before

vars == <<written, executed, answer>>

(* Answers that rule out any movement, before and after they are given.     *)
Definite == {"aborted", "cancelled", "failed", "rejected"}
Answers  == Definite \cup {"ok", "unknown"}

Init ==
    /\ written = [r \in Requests |-> 0]
    /\ executed = [r \in Requests |-> 0]
    /\ answer = [r \in Requests |-> "none"]

Write(r) ==
    /\ answer[r] = "none"
    /\ written[r] = 0
    /\ written' = [written EXCEPT ![r] = 1]
    /\ UNCHANGED <<executed, answer>>

(* The lock acts on a frame it received, possibly long after the answer.    *)
Execute(r) ==
    /\ written[r] = 1
    /\ executed[r] = 0
    /\ answer[r] \notin Definite
    /\ executed' = [executed EXCEPT ![r] = 1]
    /\ UNCHANGED <<written, answer>>

Answer(r) ==
    /\ answer[r] = "none"
    /\ \E a \in Answers :
          /\ a \in {"ok", "unknown", "rejected"} => written[r] = 1
          /\ a \in {"aborted", "failed"} => written[r] = 0
          /\ a \in Definite => executed[r] = 0
          /\ answer' = [answer EXCEPT ![r] = a]
    /\ UNCHANGED <<written, executed>>

Next == \E r \in Requests : Write(r) \/ Execute(r) \/ Answer(r)

Spec == Init /\ [][Next]_vars
=============================================================================
