------------------------------ MODULE RecordLog ------------------------------
(***************************************************************************)
(* What enforce.Recorder promises the interceptor, and what finish relies   *)
(* on when it decides whether a call may go on: "Record writes one audit    *)
(* line."  A recorder that says yes has recorded the call and one that says *)
(* no has not.  When the process dies while Record is busy nobody is told,  *)
(* and the call may be recorded or not.  What is recorded stays recorded.   *)
(***************************************************************************)
CONSTANT Calls       \* the decisions to be recorded

VARIABLES
  recorded,          \* the calls the log holds, whoever wrote them
  status             \* status[c]: where Record is with call c

vars == <<recorded, status>>

Statuses == {"idle", "busy", "ok", "failed", "lost"}

TypeOK == recorded \subseteq Calls /\ status \in [Calls -> Statuses]

Init == recorded = {} /\ status = [c \in Calls |-> "idle"]

Move(c, from, to) == status[c] = from /\ status' = [status EXCEPT ![c] = to]

Begin(c) == Move(c, "idle", "busy") /\ UNCHANGED recorded

Commit(c) ==
  /\ status[c] = "busy"
  /\ recorded' = recorded \cup {c}
  /\ UNCHANGED status

Succeed(c) == c \in recorded /\ Move(c, "busy", "ok") /\ UNCHANGED recorded

Fail(c) == c \notin recorded /\ Move(c, "busy", "failed") /\ UNCHANGED recorded

Die ==
  /\ status' = [c \in Calls |-> IF status[c] = "busy" THEN "lost" ELSE status[c]]
  /\ UNCHANGED recorded

Next == (\E c \in Calls : Begin(c) \/ Commit(c) \/ Succeed(c) \/ Fail(c)) \/ Die

Spec == Init /\ [][Next]_vars
=============================================================================
