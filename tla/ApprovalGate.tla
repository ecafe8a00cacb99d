---------------------------- MODULE ApprovalGate ----------------------------
(***************************************************************************)
(* What the enforcement layer may assume of an Approver: the contract of    *)
(* enforce.Approver (internal/enforce/interceptor.go), stated without       *)
(* nonces, channels, timers or HTTP.                                        *)
(*                                                                         *)
(* Every ask is put to a human at most once.  While the ask waits, at most  *)
(* one vote is taken.  The ask is granted only when that vote approved, may *)
(* be refused at any time (a denying vote, a timeout, a cancelled session,  *)
(* an unreachable human), and is never left waiting for ever.  Approval.tla *)
(* implements this module; Interceptor.tla relies on it.                    *)
(***************************************************************************)
CONSTANT Asks        \* the calls that may need a human

VARIABLES
  status,            \* status[a]: where ask a stands
  vote               \* vote[a]: the human's answer to a, once taken

vars == <<status, vote>>

Votes == {"approve", "deny"}

TypeOK ==
  /\ status \in [Asks -> {"idle", "waiting", "granted", "refused"}]
  /\ vote \in [Asks -> Votes \cup {"none"}]

Init ==
  /\ status = [a \in Asks |-> "idle"]
  /\ vote = [a \in Asks |-> "none"]

(* Approve is entered: the human is being asked. *)
Ask(a) ==
  /\ status[a] = "idle"
  /\ status' = [status EXCEPT ![a] = "waiting"]
  /\ UNCHANGED vote

(* Approve fails before anybody could be asked. *)
CannotAsk(a) ==
  /\ status[a] = "idle"
  /\ status' = [status EXCEPT ![a] = "refused"]
  /\ UNCHANGED vote

(* The human answers; the first answer is the only one. *)
CastVote(a, v) ==
  /\ status[a] = "waiting"
  /\ vote[a] = "none"
  /\ vote' = [vote EXCEPT ![a] = v]
  /\ UNCHANGED status

(* Approve returns true. *)
Grant(a) ==
  /\ status[a] = "waiting"
  /\ vote[a] = "approve"
  /\ status' = [status EXCEPT ![a] = "granted"]
  /\ UNCHANGED vote

(* Approve returns false or an error, whatever the human said or will say. *)
Refuse(a) ==
  /\ status[a] = "waiting"
  /\ status' = [status EXCEPT ![a] = "refused"]
  /\ UNCHANGED vote

Return(a) == Grant(a) \/ Refuse(a)

Next ==
  \E a \in Asks :
    \/ Ask(a)
    \/ CannotAsk(a)
    \/ \E v \in Votes : CastVote(a, v)
    \/ Return(a)

SafeSpec == Init /\ [][Next]_vars

Fairness == \A a \in Asks : WF_vars(Return(a))

Spec == SafeSpec /\ Fairness
=============================================================================
