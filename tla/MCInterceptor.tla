---------------------------- MODULE MCInterceptor ----------------------------
(* Instances of Interceptor for TLC: two messages in flight at once, a      *)
(* target for each policy decision, and every configuration.                *)
EXTENDS Interceptor

CONSTANTS r1, r2

MCRequests == {r1, r2}
MCTargets == {"read", "write", "drop"}
MCDecision == [t \in MCTargets \cup {"bad"} |->
                 CASE t = "read" -> "allow" [] t = "write" -> "approve" [] OTHER -> "deny"]
MCHidden == {"drop"}

(* Every mode and on_error.  In audit mode nobody is asked, so one value of *)
(* approver is enough there; a missing approver is settled before the       *)
(* record, so one on_error is enough with it.                               *)
AllConfigs ==
  {c \in [mode : Modes, onError : OnErrors, approver : BOOLEAN] :
     ~c.approver => c.mode = "enforce" /\ c.onError = "halt"}
DefaultConfig == {[mode |-> "enforce", onError |-> "deny", approver |-> TRUE]}

(* Two agent sessions behind one HTTP proxy, each numbering from 1. *)
EachItsOwn == [r \in MCRequests |-> r]
=============================================================================
