----------------------------- MODULE MCApproval -----------------------------
(* Instances of Approval for TLC: two calls, and enough callbacks for a     *)
(* repeated tap on one of them while the other is answered.                 *)
EXTENDS Approval

CONSTANTS a1, a2, c1, c2, c3

MCAsks == {a1, a2}
MCCallbacks == {c1, c2, c3}
=============================================================================
