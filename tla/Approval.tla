------------------------------ MODULE Approval ------------------------------
(***************************************************************************)
(* Out-of-band approval: approval.Broker (internal/approval/ntfy.go) and    *)
(* approval.Registry (internal/approval/registry.go).                       *)
(*                                                                         *)
(* Three kinds of goroutine meet here.  An ask is one Broker.Approve call:  *)
(* it registers a nonce, publishes the notification, and waits in a select  *)
(* on the answer channel, the timer and the caller's context.  A callback   *)
(* is one HTTP request to /approve/<nonce> or /deny/<nonce>: it claims the  *)
(* registry entry under the lock and only then, unlocked, sends the answer. *)
(* The human may tap as often as there are callbacks, early (before publish *)
(* has returned), late, or not at all.                                      *)
(*                                                                         *)
(* A nonce is 32 random bytes drawn once per ask, so a nonce is named by    *)
(* the ask it was drawn for.                                                *)
(***************************************************************************)
EXTENDS Naturals, Sequences

CONSTANTS
  Asks,              \* Broker.Approve invocations
  Callbacks,         \* callback HTTP requests that may be made
  OnTimeout          \* approval.on_timeout of the policy file

(* policy.validate refuses approval.on_timeout: allow and anything that is  *)
(* not an action.                                                           *)
ASSUME OnTimeoutAssumption == OnTimeout \in {"deny", "approve"}

VARIABLES
  broker,            \* broker[a]: where Broker.Approve stands
  result,            \* result[a]: what it returned
  notified,          \* the asks whose notification reached the human
  entries,           \* Registry.entries, the nonces still to be claimed
  answers,           \* answers[a]: the content of the entry's channel
  callback           \* callback[c]: where callback c stands, its ask and answer

vars == <<broker, result, notified, entries, answers, callback>>

(* The buffer of the channel Register makes. *)
Capacity == 1

Answers == {"approve", "deny"}
Results == {"none", "approved", "denied", "error"}

(* The states of Broker.Approve in which its nonce may still be registered. *)
Asking == {"publishing", "failed", "waiting", "expired", "interrupted"}
BrokerStates == Asking \cup {"idle", "returned"}

CallbackStates ==
  [pc : {"idle", "claimed", "acked", "missed"},
   ask : Asks \cup {"none"},
   answer : Answers \cup {"none"}]

TypeOK ==
  /\ broker \in [Asks -> BrokerStates]
  /\ result \in [Asks -> Results]
  /\ notified \subseteq Asks
  /\ entries \subseteq Asks
  /\ answers \in [Asks -> Seq(Answers)]
  /\ callback \in [Callbacks -> CallbackStates]

Init ==
  /\ broker = [a \in Asks |-> "idle"]
  /\ result = [a \in Asks |-> "none"]
  /\ notified = {}
  /\ entries = {}
  /\ answers = [a \in Asks |-> << >>]
  /\ callback = [c \in Callbacks |-> [pc |-> "idle", ask |-> "none", answer |-> "none"]]

-----------------------------------------------------------------------------
(* Broker.Approve *)

(* The ask leaves Approve with result r; every way out that did not take an *)
(* answer has discarded the registry entry first.                           *)
ReturnFrom(a, r) ==
  /\ broker' = [broker EXCEPT ![a] = "returned"]
  /\ result' = [result EXCEPT ![a] = r]

(* Register: a fresh nonce, an empty channel, and the entry under the lock. *)
Register(a) ==
  /\ broker[a] = "idle"
  /\ broker' = [broker EXCEPT ![a] = "publishing"]
  /\ entries' = entries \cup {a}
  /\ answers' = [answers EXCEPT ![a] = << >>]
  /\ UNCHANGED <<result, notified, callback>>

(* Register: no randomness, hence no nonce, hence no approval. *)
RegisterFails(a) ==
  /\ broker[a] = "idle"
  /\ ReturnFrom(a, "error")
  /\ UNCHANGED <<notified, entries, answers, callback>>

(* publish: the request reaches ntfy and the notification the human, who    *)
(* may act on it before publish has its response.                           *)
Notify(a) ==
  /\ broker[a] = "publishing"
  /\ a \notin notified
  /\ notified' = notified \cup {a}
  /\ UNCHANGED <<broker, result, entries, answers, callback>>

(* publish returns nil: ntfy accepted the request. *)
Published(a) ==
  /\ broker[a] = "publishing"
  /\ a \in notified
  /\ broker' = [broker EXCEPT ![a] = "waiting"]
  /\ UNCHANGED <<result, notified, entries, answers, callback>>

(* publish returns an error: not sent, refused by ntfy, or sent and then    *)
(* timed out or cancelled, in which case the human has the notification.    *)
PublishFails(a) ==
  /\ broker[a] = "publishing"
  /\ broker' = [broker EXCEPT ![a] = "failed"]
  /\ UNCHANGED <<result, notified, entries, answers, callback>>

\* Faulty variant of ReceiveAnswer: any answer counts as an approval.
GrantAnyAnswer(a) ==
  /\ broker[a] = "waiting"
  /\ answers[a] # << >>
  /\ answers' = [answers EXCEPT ![a] = Tail(@)]
  /\ ReturnFrom(a, "approved")
  /\ UNCHANGED <<notified, entries, callback>>

(* select: case approved := <-wait. *)
ReceiveAnswer(a) ==
  /\ broker[a] = "waiting"
  /\ answers[a] # << >>
  /\ answers' = [answers EXCEPT ![a] = Tail(@)]
  /\ ReturnFrom(a, IF Head(answers[a]) = "approve" THEN "approved" ELSE "denied")
  /\ UNCHANGED <<notified, entries, callback>>

\* Faulty variant of Expire: no timer once the human has been reached.
ExpireUnlessNotified(a) ==
  /\ broker[a] = "waiting"
  /\ a \notin notified
  /\ broker' = [broker EXCEPT ![a] = "expired"]
  /\ UNCHANGED <<result, notified, entries, answers, callback>>

(* select: case <-timer.C.  An answer may be in the channel as well: Go     *)
(* picks any ready case.                                                    *)
Expire(a) ==
  /\ broker[a] = "waiting"
  /\ broker' = [broker EXCEPT ![a] = "expired"]
  /\ UNCHANGED <<result, notified, entries, answers, callback>>

(* select: case <-ctx.Done().  The context carries resolveApproval's own    *)
(* deadline and the session's or the HTTP client's lifetime.                *)
Interrupt(a) ==
  /\ broker[a] = "waiting"
  /\ broker' = [broker EXCEPT ![a] = "interrupted"]
  /\ UNCHANGED <<result, notified, entries, answers, callback>>

\* Faulty variant of ResultWithoutAnswer: compares with the wrong action.
OptimisticResult(a) ==
  IF broker[a] = "expired" /\ OnTimeout # "deny" THEN "approved" ELSE "error"

(* What Approve returns once the entry is discarded: an error, or for a     *)
(* timeout OnTimeout == allow, which the validated policy never says.       *)
ResultWithoutAnswer(a) ==
  IF broker[a] # "expired" THEN "error"
  ELSE IF OnTimeout = "allow" THEN "approved" ELSE "denied"

\* Faulty variant of Cancel: a failed publish leaves its entry behind.
KeepEntryWhenPublishFailed(a) ==
  /\ broker[a] \in {"failed", "expired", "interrupted"}
  /\ entries' = IF broker[a] = "failed" THEN entries ELSE entries \ {a}
  /\ ReturnFrom(a, ResultWithoutAnswer(a))
  /\ UNCHANGED <<notified, answers, callback>>

(* Registry.Cancel and the return that follows it. *)
Cancel(a) ==
  /\ broker[a] \in {"failed", "expired", "interrupted"}
  /\ entries' = entries \ {a}
  /\ ReturnFrom(a, ResultWithoutAnswer(a))
  /\ UNCHANGED <<notified, answers, callback>>

-----------------------------------------------------------------------------
(* Registry.Handler and Registry.Resolve *)

\* Faulty variant of Claim: the entry is found and left in place.
ClaimWithoutDelete(c, a, v) ==
  /\ callback[c].pc = "idle"
  /\ a \in notified
  /\ a \in entries
  /\ callback' = [callback EXCEPT ![c] = [pc |-> "claimed", ask |-> a, answer |-> v]]
  /\ UNCHANGED <<broker, result, notified, entries, answers>>

\* Faulty variant of Claim: a nonce may be used after its call is over.
ClaimAnyTime(c, a, v) ==
  /\ callback[c].pc = "idle"
  /\ a \in notified
  /\ \A d \in Callbacks : callback[d].ask # a
  /\ entries' = entries \ {a}
  /\ callback' = [callback EXCEPT ![c] = [pc |-> "claimed", ask |-> a, answer |-> v]]
  /\ UNCHANGED <<broker, result, notified, answers>>

(* Resolve, locked: the entry is found and deleted. *)
Claim(c, a, v) ==
  /\ callback[c].pc = "idle"
  /\ a \in notified
  /\ a \in entries
  /\ entries' = entries \ {a}
  /\ callback' = [callback EXCEPT ![c] = [pc |-> "claimed", ask |-> a, answer |-> v]]
  /\ UNCHANGED <<broker, result, notified, answers>>

(* Resolve, locked: the nonce is unknown or used; the callback answers 404. *)
Miss(c, a, v) ==
  /\ callback[c].pc = "idle"
  /\ a \in notified
  /\ a \notin entries
  /\ callback' = [callback EXCEPT ![c] = [pc |-> "missed", ask |-> a, answer |-> v]]
  /\ UNCHANGED <<broker, result, notified, entries, answers>>

\* Faulty variant of Send: a non-blocking send that drops the answer.
SendIfReceiverWaits(c) ==
  LET a == callback[c].ask IN
  /\ callback[c].pc = "claimed"
  /\ answers' = IF broker[a] = "waiting"
                THEN [answers EXCEPT ![a] = Append(@, callback[c].answer)]
                ELSE answers
  /\ callback' = [callback EXCEPT ![c].pc = "acked"]
  /\ UNCHANGED <<broker, result, notified, entries>>

(* Resolve, unlocked: entry.ch <- approved, which blocks on a full buffer;  *)
(* then the callback answers 200.                                           *)
Send(c) ==
  LET a == callback[c].ask IN
  /\ callback[c].pc = "claimed"
  /\ Len(answers[a]) < Capacity
  /\ answers' = [answers EXCEPT ![a] = Append(@, callback[c].answer)]
  /\ callback' = [callback EXCEPT ![c].pc = "acked"]
  /\ UNCHANGED <<broker, result, notified, entries>>

-----------------------------------------------------------------------------
AskStep(a) ==
  \/ Register(a)
  \/ RegisterFails(a)
  \/ Notify(a)
  \/ Published(a)
  \/ PublishFails(a)
  \/ ReceiveAnswer(a)
  \/ Expire(a)
  \/ Interrupt(a)
  \/ Cancel(a)

Tap(c) ==
  \E a \in Asks, v \in Answers : Claim(c, a, v) \/ Miss(c, a, v)

Next ==
  \/ \E a \in Asks : AskStep(a)
  \/ \E c \in Callbacks : Tap(c) \/ Send(c)

(* publish ends because the client has a 10 s timeout; the select ends      *)
(* because its timer was started; a goroutine that can run does.  Nothing   *)
(* makes the human answer, and nothing makes the context be cancelled.      *)
Fairness ==
  /\ \A a \in Asks :
       /\ WF_vars(Published(a) \/ PublishFails(a))
       /\ WF_vars(ReceiveAnswer(a) \/ Expire(a))
       /\ WF_vars(Cancel(a))
  /\ \A c \in Callbacks : WF_vars(Send(c))

Spec == Init /\ [][Next]_vars /\ Fairness

-----------------------------------------------------------------------------
(* Callback c took the nonce of ask a. *)
Claimed(c, a) == callback[c].pc \in {"claimed", "acked"} /\ callback[c].ask = a

(* A call is reported approved only if a callback to /approve/ with its own *)
(* nonce was served: no timeout, cancellation, failed publish or answer to  *)
(* another call turns into an approval (Broker.Approve, Registry.Resolve).  *)
GrantedOnlyByApproval ==
  \A a \in Asks :
    result[a] = "approved" =>
      \E c \in Callbacks :
        /\ Claimed(c, a)
        /\ callback[c].pc = "acked"
        /\ callback[c].answer = "approve"

(* A nonce is consumed once: of all the callbacks that carry it, however    *)
(* they interleave with each other and with Cancel, at most one is served   *)
(* (the lookup and the delete of Resolve are under one lock).               *)
NonceSingleUse ==
  \A a \in Asks : \A c, d \in Callbacks : Claimed(c, a) /\ Claimed(d, a) => c = d

(* A callback that took its entry finds room in the channel, so the send of *)
(* Resolve never blocks, even when nobody waits for the answer any more.    *)
ResolveNeverBlocks ==
  \A c \in Callbacks :
    callback[c].pc = "claimed" => Len(answers[callback[c].ask]) < Capacity

(* The registry holds no entry of a call that is over or has not begun: no  *)
(* way out of Approve forgets to discard its nonce.                         *)
NoEntryLeft == \A a \in entries : broker[a] \in Asking

(* An ask leaves nothing behind that jams the registry: neither an entry    *)
(* nor a channel with no room for the one answer that may still come.       *)
NothingJams == ResolveNeverBlocks /\ NoEntryLeft

(* A call never waits for an answer that cannot come: while it waits, its   *)
(* nonce can still be claimed, or the callback that claimed it is about to  *)
(* send, or the answer is in the channel.                                   *)
NeverWaitsInVain ==
  \A a \in Asks :
    broker[a] = "waiting" =>
      \/ a \in entries
      \/ \E c \in Callbacks : callback[c].pc = "claimed" /\ callback[c].ask = a
      \/ answers[a] # << >>

(* Every Approve that has registered its nonce returns, whatever the human  *)
(* does and however publish ends.                                           *)
EveryAskReturns ==
  \A a \in Asks : broker[a] = "publishing" ~> broker[a] = "returned"

(* Every callback that took its entry gets its 200. *)
EveryCallbackCompletes ==
  \A c \in Callbacks : callback[c].pc = "claimed" ~> callback[c].pc = "acked"

(* Neither side of an approval keeps the other waiting for ever. *)
EveryoneReturns == EveryAskReturns /\ EveryCallbackCompletes

-----------------------------------------------------------------------------
(* The abstraction: what ApprovalGate's variables are in this module. *)
statusBar ==
  [a \in Asks |->
     IF broker[a] = "idle" THEN "idle"
     ELSE IF broker[a] # "returned" THEN "waiting"
     ELSE IF result[a] = "approved" THEN "granted" ELSE "refused"]

voteBar ==
  [a \in Asks |->
     IF \E c \in Callbacks : Claimed(c, a) /\ callback[c].answer = "approve" THEN "approve"
     ELSE IF \E c \in Callbacks : Claimed(c, a) THEN "deny" ELSE "none"]

Gate == INSTANCE ApprovalGate WITH status <- statusBar, vote <- voteBar

(* The broker and the registry implement the contract the enforcement layer *)
(* relies on, its liveness included.                                        *)
GateImplemented == Gate!Spec
=============================================================================
