--------------------------- MODULE ApprovalProofs ---------------------------
(***************************************************************************)
(* Theorems about Approval, for any number of calls and callbacks.          *)
(*                                                                         *)
(* The safety properties are not inductive one by one.  What carries them   *)
(* is where an answer can be: a registered nonce has been claimed by nobody *)
(* and its channel is empty; a claimed nonce has one claimant, and the      *)
(* channel is empty until that claimant sends; what is in the channel is    *)
(* what the claimant carried.  IndInv says this.                            *)
(***************************************************************************)
EXTENDS Approval, TLAPS

(* A registered nonce belongs to a live call and is untouched. *)
EntriesFresh ==
  \A a \in entries :
    /\ broker[a] \in Asking
    /\ answers[a] = << >>
    /\ \A c \in Callbacks : ~Claimed(c, a)

(* A callback that has not sent yet finds the channel empty. *)
ClaimantsSendFirst ==
  \A c \in Callbacks :
    callback[c].pc = "claimed" =>
      /\ callback[c].ask \in Asks
      /\ answers[callback[c].ask] = << >>

(* The channel holds nothing but the answer its claimant sent. *)
AnswersAreSent ==
  \A a \in Asks :
    answers[a] # << >> =>
      \E c \in Callbacks :
        /\ Claimed(c, a)
        /\ callback[c].pc = "acked"
        /\ answers[a] = <<callback[c].answer>>

(* Nobody taps before being notified, or is notified before being asked. *)
TapsFollowNotice ==
  /\ \A c \in Callbacks :
       callback[c].pc # "idle" =>
         callback[c].ask \in notified /\ callback[c].answer \in Answers
  /\ \A a \in notified : broker[a] # "idle"

(* A call that publishes or waits can still be answered. *)
Answerable ==
  \A a \in Asks :
    broker[a] \in {"publishing", "waiting"} =>
      \/ a \in entries
      \/ \E c \in Callbacks : callback[c].pc = "claimed" /\ callback[c].ask = a
      \/ answers[a] # << >>

(* A result is there exactly when Approve has returned. *)
ResultsAtReturn ==
  \A a \in Asks : broker[a] # "returned" => result[a] = "none"

IndInv ==
  /\ TypeOK
  /\ EntriesFresh
  /\ NonceSingleUse
  /\ ClaimantsSendFirst
  /\ AnswersAreSent
  /\ TapsFollowNotice
  /\ Answerable
  /\ ResultsAtReturn
  /\ GrantedOnlyByApproval

-----------------------------------------------------------------------------
(* The initial state satisfies the invariant. *)
LEMMA InitIndInv == Init => IndInv
BY DEF Init, IndInv, TypeOK, EntriesFresh, NonceSingleUse, ClaimantsSendFirst,
       AnswersAreSent, TapsFollowNotice, Answerable, ResultsAtReturn,
       GrantedOnlyByApproval, Claimed, BrokerStates, Results, CallbackStates,
       Answers, Asking

(* The steps of Broker.Approve preserve the invariant. *)
LEMMA AskStepIndInv ==
  ASSUME IndInv, NEW a \in Asks, AskStep(a)
  PROVE  IndInv'
<1> USE DEF IndInv, TypeOK, BrokerStates, Asking, Results, CallbackStates, Answers
<1>1. CASE Register(a)
  BY <1>1 DEF Register, EntriesFresh, NonceSingleUse, ClaimantsSendFirst,
     AnswersAreSent, TapsFollowNotice, Answerable, ResultsAtReturn,
     GrantedOnlyByApproval, Claimed
<1>2. CASE RegisterFails(a)
  BY <1>2 DEF RegisterFails, ReturnFrom, EntriesFresh, NonceSingleUse,
     ClaimantsSendFirst, AnswersAreSent, TapsFollowNotice, Answerable,
     ResultsAtReturn, GrantedOnlyByApproval, Claimed
<1>3. CASE Notify(a)
  BY <1>3 DEF Notify, EntriesFresh, NonceSingleUse, ClaimantsSendFirst,
     AnswersAreSent, TapsFollowNotice, Answerable, ResultsAtReturn,
     GrantedOnlyByApproval, Claimed
<1>4. CASE Published(a)
  BY <1>4 DEF Published, EntriesFresh, NonceSingleUse, ClaimantsSendFirst,
     AnswersAreSent, TapsFollowNotice, Answerable, ResultsAtReturn,
     GrantedOnlyByApproval, Claimed
<1>5. CASE PublishFails(a)
  BY <1>5 DEF PublishFails, EntriesFresh, NonceSingleUse, ClaimantsSendFirst,
     AnswersAreSent, TapsFollowNotice, Answerable, ResultsAtReturn,
     GrantedOnlyByApproval, Claimed
<1>6. CASE ReceiveAnswer(a)
  <2>1. PICK c \in Callbacks :
          /\ Claimed(c, a)
          /\ callback[c].pc = "acked"
          /\ answers[a] = <<callback[c].answer>>
    BY <1>6 DEF ReceiveAnswer, AnswersAreSent
  <2>2. /\ Head(answers[a]) = callback[c].answer
        /\ Tail(answers[a]) = << >>
    BY <2>1
  <2>3. /\ broker[a] = "waiting"
        /\ answers' = [answers EXCEPT ![a] = << >>]
        /\ broker' = [broker EXCEPT ![a] = "returned"]
        /\ result' = [result EXCEPT ![a] =
             IF callback[c].answer = "approve" THEN "approved" ELSE "denied"]
        /\ UNCHANGED <<notified, entries, callback>>
    BY <1>6, <2>2 DEF ReceiveAnswer, ReturnFrom
  <2>4. a \notin entries
    BY <2>1 DEF EntriesFresh
  <2>5. TypeOK'
    BY <2>3
  <2>6. GrantedOnlyByApproval'
    BY <2>1, <2>3 DEF GrantedOnlyByApproval, Claimed
  <2>7. AnswersAreSent'
    <3>1. ASSUME NEW b \in Asks, answers'[b] # << >>
          PROVE  \E d \in Callbacks :
                   /\ Claimed(d, b)'
                   /\ callback'[d].pc = "acked"
                   /\ answers'[b] = <<callback'[d].answer>>
      <4>1. answers'[b] = answers[b]
        BY <2>3, <3>1
      <4>2. PICK d \in Callbacks :
              Claimed(d, b) /\ callback[d].pc = "acked" /\ answers[b] = <<callback[d].answer>>
        BY <3>1, <4>1 DEF AnswersAreSent
      <4> QED BY <2>3, <4>1, <4>2 DEF Claimed
    <3> QED BY <3>1 DEF AnswersAreSent
  <2>10. ClaimantsSendFirst'
    BY <2>3 DEF ClaimantsSendFirst, Claimed
  <2>8. EntriesFresh' /\ Answerable'
    BY <2>3, <2>4 DEF EntriesFresh, Answerable, Claimed
  <2>9. NonceSingleUse' /\ TapsFollowNotice' /\ ResultsAtReturn'
    BY <2>3 DEF NonceSingleUse, TapsFollowNotice, ResultsAtReturn, Claimed
  <2> QED BY <2>5, <2>6, <2>7, <2>8, <2>9, <2>10
<1>7. CASE Expire(a)
  BY <1>7 DEF Expire, EntriesFresh, NonceSingleUse, ClaimantsSendFirst,
     AnswersAreSent, TapsFollowNotice, Answerable, ResultsAtReturn,
     GrantedOnlyByApproval, Claimed
<1>8. CASE Interrupt(a)
  BY <1>8 DEF Interrupt, EntriesFresh, NonceSingleUse, ClaimantsSendFirst,
     AnswersAreSent, TapsFollowNotice, Answerable, ResultsAtReturn,
     GrantedOnlyByApproval, Claimed
<1>9. CASE Cancel(a)
  BY <1>9, OnTimeoutAssumption DEF Cancel, ReturnFrom, ResultWithoutAnswer,
     EntriesFresh, NonceSingleUse, ClaimantsSendFirst, AnswersAreSent,
     TapsFollowNotice, Answerable, ResultsAtReturn, GrantedOnlyByApproval, Claimed
<1> QED
  BY <1>1, <1>2, <1>3, <1>4, <1>5, <1>6, <1>7, <1>8, <1>9 DEF AskStep

(* The steps of a callback preserve the invariant. *)
LEMMA CallbackStepIndInv ==
  ASSUME IndInv, NEW c \in Callbacks, Tap(c) \/ Send(c)
  PROVE  IndInv'
<1> USE DEF IndInv, TypeOK, BrokerStates, Asking, Results, CallbackStates, Answers
<1>1. ASSUME NEW a \in Asks, NEW v \in Answers, Claim(c, a, v)
      PROVE  IndInv'
  <2>1. TypeOK'
    BY <1>1 DEF Claim
  <2>2. \A d \in Callbacks : ~Claimed(d, a)
    BY <1>1 DEF Claim, EntriesFresh
  <2>3. \A d \in Callbacks, b \in Asks :
          Claimed(d, b)' <=> Claimed(d, b) \/ (d = c /\ b = a)
    BY <1>1 DEF Claim, Claimed
  <2>4. EntriesFresh' /\ NonceSingleUse'
    BY <1>1, <2>2, <2>3 DEF Claim, EntriesFresh, NonceSingleUse
  <2>5. ClaimantsSendFirst' /\ TapsFollowNotice' /\ ResultsAtReturn'
    BY <1>1 DEF Claim, EntriesFresh, ClaimantsSendFirst, TapsFollowNotice,
       ResultsAtReturn
  <2>6. AnswersAreSent' /\ GrantedOnlyByApproval'
    <3>1. \A d \in Callbacks : callback[d].pc = "acked" => callback'[d] = callback[d]
      BY <1>1 DEF Claim
    <3>2. UNCHANGED <<answers, result>>
      BY <1>1 DEF Claim
    <3>3. ASSUME NEW b \in Asks, answers'[b] # << >>
          PROVE  \E d \in Callbacks :
                   /\ Claimed(d, b)'
                   /\ callback'[d].pc = "acked"
                   /\ answers'[b] = <<callback'[d].answer>>
      <4>1. PICK d \in Callbacks :
              Claimed(d, b) /\ callback[d].pc = "acked" /\ answers[b] = <<callback[d].answer>>
        BY <3>2, <3>3 DEF AnswersAreSent
      <4> QED BY <2>3, <3>1, <3>2, <4>1
    <3>4. GrantedOnlyByApproval'
      BY <2>3, <3>1, <3>2 DEF GrantedOnlyByApproval
    <3> QED BY <3>3, <3>4 DEF AnswersAreSent
  <2>7. Answerable'
    BY <1>1 DEF Claim, Answerable
  <2> QED BY <2>1, <2>4, <2>5, <2>6, <2>7
<1>2. ASSUME NEW a \in Asks, NEW v \in Answers, Miss(c, a, v)
      PROVE  IndInv'
  <2>1. TypeOK'
    BY <1>2 DEF Miss
  <2>2. \A d \in Callbacks, b \in Asks : Claimed(d, b)' <=> Claimed(d, b)
    BY <1>2 DEF Miss, Claimed
  <2>3. \A d \in Callbacks :
          callback[d].pc \in {"claimed", "acked"} => callback'[d] = callback[d]
    BY <1>2 DEF Miss
  <2>4. EntriesFresh' /\ NonceSingleUse' /\ TapsFollowNotice' /\ ResultsAtReturn'
    BY <1>2, <2>2 DEF Miss, EntriesFresh, NonceSingleUse, TapsFollowNotice,
       ResultsAtReturn
  <2>5. ClaimantsSendFirst' /\ AnswersAreSent'
    BY <1>2, <2>2, <2>3 DEF Miss, ClaimantsSendFirst, AnswersAreSent
  <2>6. Answerable' /\ GrantedOnlyByApproval'
    BY <1>2, <2>2, <2>3 DEF Miss, Answerable, GrantedOnlyByApproval
  <2> QED BY <2>1, <2>4, <2>5, <2>6
<1>3. CASE Send(c)
  <2>0. PICK a \in Asks : a = callback[c].ask
    BY <1>3 DEF Send, ClaimantsSendFirst
  <2>1. /\ a = callback[c].ask
        /\ Claimed(c, a)
        /\ answers[a] = << >>
    BY <1>3, <2>0 DEF Send, ClaimantsSendFirst, Claimed
  <2>2. callback[c].answer \in Answers
    BY <1>3 DEF Send, TapsFollowNotice
  <2>3. answers' = [answers EXCEPT ![a] = <<callback[c].answer>>]
    BY <1>3, <2>1, <2>2 DEF Send
  <2>4. /\ callback' = [callback EXCEPT ![c].pc = "acked"]
        /\ UNCHANGED <<broker, result, notified, entries>>
    BY <1>3 DEF Send
  <2>5. \A d \in Callbacks, b \in Asks : Claimed(d, b)' <=> Claimed(d, b)
    BY <1>3, <2>4 DEF Send, Claimed
  <2>6. a \notin entries
    BY <2>1 DEF EntriesFresh
  <2>7. TypeOK'
    <3>1. <<callback[c].answer>> \in Seq(Answers)
      BY <2>2
    <3>2. answers' \in [Asks -> Seq(Answers)]
      BY <2>3, <3>1
    <3>3. callback' \in [Callbacks -> CallbackStates]
      BY <2>4
    <3> QED BY <2>4, <3>2, <3>3
  <2>8. EntriesFresh' /\ NonceSingleUse' /\ TapsFollowNotice' /\ ResultsAtReturn'
    <3>1. EntriesFresh'
      BY <2>3, <2>4, <2>5, <2>6 DEF EntriesFresh
    <3>2. NonceSingleUse'
      BY <2>5 DEF NonceSingleUse
    <3>3. TapsFollowNotice'
      BY <1>3, <2>4 DEF Send, TapsFollowNotice
    <3>4. ResultsAtReturn'
      BY <2>4 DEF ResultsAtReturn
    <3> QED BY <3>1, <3>2, <3>3, <3>4
  <2>9. ClaimantsSendFirst'
    <3>1. \A d \in Callbacks :
            callback'[d].pc = "claimed" =>
              /\ d # c
              /\ callback[d].pc = "claimed"
              /\ callback'[d].ask = callback[d].ask
              /\ callback[d].ask # a
      BY <2>1, <2>4 DEF NonceSingleUse, Claimed
    <3> QED BY <2>3, <3>1 DEF ClaimantsSendFirst
  <2>10. AnswersAreSent'
    <3>1. callback'[c].pc = "acked" /\ callback'[c].answer = callback[c].answer
      BY <2>4
    <3>2. Claimed(c, a)' /\ answers'[a] = <<callback'[c].answer>>
      BY <2>1, <2>3, <2>5, <3>1
    <3>3. ASSUME NEW b \in Asks, b # a, answers'[b] # << >>
          PROVE  \E d \in Callbacks :
                   /\ Claimed(d, b)'
                   /\ callback'[d].pc = "acked"
                   /\ answers'[b] = <<callback'[d].answer>>
      <4>1. answers'[b] = answers[b]
        BY <2>1, <2>3, <3>3
      <4>2. PICK d \in Callbacks :
              Claimed(d, b) /\ callback[d].pc = "acked" /\ answers[b] = <<callback[d].answer>>
        BY <3>3, <4>1 DEF AnswersAreSent
      <4>3. d # c
        BY <1>3, <4>2 DEF Send
      <4>4. callback'[d] = callback[d]
        BY <2>4, <4>3
      <4> QED BY <2>5, <4>1, <4>2, <4>4
    <3> QED BY <3>1, <3>2, <3>3 DEF AnswersAreSent
  <2>11. Answerable'
    <3>1. answers'[a] # << >>
      BY <2>1, <2>3
    <3>2. ASSUME NEW b \in Asks, b # a, broker'[b] \in {"publishing", "waiting"}
          PROVE  \/ b \in entries'
                 \/ \E d \in Callbacks : callback'[d].pc = "claimed" /\ callback'[d].ask = b
                 \/ answers'[b] # << >>
      <4>1. answers'[b] = answers[b]
        BY <2>1, <2>3, <3>2
      <4>2. ASSUME NEW d \in Callbacks, callback[d].pc = "claimed", callback[d].ask = b
            PROVE  callback'[d].pc = "claimed" /\ callback'[d].ask = b
        BY <2>1, <2>4, <3>2, <4>2
      <4> QED BY <2>4, <3>2, <4>1, <4>2 DEF Answerable
    <3> QED BY <3>1, <3>2 DEF Answerable
  <2>12. GrantedOnlyByApproval'
    <3>1. \A d \in Callbacks :
            callback[d].pc = "acked" => callback'[d] = callback[d]
      BY <1>3, <2>4 DEF Send
    <3> QED BY <2>4, <2>5, <3>1 DEF GrantedOnlyByApproval
  <2> QED BY <2>7, <2>8, <2>9, <2>10, <2>11, <2>12
<1> QED
  BY <1>1, <1>2, <1>3 DEF Tap

-----------------------------------------------------------------------------
(* Every reachable state satisfies the invariant. *)
THEOREM Invariance == Spec => []IndInv
<1>1. IndInv /\ [Next]_vars => IndInv'
  <2> SUFFICES ASSUME IndInv, [Next]_vars
               PROVE  IndInv'
    OBVIOUS
  <2>1. CASE \E a \in Asks : AskStep(a)
    BY <2>1, AskStepIndInv
  <2>2. CASE \E c \in Callbacks : Tap(c) \/ Send(c)
    BY <2>2, CallbackStepIndInv
  <2>3. CASE UNCHANGED vars
    BY <2>3 DEF vars, IndInv, TypeOK, EntriesFresh, NonceSingleUse,
       ClaimantsSendFirst, AnswersAreSent, TapsFollowNotice, Answerable,
       ResultsAtReturn, GrantedOnlyByApproval, Claimed
  <2> QED BY <2>1, <2>2, <2>3 DEF Next
<1> QED BY InitIndInv, <1>1, PTL DEF Spec

(* Approval keeps its types, for any number of calls and callbacks. *)
THEOREM TypeCorrect == Spec => []TypeOK
BY Invariance, PTL DEF IndInv

(* A call is reported approved only if a callback approved that very call,  *)
(* whatever the interleaving of taps, publishes, timers and cancellations.  *)
THEOREM ApprovalIsNecessary == Spec => []GrantedOnlyByApproval
BY Invariance, PTL DEF IndInv

(* Whatever the number of taps, a nonce serves at most one of them. *)
THEOREM OneTapPerNonce == Spec => []NonceSingleUse
BY Invariance, PTL DEF IndInv

(* The unlocked send of Registry.Resolve never blocks, and the registry     *)
(* never holds a nonce whose call is over.                                  *)
THEOREM RegistryStaysFree == Spec => []NothingJams
<1>1. IndInv => ResolveNeverBlocks
  BY DEF IndInv, ClaimantsSendFirst, ResolveNeverBlocks, Capacity
<1>2. IndInv => NoEntryLeft
  BY DEF IndInv, EntriesFresh, NoEntryLeft
<1> QED BY <1>1, <1>2, Invariance, PTL DEF NothingJams

(* A waiting call can always still be answered. *)
THEOREM AnswerStillPossible == Spec => []NeverWaitsInVain
<1>1. IndInv => NeverWaitsInVain
  BY DEF IndInv, Answerable, NeverWaitsInVain
<1> QED BY <1>1, Invariance, PTL

-----------------------------------------------------------------------------
(* A step that leaves broker, result and the claims alone is a stutter of   *)
(* the abstract gate.                                                       *)
LEMMA Unseen ==
  ASSUME UNCHANGED <<broker, result>>,
         \A c \in Callbacks, a \in Asks :
           /\ Claimed(c, a)' <=> Claimed(c, a)
           /\ Claimed(c, a) => callback'[c].answer = callback[c].answer
  PROVE  UNCHANGED Gate!vars
<1>1. statusBar' = statusBar
  BY DEF statusBar
<1>2. voteBar' = voteBar
  BY DEF voteBar
<1> QED BY <1>1, <1>2 DEF Gate!vars

(* A step of Approve that changes no claim leaves the votes alone. *)
LEMMA VotesKept ==
  ASSUME UNCHANGED callback
  PROVE  UNCHANGED voteBar
BY DEF voteBar, Claimed

(* Each step of Approve is a step of the gate or a stutter. *)
LEMMA AskStepRefines ==
  ASSUME IndInv, NEW a \in Asks, AskStep(a)
  PROVE  [Gate!Next]_Gate!vars
<1> USE DEF IndInv, TypeOK, BrokerStates, Asking, Results
<1>1. CASE Register(a)
  <2>1. Gate!Ask(a)
    BY <1>1, VotesKept DEF Register, Gate!Ask, statusBar
  <2> QED BY <2>1 DEF Gate!Next
<1>2. CASE RegisterFails(a)
  <2>1. Gate!CannotAsk(a)
    BY <1>2, VotesKept DEF RegisterFails, ReturnFrom, Gate!CannotAsk, statusBar
  <2> QED BY <2>1 DEF Gate!Next
<1>3. CASE Notify(a) \/ Published(a) \/ PublishFails(a) \/ Expire(a) \/ Interrupt(a)
  <2>1. statusBar' = statusBar
    BY <1>3 DEF Notify, Published, PublishFails, Expire, Interrupt, statusBar
  <2>2. voteBar' = voteBar
    BY <1>3, VotesKept DEF Notify, Published, PublishFails, Expire, Interrupt
  <2> QED BY <2>1, <2>2 DEF Gate!vars
<1>4. CASE ReceiveAnswer(a)
  <2>1. PICK c \in Callbacks :
          /\ Claimed(c, a)
          /\ callback[c].pc = "acked"
          /\ answers[a] = <<callback[c].answer>>
    BY <1>4 DEF ReceiveAnswer, AnswersAreSent
  <2>2. Head(answers[a]) = callback[c].answer
    BY <2>1
  <2>3. voteBar' = voteBar
    BY <1>4, VotesKept DEF ReceiveAnswer
  <2>4. CASE callback[c].answer = "approve"
    <3>1. voteBar[a] = "approve"
      BY <2>1, <2>4 DEF voteBar
    <3>2. statusBar[a] = "waiting" /\ statusBar' = [statusBar EXCEPT ![a] = "granted"]
      BY <1>4, <2>2, <2>4 DEF ReceiveAnswer, ReturnFrom, statusBar
    <3>3. Gate!Grant(a)
      BY <2>3, <3>1, <3>2 DEF Gate!Grant
    <3> QED BY <3>3 DEF Gate!Next, Gate!Return
  <2>5. CASE callback[c].answer # "approve"
    <3>1. statusBar[a] = "waiting" /\ statusBar' = [statusBar EXCEPT ![a] = "refused"]
      BY <1>4, <2>2, <2>5 DEF ReceiveAnswer, ReturnFrom, statusBar
    <3>2. Gate!Refuse(a)
      BY <2>3, <3>1 DEF Gate!Refuse
    <3> QED BY <3>2 DEF Gate!Next, Gate!Return
  <2> QED BY <2>4, <2>5
<1>5. CASE Cancel(a)
  <2>1. ResultWithoutAnswer(a) # "approved"
    BY OnTimeoutAssumption DEF ResultWithoutAnswer
  <2>2. statusBar[a] = "waiting" /\ statusBar' = [statusBar EXCEPT ![a] = "refused"]
    BY <1>5, <2>1 DEF Cancel, ReturnFrom, statusBar
  <2>3. Gate!Refuse(a)
    BY <1>5, <2>2, VotesKept DEF Cancel, Gate!Refuse
  <2> QED BY <2>3 DEF Gate!Next, Gate!Return
<1> QED
  BY <1>1, <1>2, <1>3, <1>4, <1>5 DEF AskStep

(* Claiming a nonce is the vote; everything else a callback does is unseen. *)
LEMMA CallbackStepRefines ==
  ASSUME IndInv, NEW c \in Callbacks, Tap(c) \/ Send(c)
  PROVE  [Gate!Next]_Gate!vars
<1> USE DEF IndInv, TypeOK, CallbackStates
<1>1. ASSUME NEW a \in Asks, NEW v \in Answers, Claim(c, a, v)
      PROVE  [Gate!Next]_Gate!vars
  <2>1. broker[a] \in Asking /\ \A d \in Callbacks : ~Claimed(d, a)
    BY <1>1 DEF Claim, EntriesFresh
  <2>2. statusBar[a] = "waiting" /\ voteBar[a] = "none"
    BY <2>1 DEF statusBar, voteBar, Asking
  <2>3. statusBar' = statusBar
    BY <1>1 DEF Claim, statusBar
  <2>4. \A d \in Callbacks, b \in Asks :
          Claimed(d, b)' <=> Claimed(d, b) \/ (d = c /\ b = a)
    BY <1>1 DEF Claim, Claimed
  <2>5. callback'[c].answer = v /\ \A d \in Callbacks : d # c => callback'[d] = callback[d]
    BY <1>1 DEF Claim
  <2>6. \A b \in Asks : ~Claimed(c, b)
    BY <1>1 DEF Claim, Claimed
  <2>7. voteBar'[a] = v
    BY <2>1, <2>4, <2>5 DEF voteBar, Answers
  <2>8. \A b \in Asks : b # a => voteBar'[b] = voteBar[b]
    BY <2>4, <2>5, <2>6 DEF voteBar
  <2>9. voteBar' = [voteBar EXCEPT ![a] = v]
    <3>1. voteBar' = [b \in Asks |-> voteBar'[b]]
      BY DEF voteBar
    <3>2. [voteBar EXCEPT ![a] = v] = [b \in Asks |-> IF b = a THEN v ELSE voteBar[b]]
      BY DEF voteBar
    <3> QED BY <2>7, <2>8, <3>1, <3>2
  <2>10. Gate!CastVote(a, v)
    BY <2>2, <2>3, <2>9 DEF Gate!CastVote
  <2> QED BY <2>10 DEF Gate!Next, Gate!Votes, Answers
<1>2. ASSUME NEW a \in Asks, NEW v \in Answers, Miss(c, a, v)
      PROVE  [Gate!Next]_Gate!vars
  BY <1>2, Unseen DEF Miss, Claimed
<1>3. CASE Send(c)
  BY <1>3, Unseen DEF Send, Claimed
<1> QED
  BY <1>1, <1>2, <1>3 DEF Tap

(* The broker and the registry implement the safety part of the approval    *)
(* contract the interceptor is written against: one vote at most, a grant   *)
(* only on an approving vote.                                               *)
THEOREM ImplementsGate == Spec => Gate!SafeSpec
<1>1. Init => Gate!Init
  BY DEF Init, Gate!Init, statusBar, voteBar, Claimed
<1>2. IndInv /\ [Next]_vars => [Gate!Next]_Gate!vars
  <2> SUFFICES ASSUME IndInv, [Next]_vars
               PROVE  [Gate!Next]_Gate!vars
    OBVIOUS
  <2>1. CASE \E a \in Asks : AskStep(a)
    BY <2>1, AskStepRefines
  <2>2. CASE \E c \in Callbacks : Tap(c) \/ Send(c)
    BY <2>2, CallbackStepRefines
  <2>3. CASE UNCHANGED vars
    BY <2>3, Unseen DEF vars, Claimed
  <2> QED BY <2>1, <2>2, <2>3 DEF Next
<1> QED BY <1>1, <1>2, Invariance, PTL DEF Spec, Gate!SafeSpec
=============================================================================
