-------------------------- MODULE InterceptorProofs --------------------------
(***************************************************************************)
(* Theorems about Interceptor, for any number of requests, any policy and   *)
(* any configuration policy.validate accepts.                               *)
(*                                                                         *)
(* Two arguments.  IndInv follows a call through its goroutine: what has    *)
(* been established about its action, its record and its vote at each point *)
(* of handleToolsCall, resolveApproval and finish.  PendingInv follows the  *)
(* shared table: while a list request is outstanding its entry is there,    *)
(* for as long as no other message, the server's own included, carries its  *)
(* id.                                                                      *)
(***************************************************************************)
EXTENDS Interceptor, SequenceTheorems, TLAPS

(* The gate knows only calls that an approve rule sent there, and grants    *)
(* only what was voted for.                                                 *)
GateOK(r) ==
  /\ status[r] = "granted" => vote[r] = "approve"
  /\ status[r] # "idle" =>
       /\ req[r].pc \notin {"unsent", "arrived"}
       /\ req[r].method \in Mediated
       /\ Decision[req[r].target] = "approve"
       /\ cfg.mode # "audit"
       /\ cfg.approver

Permitted(r) ==
  \/ Decision[req[r].target] = "allow"
  \/ Decision[req[r].target] = "approve" /\ cfg.approver /\ vote[r] = "approve"

Decided == {"decided", "recorded", "unrecorded", "refused"}

(* What the goroutine of a mediated call has established about its action. *)
ActionOK(r) ==
  /\ req[r].pc = "approving" =>
       /\ req[r].method \in Mediated
       /\ Decision[req[r].target] = "approve"
       /\ cfg.mode # "audit"
       /\ cfg.approver
  /\ req[r].pc \in Decided => req[r].method \in Mediated
  /\ req[r].method \in Mediated /\ req[r].pc \in Decided \cup LetThrough =>
       /\ cfg.mode = "audit" => req[r].action = Decision[req[r].target]
       /\ cfg.mode = "enforce" => req[r].action # "approve"
       /\ cfg.mode = "enforce" /\ req[r].action = "allow" => Permitted(r)

(* Where a call stands and whether it is in the log agree. *)
FinishOK(r) ==
  /\ Logged(r) =>
       req[r].method \in Mediated /\ req[r].pc \in {"recorded", "refused"} \cup LetThrough
  /\ req[r].method \in Mediated =>
       /\ req[r].pc = "recorded" => Logged(r)
       /\ req[r].pc \in LetThrough =>
            /\ cfg.mode = "enforce" => req[r].action = "allow"
            /\ cfg.onError # "continue" => Logged(r)
       /\ req[r].pc = "refused" =>
            \/ cfg.onError # "continue" /\ ~Logged(r)
            \/ cfg.mode = "enforce" /\ req[r].action # "allow"

(* A line is the only one of its call and holds its action. *)
LineOK(n) ==
  /\ \A m \in DOMAIN log : log[m].request = log[n].request => m = n
  /\ log[n].action = req[log[n].request].action

CallOK(r) == GateOK(r) /\ ActionOK(r) /\ FinishOK(r)
LogOK == \A n \in DOMAIN log : LineOK(n)

IndInv == TypeOK /\ (\A r \in Requests : CallOK(r)) /\ LogOK

-----------------------------------------------------------------------------
(* The initial state satisfies the invariant. *)
LEMMA InitIndInv == Init => IndInv
<1> SUFFICES ASSUME Init PROVE IndInv
  OBVIOUS
<1>1. TypeOK
  <2>1. NoRequest \in RequestStates /\ Reply("nothing") \in Replies
    BY DEF NoRequest, RequestStates, States, Methods, Actions, Reply, Replies, Kinds
  <2>2. log \in Seq([request : Requests, action : Actions])
    BY DEF Init
  <2> QED BY <2>1, <2>2 DEF Init, TypeOK, Gate!Init, Gate!TypeOK
<1>2. log = << >> /\ \A r \in Requests : ~Logged(r)
  BY DEF Init, Logged
<1>3. ASSUME NEW r \in Requests PROVE CallOK(r)
  <2>1. req[r].pc = "unsent" /\ req[r].method = "other" /\ status[r] = "idle"
    BY DEF Init, NoRequest, Gate!Init
  <2> QED BY <1>2, <2>1 DEF CallOK, GateOK, ActionOK, FinishOK, Decided, LetThrough, Mediated
<1>4. LogOK
  BY <1>2 DEF LogOK
<1> QED BY <1>1, <1>3, <1>4 DEF IndInv

-----------------------------------------------------------------------------
(* Types *)

LEMMA SendTyped ==
  ASSUME TypeOK, NEW r \in Requests, NEW i \in Ids \cup {NoId}, NEW m \in Methods,
         NEW t \in Targets \cup {"bad"}, Send(r, i, m, t)
  PROVE  TypeOK'
<1>1. [pc |-> "arrived", id |-> i, method |-> m, target |-> t, action |-> "deny"]
        \in RequestStates
  BY DEF RequestStates, States, Judging, Actions
<1>2. req' \in [Requests -> RequestStates]
  BY <1>1 DEF TypeOK, Send
<1> QED BY <1>2 DEF TypeOK, Send, Gate!TypeOK, gateVars

LEMMA GotoTyped ==
  ASSUME TypeOK, NEW r \in Requests, NEW pc \in States, Goto(r, pc)
  PROVE  req' \in [Requests -> RequestStates]
BY DEF TypeOK, Goto, RequestStates

LEMMA FilterTyped ==
  ASSUME NEW reply \in Replies, NEW method \in Listings \cup {"none"}
  PROVE  Outbound(reply, method) \in Replies
BY DEF Outbound, Filter, Reply, Replies, Kinds, Listings

LEMMA RepliesTyped ==
  ASSUME NEW m \in Methods, NEW reply \in ServerReplies(m)
  PROVE  reply \in Replies
BY DEF ServerReplies, Replies, Reply, Kinds, Listings

(* Every action keeps the types. *)
LEMMA NextTyped == TypeOK /\ [Next]_vars => TypeOK'
<1> SUFFICES ASSUME TypeOK, [Next]_vars
             PROVE  TypeOK'
  OBVIOUS
<1> USE DEF TypeOK, gateVars
<1>1. ASSUME NEW r \in Requests, NEW i \in Ids \cup {NoId}, NEW m \in Methods,
             NEW t \in Targets \cup {"bad"}, Send(r, i, m, t)
      PROVE  TypeOK'
  BY <1>1, SendTyped
<1>2. ASSUME NEW r \in Requests, PassOther(r) \/ Forward(r)
      PROVE  TypeOK'
  BY <1>2, GotoTyped DEF PassOther, Forward, States, LetThrough, Gate!TypeOK
<1>3. ASSUME NEW r \in Requests, RememberPending(r)
      PROVE  TypeOK'
  <2>1. req' \in [Requests -> RequestStates]
    BY <1>3, GotoTyped DEF RememberPending, States, LetThrough
  <2>2. req[r].id \in Ids \cup {NoId}
    BY DEF RequestStates
  <2>3. pending' \in [Ids \cup ServerIds -> Listings \cup {"none"}]
    BY <1>3, <2>2 DEF RememberPending
  <2> QED BY <1>3, <2>1, <2>3 DEF RememberPending, Gate!TypeOK
<1>4. ASSUME NEW r \in Requests, Evaluate(r)
      PROVE  TypeOK'
  <2>1. req[r].target \in Targets \cup {"bad"}
    BY DEF RequestStates
  <2>2. Decision[req[r].target] \in Actions
    BY <2>1, PolicyAssumption
  <2>3. PICK pc \in {"approving", "decided"}, action \in Actions :
          req' = [req EXCEPT ![r] = [@ EXCEPT !.pc = pc, !.action = action]]
    BY <1>4, <2>2 DEF Evaluate, Asks, Actions
  <2>4. req' \in [Requests -> RequestStates]
    BY <2>3 DEF RequestStates, States, Judging
  <2> QED BY <1>4, <2>4 DEF Evaluate, Gate!TypeOK
<1>5. ASSUME NEW r \in Requests, AskHuman(r)
      PROVE  TypeOK'
  BY <1>5 DEF AskHuman, Gate!Ask, Gate!CastVote, Gate!TypeOK, Gate!Votes
<1>6. ASSUME NEW r \in Requests, ApproverReturns(r)
      PROVE  TypeOK'
  <2>1. req' \in [Requests -> RequestStates]
    <3>1. PICK action \in Actions :
            req' = [req EXCEPT ![r] = [@ EXCEPT !.pc = "decided", !.action = action]]
      BY <1>6 DEF ApproverReturns, ApproverAction, Actions
    <3> QED BY <3>1 DEF RequestStates, States, Judging
  <2>2. Gate!TypeOK'
    BY <1>6 DEF ApproverReturns, Gate!Return, Gate!Grant, Gate!Refuse, Gate!CannotAsk,
       Gate!TypeOK
  <2> QED BY <1>6, <2>1, <2>2 DEF ApproverReturns
<1>7. ASSUME NEW r \in Requests, Record(r)
      PROVE  TypeOK'
  <2>1. req' \in [Requests -> RequestStates]
    BY <1>7, GotoTyped DEF Record, States, Judging
  <2>2. [request |-> r, action |-> req[r].action] \in [request : Requests, action : Actions]
    BY DEF RequestStates
  <2>3. Append(log, [request |-> r, action |-> req[r].action])
          \in Seq([request : Requests, action : Actions])
    BY <2>2
  <2>4. log' \in Seq([request : Requests, action : Actions])
    BY <1>7, <2>3 DEF Record
  <2> QED BY <1>7, <2>1, <2>4 DEF Record, Gate!TypeOK
<1>8. ASSUME NEW r \in Requests, FinishRecorded(r) \/ FinishUnrecorded(r)
      PROVE  TypeOK'
  <2>1. \/ Goto(r, "forward") /\ UNCHANGED got
        \/ Goto(r, "refused") /\ got' = [got EXCEPT ![r] = Reply("denied")]
    BY <1>8 DEF FinishRecorded, FinishUnrecorded, Enforce, Refuse
  <2>2. req' \in [Requests -> RequestStates]
    BY <2>1, GotoTyped DEF States, LetThrough
  <2>3. got' \in [Requests -> Replies]
    BY <2>1 DEF Reply, Replies, Kinds
  <2> QED BY <1>8, <2>2, <2>3 DEF FinishRecorded, FinishUnrecorded, Gate!TypeOK
<1>9. ASSUME NEW r \in Requests, Fail(r)
      PROVE  TypeOK'
  <2>1. req' \in [Requests -> RequestStates]
    BY <1>9, GotoTyped DEF Fail, States, LetThrough
  <2>2. got' \in [Requests -> Replies]
    BY <1>9 DEF Fail, Reply, Replies, Kinds
  <2> QED BY <1>9, <2>1, <2>2 DEF Fail, Gate!TypeOK
<1>10. ASSUME NEW r \in Requests, NEW reply \in ServerReplies(req[r].method),
              Answer(r, reply)
       PROVE  TypeOK'
  <2>1. req[r].method \in Methods /\ req[r].id \in Ids
    BY <1>10 DEF Answer, RequestStates
  <2>2. reply \in Replies
    BY <2>1, RepliesTyped
  <2>3. PendingMethod(req[r].id) \in Listings \cup {"none"}
    BY <2>1 DEF PendingMethod
  <2>4. Outbound(reply, PendingMethod(req[r].id)) \in Replies
    BY <2>2, <2>3, FilterTyped
  <2>5. req' \in [Requests -> RequestStates]
    BY <1>10, GotoTyped DEF Answer, States, LetThrough
  <2>6. sent' \in [Requests -> Replies] /\ got' \in [Requests -> Replies]
    BY <1>10, <2>2, <2>4 DEF Answer
  <2>7. pending' \in [Ids \cup ServerIds -> Listings \cup {"none"}]
    BY <1>10 DEF Answer, TakePending
  <2> QED BY <1>10, <2>5, <2>6, <2>7 DEF Answer, Gate!TypeOK
<1>11. ASSUME NEW i \in ServerIds, ServerRequest(i)
       PROVE  TypeOK'
  BY <1>11 DEF ServerRequest, TakePending, Gate!TypeOK
<1>12. CASE UNCHANGED vars
  BY <1>12 DEF vars, Gate!TypeOK
<1> QED
  BY <1>1, <1>2, <1>3, <1>4, <1>5, <1>6, <1>7, <1>8, <1>9, <1>10, <1>11, <1>12
     DEF Next, Judge, Serve

-----------------------------------------------------------------------------
(* Who is affected by a step *)

(* A line names a request that the log counts as logged. *)
LEMMA LinesTyped ==
  ASSUME TypeOK, NEW n \in DOMAIN log
  PROVE  /\ log[n] \in [request : Requests, action : Actions]
         /\ log[n].request \in Requests
         /\ Logged(log[n].request)
<1>1. n \in 1..Len(log) /\ log \in Seq([request : Requests, action : Actions])
  BY DEF TypeOK
<1>2. log[n] \in [request : Requests, action : Actions]
  BY <1>1, ElementOfSeq
<1> QED BY <1>2 DEF Logged

(* A call whose goroutine, vote and record do not move keeps its invariant. *)
LEMMA UnmovedOK ==
  ASSUME NEW s \in Requests, CallOK(s), req'[s] = req[s], cfg' = cfg,
         status'[s] = status[s], vote'[s] = vote[s], Logged(s)' <=> Logged(s)
  PROVE  CallOK(s)'
BY DEF CallOK, GateOK, ActionOK, FinishOK, Permitted

(* With the log unchanged, so are the facts about its lines, provided the   *)
(* calls it names keep their action.                                        *)
LEMMA LogKept ==
  ASSUME TypeOK, LogOK, log' = log,
         \A s \in Requests : Logged(s) => req'[s].action = req[s].action
  PROVE  LogOK'
<1> SUFFICES ASSUME NEW n \in DOMAIN log PROVE LineOK(n)'
  BY DEF LogOK
<1>1. req'[log[n].request].action = req[log[n].request].action
  BY LinesTyped
<1> QED BY <1>1 DEF LogOK, LineOK

(* The common shape of a step of request r that leaves the log alone: its   *)
(* own goroutine moves, every other call is where it was.                   *)
LEMMA OnlyOneMoves ==
  ASSUME IndInv, NEW r \in Requests,
         \A s \in Requests : s # r => /\ req'[s] = req[s]
                                      /\ status'[s] = status[s]
                                      /\ vote'[s] = vote[s],
         UNCHANGED <<cfg, log>>,
         Logged(r) => req'[r].action = req[r].action,
         CallOK(r)'
  PROVE  (\A s \in Requests : CallOK(s)') /\ LogOK'
<1>1. \A s \in Requests : Logged(s)' <=> Logged(s)
  BY DEF Logged
<1>2. ASSUME NEW s \in Requests, s # r PROVE CallOK(s)'
  BY <1>1, <1>2, UnmovedOK DEF IndInv
<1>3. LogOK'
  BY LogKept DEF IndInv
<1> QED BY <1>2, <1>3

-----------------------------------------------------------------------------
(* The goroutine's invariant, action by action *)

Core == (\A r \in Requests : CallOK(r)) /\ LogOK

(* Sending: the request is new, so neither log nor gate knows it. *)
LEMMA SendCore ==
  ASSUME IndInv, NEW r \in Requests, NEW i \in Ids \cup {NoId}, NEW m \in Methods,
         NEW t \in Targets \cup {"bad"}, Send(r, i, m, t)
  PROVE  Core'
<1>1. /\ req[r].pc = "unsent"
      /\ req'[r].pc = "arrived"
      /\ \A s \in Requests : s # r => req'[s] = req[s]
      /\ UNCHANGED <<cfg, log, status, vote>>
  BY DEF Send, IndInv, TypeOK, gateVars
<1>2. status[r] = "idle" /\ ~Logged(r)
  BY <1>1 DEF IndInv, CallOK, GateOK, FinishOK, LetThrough
<1>3. ~Logged(r)'
  BY <1>1, <1>2 DEF Logged
<1>4. CallOK(r)'
  BY <1>1, <1>2, <1>3 DEF CallOK, GateOK, ActionOK, FinishOK, Decided, LetThrough
<1> QED BY <1>1, <1>2, <1>4, OnlyOneMoves DEF Core

(* A message that is not mediated is passed on, or one that was let through *)
(* travels to the server and back: nothing the invariant says changes.      *)
LEMMA MoveCore ==
  ASSUME IndInv, NEW r \in Requests, NEW pc \in LetThrough, Goto(r, pc),
         UNCHANGED <<cfg, log, status, vote>>,
         \/ req[r].pc = "arrived" /\ req[r].method \notin Mediated
         \/ req[r].pc \in LetThrough
  PROVE  Core'
<1>1. /\ req'[r] = [req[r] EXCEPT !.pc = pc]
      /\ \A s \in Requests : s # r => req'[s] = req[s]
  BY DEF Goto, IndInv, TypeOK
<1>2. /\ req'[r].method = req[r].method
      /\ req'[r].target = req[r].target
      /\ req'[r].action = req[r].action
      /\ req'[r].pc = pc
  BY <1>1 DEF IndInv, TypeOK, RequestStates
<1>3. Logged(r)' <=> Logged(r)
  BY DEF Logged
<1>4. CallOK(r)
  BY DEF IndInv
<1>5. GateOK(r)' /\ ActionOK(r)'
  BY <1>2, <1>4 DEF CallOK, GateOK, ActionOK, Permitted, Decided, LetThrough
<1>6. FinishOK(r)'
  BY <1>2, <1>3, <1>4 DEF CallOK, FinishOK, LetThrough
<1>7. CallOK(r)'
  BY <1>5, <1>6 DEF CallOK
<1> QED BY <1>1, <1>2, <1>7, OnlyOneMoves DEF Core

(* Evaluating: a decision that needs nobody is final, and in enforce mode   *)
(* it is never left at approve.                                             *)
LEMMA EvaluateCore ==
  ASSUME IndInv, NEW r \in Requests, Evaluate(r)
  PROVE  Core'
<1> DEFINE pc == IF Asks(r) /\ cfg.approver THEN "approving" ELSE "decided"
           action == IF Asks(r) /\ ~cfg.approver THEN "deny" ELSE Decision[req[r].target]
<1>1. /\ req[r].pc = "arrived" /\ req[r].method \in Mediated
      /\ req'[r] = [req[r] EXCEPT !.pc = pc, !.action = action]
      /\ \A s \in Requests : s # r => req'[s] = req[s]
      /\ UNCHANGED <<cfg, log, status, vote>>
  BY DEF Evaluate, IndInv, TypeOK, gateVars
<1>2. /\ req'[r].method = req[r].method
      /\ req'[r].target = req[r].target
      /\ req'[r].action = action
      /\ req'[r].pc = pc
  BY <1>1 DEF IndInv, TypeOK, RequestStates
<1>3. cfg.mode \in {"enforce", "audit"} /\ Decision[req[r].target] \in Actions
  BY ConfigsAssumption, PolicyAssumption DEF IndInv, TypeOK, RequestStates, Modes
<1>4. status[r] = "idle" /\ ~Logged(r)
  BY <1>1 DEF IndInv, CallOK, GateOK, FinishOK, LetThrough
<1>5. ~Logged(r)'
  BY <1>1, <1>4 DEF Logged
<1>6. GateOK(r)' /\ FinishOK(r)'
  BY <1>1, <1>2, <1>4, <1>5 DEF GateOK, FinishOK, LetThrough
<1>7. ActionOK(r)'
  BY <1>1, <1>2, <1>3 DEF ActionOK, Decided, LetThrough, Permitted, Asks, Actions
<1>8. CallOK(r)'
  BY <1>6, <1>7 DEF CallOK
<1> QED BY <1>1, <1>4, <1>8, OnlyOneMoves DEF Core

(* Asking: only the gate moves, and a vote once cast stays. *)
LEMMA AskHumanCore ==
  ASSUME IndInv, NEW r \in Requests, AskHuman(r)
  PROVE  Core'
<1>1. UNCHANGED <<cfg, req, log>> /\ req[r].pc = "approving"
  BY DEF AskHuman
<1>2. /\ status'[r] = "waiting"
      /\ vote[r] = "approve" => vote'[r] = "approve"
      /\ \A s \in Requests : s # r => status'[s] = status[s] /\ vote'[s] = vote[s]
  BY DEF AskHuman, Gate!Ask, Gate!CastVote, IndInv, TypeOK, Gate!TypeOK
<1>3. Logged(r)' <=> Logged(r)
  BY <1>1 DEF Logged
<1>4. CallOK(r)
  BY DEF IndInv
<1>5. CallOK(r)'
  BY <1>1, <1>2, <1>3, <1>4 DEF CallOK, GateOK, ActionOK, FinishOK, Permitted, Decided, LetThrough
<1> QED BY <1>1, <1>2, <1>5, OnlyOneMoves DEF Core

(* Returning from the approver: an allow needs an approving vote. *)
LEMMA ApproverReturnsCore ==
  ASSUME IndInv, NEW r \in Requests, ApproverReturns(r)
  PROVE  Core'
<1>1. /\ req[r].pc = "approving"
      /\ req'[r] = [req[r] EXCEPT !.pc = "decided", !.action = ApproverAction(r)]
      /\ \A s \in Requests : s # r => req'[s] = req[s]
      /\ UNCHANGED <<cfg, log>>
  BY DEF ApproverReturns, IndInv, TypeOK
<1>2. /\ vote' = vote
      /\ status'[r] = "granted" => vote[r] = "approve"
      /\ \A s \in Requests : s # r => status'[s] = status[s]
  BY DEF ApproverReturns, Gate!Return, Gate!Grant, Gate!Refuse, Gate!CannotAsk, IndInv,
     TypeOK, Gate!TypeOK
<1>3. /\ req'[r].method = req[r].method
      /\ req'[r].target = req[r].target
      /\ req'[r].action = ApproverAction(r)
      /\ req'[r].pc = "decided"
  BY <1>1 DEF IndInv, TypeOK, RequestStates
<1>4. /\ req[r].method \in Mediated
      /\ Decision[req[r].target] = "approve"
      /\ cfg.mode # "audit"
      /\ cfg.approver
      /\ ~Logged(r)
  BY <1>1 DEF IndInv, CallOK, ActionOK, FinishOK, LetThrough
<1>5. ~Logged(r)'
  BY <1>1, <1>4 DEF Logged
<1>6. GateOK(r)' /\ FinishOK(r)'
  BY <1>1, <1>2, <1>3, <1>4, <1>5 DEF GateOK, FinishOK, LetThrough
<1>7. ActionOK(r)'
  BY <1>1, <1>2, <1>3, <1>4 DEF ActionOK, Permitted, ApproverAction
<1>8. CallOK(r)'
  BY <1>6, <1>7 DEF CallOK
<1> QED BY <1>1, <1>2, <1>4, <1>8, OnlyOneMoves DEF Core

(* Recording: the line written is the call's first and only one. *)
LEMMA RecordCore ==
  ASSUME IndInv, NEW r \in Requests, Record(r)
  PROVE  Core'
<1> DEFINE line == [request |-> r, action |-> req[r].action]
<1>1. req[r].pc = "decided" /\ UNCHANGED <<cfg, status, vote>>
  BY DEF Record, gateVars
<1>2. \A s \in Requests : s # r => req'[s] = req[s]
  BY DEF Record, Goto, IndInv, TypeOK
<1>3. /\ req'[r].method = req[r].method
      /\ req'[r].target = req[r].target
      /\ req'[r].action = req[r].action
  BY DEF Record, Goto, IndInv, TypeOK, RequestStates
<1>4. CallOK(r) /\ ~Logged(r) /\ req[r].method \in Mediated
  BY <1>1 DEF IndInv, CallOK, ActionOK, FinishOK, Decided, LetThrough
<1>5. CASE log' = Append(log, line) /\ Goto(r, "recorded")
  <2>1. /\ DOMAIN log' = 1..(Len(log) + 1)
        /\ DOMAIN log = 1..Len(log)
        /\ Len(log) \in Nat
        /\ \A n \in 1..Len(log) : log'[n] = log[n]
        /\ log'[Len(log) + 1] = line
    BY <1>5 DEF IndInv, TypeOK
  <2>2. req'[r].pc = "recorded"
    BY <1>5 DEF Goto, IndInv, TypeOK, RequestStates
  <2>3. Logged(r)'
    BY <2>1 DEF Logged
  <2>4. \A s \in Requests : s # r => (Logged(s)' <=> Logged(s))
    BY <2>1 DEF Logged
  <2>5. GateOK(r)' /\ ActionOK(r)' /\ FinishOK(r)'
    BY <1>1, <1>3, <1>4, <2>2, <2>3 DEF CallOK, GateOK, ActionOK, FinishOK, Permitted, Decided, LetThrough
  <2>6. ASSUME NEW s \in Requests, s # r PROVE CallOK(s)'
    BY <1>1, <1>2, <2>4, <2>6, UnmovedOK DEF IndInv
  <2>7. \A n \in 1..Len(log) : log[n].request \in Requests /\ log[n].request # r
    BY <1>4, <2>1, LinesTyped DEF IndInv, Logged
  <2>8. ASSUME NEW n \in DOMAIN log' PROVE LineOK(n)'
    <3>1. CASE n = Len(log) + 1
      BY <1>3, <2>1, <2>7, <3>1 DEF LineOK
    <3>2. CASE n \in 1..Len(log)
      <4>1. LineOK(n) /\ log'[n].request = log[n].request /\ log[n].request # r
        BY <2>1, <2>7, <3>2 DEF IndInv, LogOK
      <4>2. \A m \in DOMAIN log' : log'[m].request = log'[n].request => m = n
        BY <2>1, <4>1, <3>2 DEF LineOK
      <4>3. log'[n].action = req'[log'[n].request].action
        BY <1>2, <2>1, <2>7, <3>2, <4>1 DEF LineOK
      <4> QED BY <4>2, <4>3 DEF LineOK
    <3> QED BY <2>1, <2>8, <3>1, <3>2
  <2> QED BY <2>5, <2>6, <2>8 DEF Core, CallOK, LogOK
<1>6. CASE Goto(r, "unrecorded") /\ UNCHANGED log
  <2>1. req'[r].pc = "unrecorded"
    BY <1>6 DEF Goto, IndInv, TypeOK, RequestStates
  <2>2. ~Logged(r)'
    BY <1>4, <1>6 DEF Logged
  <2>3. CallOK(r)'
    BY <1>1, <1>3, <1>4, <2>1, <2>2 DEF CallOK, GateOK, ActionOK, FinishOK, Permitted, Decided, LetThrough
  <2> QED BY <1>1, <1>2, <1>4, <1>6, <2>3, OnlyOneMoves DEF Core
<1> QED BY <1>5, <1>6 DEF Record

(* Finishing: only an allowed call, or any call in audit mode, goes through; *)
(* an unrecorded one needs on_error: continue as well.                      *)
LEMMA FinishCore ==
  ASSUME IndInv, NEW r \in Requests, FinishRecorded(r) \/ FinishUnrecorded(r)
  PROVE  Core'
<1>1. /\ UNCHANGED <<cfg, log, status, vote>>
      /\ req[r].pc \in {"recorded", "unrecorded"}
  BY DEF FinishRecorded, FinishUnrecorded, gateVars
<1>2. \/ /\ Goto(r, "forward")
         /\ cfg.mode = "audit" \/ req[r].action = "allow"
         /\ req[r].pc = "recorded" \/ cfg.onError = "continue"
      \/ /\ Goto(r, "refused")
         /\ \/ cfg.mode # "audit" /\ req[r].action # "allow"
            \/ req[r].pc = "unrecorded" /\ cfg.onError # "continue"
  BY DEF FinishRecorded, FinishUnrecorded, Enforce, Refuse
<1>3. \A s \in Requests : s # r => req'[s] = req[s]
  BY <1>2 DEF Goto, IndInv, TypeOK
<1>4. /\ req'[r].method = req[r].method
      /\ req'[r].target = req[r].target
      /\ req'[r].action = req[r].action
  BY <1>2 DEF Goto, IndInv, TypeOK, RequestStates
<1>5. \/ /\ req'[r].pc = "forward"
         /\ cfg.mode = "audit" \/ req[r].action = "allow"
         /\ req[r].pc = "recorded" \/ cfg.onError = "continue"
      \/ /\ req'[r].pc = "refused"
         /\ \/ cfg.mode # "audit" /\ req[r].action # "allow"
            \/ req[r].pc = "unrecorded" /\ cfg.onError # "continue"
  BY <1>2 DEF Goto, IndInv, TypeOK, RequestStates
<1>6. CallOK(r) /\ cfg.mode \in {"enforce", "audit"}
  BY ConfigsAssumption DEF IndInv, TypeOK, Modes
<1>7. Logged(r)' <=> Logged(r)
  BY <1>1 DEF Logged
<1>8. /\ req[r].method \in Mediated
      /\ req[r].pc = "recorded" => Logged(r)
      /\ req[r].pc = "unrecorded" => ~Logged(r)
  BY <1>1, <1>6 DEF CallOK, ActionOK, FinishOK, Decided, LetThrough
<1>9. GateOK(r)' /\ ActionOK(r)'
  BY <1>1, <1>4, <1>5, <1>6, <1>8 DEF CallOK, GateOK, ActionOK, Permitted, Decided, LetThrough
<1>10. FinishOK(r)'
  BY <1>1, <1>4, <1>5, <1>6, <1>7, <1>8 DEF FinishOK, LetThrough
<1>11. CallOK(r)'
  BY <1>9, <1>10 DEF CallOK
<1> QED BY <1>1, <1>3, <1>4, <1>11, OnlyOneMoves DEF Core

-----------------------------------------------------------------------------
(* Every reachable state satisfies the invariant. *)
THEOREM Invariance == Spec => []IndInv
<1>1. IndInv /\ [Next]_vars => IndInv'
  <2> SUFFICES ASSUME IndInv, [Next]_vars
               PROVE  Core'
    BY NextTyped DEF IndInv, Core
  <2>1. ASSUME NEW r \in Requests, NEW i \in Ids \cup {NoId}, NEW m \in Methods,
               NEW t \in Targets \cup {"bad"}, Send(r, i, m, t)
        PROVE  Core'
    BY <2>1, SendCore
  <2>2. ASSUME NEW r \in Requests, PassOther(r) \/ RememberPending(r)
        PROVE  Core'
    <3>1. /\ Goto(r, "forward")
          /\ UNCHANGED <<cfg, log, status, vote>>
          /\ req[r].pc = "arrived"
          /\ req[r].method \notin Mediated
      BY <2>2 DEF PassOther, RememberPending, gateVars, Mediated, Listings
    <3> QED BY <3>1, MoveCore DEF LetThrough
  <2>3. ASSUME NEW r \in Requests, Evaluate(r)
        PROVE  Core'
    BY <2>3, EvaluateCore
  <2>4. ASSUME NEW r \in Requests, AskHuman(r)
        PROVE  Core'
    BY <2>4, AskHumanCore
  <2>5. ASSUME NEW r \in Requests, ApproverReturns(r)
        PROVE  Core'
    BY <2>5, ApproverReturnsCore
  <2>6. ASSUME NEW r \in Requests, Record(r)
        PROVE  Core'
    BY <2>6, RecordCore
  <2>7. ASSUME NEW r \in Requests, FinishRecorded(r) \/ FinishUnrecorded(r)
        PROVE  Core'
    BY <2>7, FinishCore
  <2>8. ASSUME NEW r \in Requests, Serve(r)
        PROVE  Core'
    <3>1. PICK pc \in LetThrough :
            /\ Goto(r, pc)
            /\ UNCHANGED <<cfg, log, status, vote>>
            /\ req[r].pc \in LetThrough
      BY <2>8 DEF Serve, Forward, Fail, Outstanding, Answer, gateVars, LetThrough
    <3> QED BY <3>1, MoveCore
  <2>9. CASE UNCHANGED vars \/ \E i \in ServerIds : ServerRequest(i)
    <3>1. UNCHANGED <<cfg, req, log, status, vote>>
      BY <2>9 DEF vars, ServerRequest, gateVars
    <3>2. \A r \in Requests : CallOK(r)'
      BY <3>1 DEF IndInv, CallOK, GateOK, ActionOK, FinishOK, Permitted, Logged
    <3>3. LogOK'
      BY <3>1, LogKept DEF IndInv
    <3> QED BY <3>2, <3>3 DEF Core
  <2> QED
    BY <2>1, <2>2, <2>3, <2>4, <2>5, <2>6, <2>7, <2>8, <2>9 DEF Next, Judge
<1> QED BY InitIndInv, <1>1, PTL DEF Spec

(* The interceptor keeps its types, whatever is sent and answered. *)
THEOREM TypeCorrect == Spec => []TypeOK
<1>1. IndInv => TypeOK
  BY DEF IndInv
<1> QED BY <1>1, Invariance, PTL

(* No mediated call is let through without its audit record, unless the     *)
(* policy says on_error: continue.                                          *)
THEOREM RecordedFirst == Spec => []NothingUnrecorded
<1>1. IndInv => NothingUnrecorded
  BY DEF IndInv, CallOK, FinishOK, NothingUnrecorded, IsMediated, IsLetThrough
<1> QED BY <1>1, Invariance, PTL

(* In enforce mode nothing gets through but what the policy allows or a     *)
(* human approved.                                                          *)
THEOREM Enforcement == Spec => []OnlyPermittedReachServer
<1>1. IndInv => OnlyPermittedReachServer
  BY DEF IndInv, CallOK, ActionOK, FinishOK, Permitted, OnlyPermittedReachServer,
     IsMediated, IsLetThrough
<1> QED BY <1>1, Invariance, PTL

(* The audit log tells what happened to every call it names. *)
THEOREM LogIsTruthful == Spec => []LogMatchesOutcome
<1>1. ASSUME IndInv PROVE LogMatchesOutcome
  <2> SUFFICES ASSUME NEW n \in DOMAIN log,
                      NEW r \in Requests, r = log[n].request, CallOK(r), Logged(r), LineOK(n)
               PROVE
    /\ \A m \in DOMAIN log : log[m].request = r => m = n
    /\ cfg.mode = "enforce" =>
         /\ log[n].action # "approve"
         /\ log[n].action = "allow" => req[r].pc # "refused"
         /\ log[n].action = "deny" => ~IsLetThrough(r)
    /\ cfg.mode = "audit" => log[n].action = Decision[req[r].target]
    BY <1>1, LinesTyped DEF IndInv, LogOK, LogMatchesOutcome
  <2>1. /\ req[r].method \in Mediated
        /\ req[r].pc \in Decided \cup LetThrough
        /\ req[r].action = log[n].action
    BY DEF CallOK, FinishOK, LineOK, Decided, LetThrough
  <2> QED BY <2>1 DEF CallOK, ActionOK, FinishOK, LineOK, IsLetThrough
<1> QED BY <1>1, Invariance, PTL

(* In audit mode nobody is asked and only a lost record refuses a call. *)
THEOREM AuditOnlyObserves == Spec => []AuditModeObserves
<1>1. IndInv => AuditModeObserves
  BY DEF IndInv, CallOK, GateOK, ActionOK, FinishOK, Decided, AuditModeObserves
<1> QED BY <1>1, Invariance, PTL

-----------------------------------------------------------------------------
(* The pending table *)

Sent(r) == req[r].pc # "unsent" /\ req[r].id # NoId

(* The entry of an outstanding list request is there, unless the server     *)
(* took it; the id of any other message has none; both for a message alone  *)
(* with its id.  An id nobody used has none.                                *)
EntryRight(r) ==
  Sent(r) /\ Alone(r) =>
    /\ req[r].method \in Listings /\ Outstanding(r) /\ r \notin overtaken =>
         pending[req[r].id] = req[r].method
    /\ req[r].method \notin Listings => pending[req[r].id] = "none"
EntriesOwned ==
  \A i \in Ids \cup ServerIds :
    pending[i] # "none" => \E r \in Requests : Sent(r) /\ req[r].id = i
EntriesRight == EntriesOwned /\ \A r \in Requests : EntryRight(r)

(* What the agent received, before and after an answer. *)
AnswerRight(r) ==
  /\ req[r].pc # "answered" => got[r].entries = {}
  /\ req[r].pc = "answered" =>
       /\ sent[r] \in ServerReplies(req[r].method)
       /\ Alone(r) /\ r \notin overtaken =>
            got[r] = IF req[r].method \in Listings
                     THEN Outbound(sent[r], req[r].method) ELSE sent[r]
AnswersRight == \A r \in Requests : AnswerRight(r)

PendingInv == TypeOK /\ EntriesRight /\ AnswersRight

(* Filtering the answer to a list request by its method leaves nothing      *)
(* hidden in it.                                                            *)
LEMMA OutboundHides ==
  ASSUME NEW m \in Listings, NEW reply \in ServerReplies(m)
  PROVE  Outbound(reply, m).entries \cap Hidden = {}
BY DEF Outbound, Filter, ServerReplies, Reply, Listings

(* A step that forgets no message and no id makes nobody alone. *)
LEMMA AloneBefore ==
  ASSUME \A s \in Requests :
           req[s].pc # "unsent" => req'[s].pc # "unsent" /\ req'[s].id = req[s].id,
         NEW r \in Requests, req[r].pc # "unsent", Alone(r)'
  PROVE  Alone(r)
BY DEF Alone

(* Sending: a fresh id has no entry. *)
LEMMA SendPending ==
  ASSUME PendingInv, NEW r \in Requests, NEW i \in Ids \cup {NoId},
         NEW m \in Methods, NEW t \in Targets \cup {"bad"}, Send(r, i, m, t)
  PROVE  EntriesRight' /\ AnswersRight'
<1>1. /\ req[r].pc = "unsent"
      /\ req'[r].pc = "arrived" /\ req'[r].id = i /\ req'[r].method = m
      /\ \A s \in Requests : s # r => req'[s] = req[s]
      /\ UNCHANGED <<pending, overtaken, sent, got>>
  BY DEF Send, PendingInv, TypeOK
<1>2. \A s \in Requests : s # r => (Sent(s)' <=> Sent(s)) /\ req'[s] = req[s]
  BY <1>1 DEF Sent
<1>3. ~Sent(r) /\ (Sent(r)' <=> i # NoId)
  BY <1>1 DEF Sent
<1>4. \A s \in Requests : s # r /\ req[s].pc # "unsent" /\ Alone(s)' => Alone(s)
  BY <1>1, AloneBefore
<1>5. EntriesOwned'
  BY <1>1, <1>2, <1>3 DEF PendingInv, EntriesRight, EntriesOwned
<1>6. ASSUME NEW s \in Requests PROVE EntryRight(s)' /\ AnswerRight(s)'
  <2>1. CASE s # r
    <3>1. EntryRight(s) /\ AnswerRight(s) /\ req'[s] = req[s] /\ (Sent(s)' <=> Sent(s))
      BY <1>2, <2>1 DEF PendingInv, EntriesRight, AnswersRight
    <3>2. EntryRight(s)'
      BY <1>1, <1>4, <2>1, <3>1 DEF EntryRight, Sent, Outstanding
    <3>3. AnswerRight(s)'
      BY <1>1, <1>4, <2>1, <3>1 DEF AnswerRight
    <3> QED BY <3>2, <3>3
  <2>2. CASE s = r
    <3>1. AnswerRight(r)'
      BY <1>1 DEF PendingInv, AnswersRight, AnswerRight
    <3>2. Sent(r)' /\ Alone(r)' => pending'[i] = "none"
      <4> SUFFICES ASSUME i # NoId, Alone(r)', pending[i] # "none" PROVE FALSE
        BY <1>1, <1>3
      <4>1. PICK q \in Requests : Sent(q) /\ req[q].id = i
        BY DEF PendingInv, EntriesRight, EntriesOwned
      <4>2. q # r /\ req'[q].pc # "unsent" /\ req'[q].id = i
        BY <1>1, <1>3, <4>1 DEF Sent
      <4> QED BY <1>1, <4>2 DEF Alone
    <3>3. EntryRight(r)'
      BY <1>1, <3>2 DEF EntryRight, Outstanding
    <3> QED BY <2>2, <3>1, <3>3
  <2> QED BY <2>1, <2>2
<1> QED BY <1>5, <1>6 DEF EntriesRight, AnswersRight

(* Remembering a list request makes its entry, and only its own. *)
LEMMA RememberPendingPending ==
  ASSUME PendingInv, NEW r \in Requests, RememberPending(r)
  PROVE  EntriesRight' /\ AnswersRight'
<1>1. /\ req[r].pc = "arrived" /\ req[r].method \in Listings
      /\ req' = [req EXCEPT ![r].pc = "forward"]
      /\ UNCHANGED <<overtaken, sent, got>>
      /\ pending' = IF req[r].id = NoId THEN pending
                    ELSE [pending EXCEPT ![req[r].id] = req[r].method]
  BY DEF RememberPending, Goto
<1>2. \A s \in Requests :
        /\ req'[s].id = req[s].id /\ req'[s].method = req[s].method
        /\ s # r => req'[s].pc = req[s].pc
  BY <1>1 DEF PendingInv, TypeOK, RequestStates
<1>3. req'[r].pc = "forward" /\ req[r].id \in Ids \cup {NoId}
  BY <1>1 DEF PendingInv, TypeOK, RequestStates
<1>4. \A s \in Requests : Sent(s)' <=> Sent(s)
  BY <1>1, <1>2, <1>3 DEF Sent
<1>5. \A s \in Requests : req[s].pc # "unsent" /\ Alone(s)' => Alone(s)
  BY <1>1, <1>2, <1>3, AloneBefore
<1>6. /\ \A i \in Ids \cup ServerIds : i # req[r].id => pending'[i] = pending[i]
      /\ req[r].id # NoId => pending'[req[r].id] = req[r].method /\ Sent(r)
  BY <1>1, <1>3 DEF PendingInv, TypeOK, Sent
<1>7. EntriesOwned'
  <2> SUFFICES ASSUME NEW i \in Ids \cup ServerIds, pending'[i] # "none"
               PROVE  \E s \in Requests : Sent(s)' /\ req'[s].id = i
    BY DEF EntriesOwned
  <2>1. CASE i = req[r].id
    BY <1>2, <1>4, <1>6, <2>1, IdsAssumption
  <2>2. CASE i # req[r].id
    BY <1>2, <1>4, <1>6, <2>2 DEF PendingInv, EntriesRight, EntriesOwned
  <2> QED BY <2>1, <2>2
<1>8. ASSUME NEW s \in Requests PROVE EntryRight(s)'
  <2> SUFFICES ASSUME Sent(s), Alone(s)'
               PROVE  /\ req'[s].method \in Listings /\ Outstanding(s)' /\ s \notin overtaken' =>
                           pending'[req'[s].id] = req'[s].method
                      /\ req'[s].method \notin Listings => pending'[req'[s].id] = "none"
    BY <1>4 DEF EntryRight
  <2>1. CASE s = r
    BY <1>1, <1>2, <1>6, <2>1 DEF Sent
  <2>2. CASE s # r
    <3>1. req[s].id # req[r].id
      BY <1>1, <1>2, <1>3, <2>2 DEF Alone
    <3>2. req[s].id \in Ids
      BY DEF Sent, PendingInv, TypeOK, RequestStates
    <3>3. Alone(s) /\ pending'[req[s].id] = pending[req[s].id]
      BY <1>5, <1>6, <3>1, <3>2 DEF Sent
    <3>4. Outstanding(s)' <=> Outstanding(s)
      BY <1>2, <2>2 DEF Outstanding
    <3> QED BY <1>1, <1>2, <3>3, <3>4 DEF PendingInv, EntriesRight, EntryRight
  <2> QED BY <2>1, <2>2
<1>9. AnswersRight'
  BY <1>1, <1>2, <1>3, <1>5 DEF PendingInv, AnswersRight, AnswerRight
<1> QED BY <1>7, <1>8, <1>9 DEF EntriesRight

(* A goroutine's step that keeps id, method and the table, and does not     *)
(* make a list request outstanding.                                         *)
LEMMA StepPending ==
  ASSUME PendingInv, NEW r \in Requests, NEW pc \in States \ {"unsent"},
         req'[r].id = req[r].id, req'[r].method = req[r].method, req'[r].pc = pc,
         \A s \in Requests : s # r => req'[s] = req[s],
         UNCHANGED <<pending, overtaken, sent>>,
         req[r].pc \notin {"unsent", "answered"}, pc # "answered",
         got'[r] = got[r] \/ got'[r].entries = {},
         \A s \in Requests : s # r => got'[s] = got[s],
         pc \in {"forward", "atServer"} =>
           req[r].method \notin Listings \/ Outstanding(r)
  PROVE  EntriesRight' /\ AnswersRight'
<1>1. pc # "unsent"
  OBVIOUS
<1>2. \A s \in Requests : Sent(s)' <=> Sent(s)
  BY <1>1 DEF Sent
<1>3. \A s \in Requests : req[s].pc # "unsent" /\ Alone(s)' => Alone(s)
  BY <1>1, AloneBefore
<1>4. \A s \in Requests : req'[s].id = req[s].id /\ req'[s].method = req[s].method
  OBVIOUS
<1>5. EntriesOwned'
  BY <1>2, <1>4 DEF PendingInv, EntriesRight, EntriesOwned
<1>6. ASSUME NEW s \in Requests PROVE EntryRight(s)'
  <2> SUFFICES ASSUME Sent(s), Alone(s)'
               PROVE  /\ req'[s].method \in Listings /\ Outstanding(s)' /\ s \notin overtaken' =>
                           pending'[req'[s].id] = req'[s].method
                      /\ req'[s].method \notin Listings => pending'[req'[s].id] = "none"
    BY <1>2 DEF EntryRight
  <2>1. Alone(s)
    BY <1>3 DEF Sent
  <2>2. req[s].method \in Listings /\ Outstanding(s)' => Outstanding(s)
    BY DEF Outstanding
  <2> QED BY <1>4, <2>1, <2>2 DEF PendingInv, EntriesRight, EntryRight
<1>7. AnswersRight'
  BY <1>1, <1>3, <1>4 DEF PendingInv, AnswersRight, AnswerRight
<1> QED BY <1>5, <1>6, <1>7 DEF EntriesRight

(* Answering: the answer finds the entry of its own request, and takes no   *)
(* other's.                                                                 *)
LEMMA AnswerPending ==
  ASSUME PendingInv, NEW r \in Requests, NEW reply \in ServerReplies(req[r].method),
         Answer(r, reply)
  PROVE  EntriesRight' /\ AnswersRight'
<1>1. /\ req[r].pc = "atServer" /\ req[r].id # NoId
      /\ req' = [req EXCEPT ![r].pc = "answered"]
      /\ sent' = [sent EXCEPT ![r] = reply]
      /\ got' = [got EXCEPT ![r] = Outbound(reply, pending[req[r].id])]
      /\ pending' = [pending EXCEPT ![req[r].id] = "none"]
      /\ UNCHANGED overtaken
  BY DEF Answer, Goto, TakePending, PendingMethod
<1>2. /\ req'[r].id = req[r].id /\ req'[r].method = req[r].method
      /\ req'[r].pc = "answered" /\ req[r].id \in Ids
      /\ \A s \in Requests : s # r => req'[s] = req[s]
  BY <1>1 DEF PendingInv, TypeOK, RequestStates
<1>3. Sent(r) /\ \A s \in Requests : Sent(s)' <=> Sent(s)
  BY <1>1, <1>2 DEF Sent
<1>4. \A s \in Requests : req[s].pc # "unsent" /\ Alone(s)' => Alone(s)
  BY <1>1, <1>2, AloneBefore
<1>5. /\ pending'[req[r].id] = "none"
      /\ \A i \in Ids \cup ServerIds : i # req[r].id => pending'[i] = pending[i]
      /\ \A s \in Requests : Sent(s) => req[s].id \in Ids
  BY <1>1, <1>2 DEF PendingInv, TypeOK, RequestStates, Sent
<1>6. EntriesOwned'
  <2> SUFFICES ASSUME NEW i \in Ids \cup ServerIds, pending'[i] # "none"
               PROVE  \E s \in Requests : Sent(s)' /\ req'[s].id = i
    BY DEF EntriesOwned
  <2>1. i # req[r].id /\ pending[i] # "none"
    BY <1>5
  <2>2. PICK s \in Requests : Sent(s) /\ req[s].id = i
    BY <2>1 DEF PendingInv, EntriesRight, EntriesOwned
  <2> QED BY <1>2, <1>3, <2>2
<1>7. ASSUME NEW s \in Requests PROVE EntryRight(s)'
  <2>1. CASE s = r
    BY <1>2, <1>5, <2>1 DEF EntryRight, Outstanding
  <2>2. CASE s # r
    <3> SUFFICES ASSUME Sent(s), Alone(s)'
                 PROVE  EntryRight(s)'
      BY <1>3 DEF EntryRight
    <3>1. req[s].id # req[r].id
      BY <1>2, <2>2 DEF Alone
    <3>2. Alone(s) /\ pending'[req[s].id] = pending[req[s].id]
      BY <1>4, <1>5, <3>1 DEF Sent
    <3>3. req'[s] = req[s]
      BY <1>2, <2>2
    <3> QED BY <1>1, <1>3, <3>2, <3>3 DEF PendingInv, EntriesRight, EntryRight, Outstanding
  <2> QED BY <2>1, <2>2
<1>8. AnswersRight'
  <2>1. Alone(r) /\ r \notin overtaken =>
          got'[r] = IF req[r].method \in Listings THEN Outbound(reply, req[r].method) ELSE reply
    <3> SUFFICES ASSUME Alone(r), r \notin overtaken
                 PROVE  got'[r] = IF req[r].method \in Listings
                                  THEN Outbound(reply, req[r].method) ELSE reply
      OBVIOUS
    <3>1. got'[r] = Outbound(reply, pending[req[r].id])
      BY <1>1 DEF PendingInv, TypeOK
    <3>2. EntryRight(r)
      BY DEF PendingInv, EntriesRight
    <3>3. CASE req[r].method \in Listings
      BY <1>1, <1>3, <3>1, <3>2, <3>3 DEF EntryRight, Outstanding
    <3>4. CASE req[r].method \notin Listings
      BY <1>3, <3>1, <3>2, <3>4 DEF EntryRight, Outbound
    <3> QED BY <3>3, <3>4
  <2>2. sent'[r] = reply
    BY <1>1 DEF PendingInv, TypeOK
  <2>3. AnswerRight(r)'
    BY <1>1, <1>2, <1>4, <2>1, <2>2 DEF AnswerRight
  <2>4. ASSUME NEW s \in Requests, s # r PROVE AnswerRight(s)'
    <3>1. req'[s] = req[s] /\ sent'[s] = sent[s] /\ got'[s] = got[s] /\ overtaken' = overtaken
      BY <1>1, <1>2, <2>4 DEF PendingInv, TypeOK
    <3> QED BY <1>4, <3>1 DEF PendingInv, AnswersRight, AnswerRight
  <2> QED BY <2>3, <2>4 DEF AnswersRight
<1> QED BY <1>6, <1>7, <1>8 DEF EntriesRight

(* A request of the server: the list request whose entry it takes is        *)
(* overtaken from then on, and no other is touched.                         *)
LEMMA ServerRequestPending ==
  ASSUME PendingInv, NEW i \in ServerIds, ServerRequest(i)
  PROVE  EntriesRight' /\ AnswersRight'
<1>1. /\ UNCHANGED <<req, sent, got>>
      /\ pending' = [pending EXCEPT ![i] = "none"]
      /\ overtaken' = overtaken \cup
           {r \in Requests : Outstanding(r) /\ req[r].method \in Listings /\ req[r].id = i}
  BY IdsAssumption DEF ServerRequest, TakePending
<1>2. /\ pending'[i] = "none"
      /\ \A j \in Ids \cup ServerIds : j # i => pending'[j] = pending[j]
      /\ \A s \in Requests : Sent(s) => req[s].id \in Ids
  BY <1>1 DEF PendingInv, TypeOK, RequestStates, Sent
<1>3. \A s \in Requests : (Sent(s)' <=> Sent(s)) /\ (Alone(s)' <=> Alone(s))
                          /\ (Outstanding(s)' <=> Outstanding(s))
  BY <1>1 DEF Sent, Alone, Outstanding
<1>4. EntriesOwned'
  BY <1>1, <1>2, <1>3 DEF PendingInv, EntriesRight, EntriesOwned
<1>5. ASSUME NEW s \in Requests PROVE EntryRight(s)'
  <2> SUFFICES ASSUME Sent(s), Alone(s)
               PROVE  /\ req[s].method \in Listings /\ Outstanding(s) /\ s \notin overtaken' =>
                           pending'[req[s].id] = req[s].method
                      /\ req[s].method \notin Listings => pending'[req[s].id] = "none"
    BY <1>1, <1>3 DEF EntryRight
  <2>1. EntryRight(s) /\ req[s].id \in Ids
    BY <1>2 DEF PendingInv, EntriesRight
  <2>2. CASE req[s].id = i
    BY <1>1, <1>2, <2>2
  <2>3. CASE req[s].id # i
    BY <1>1, <1>2, <2>1, <2>3 DEF EntryRight
  <2> QED BY <2>2, <2>3
<1>6. AnswersRight'
  BY <1>1, <1>3 DEF PendingInv, AnswersRight, AnswerRight
<1> QED BY <1>4, <1>5, <1>6 DEF EntriesRight

(* The table is right in every reachable state. *)
THEOREM PendingInvariance == Spec => []PendingInv
<1>1. Init => PendingInv
  <2> SUFFICES ASSUME Init PROVE PendingInv
    OBVIOUS
  <2>1. TypeOK
    BY InitIndInv DEF IndInv
  <2>2. /\ \A r \in Requests : req[r].pc = "unsent" /\ got[r].entries = {}
        /\ \A i \in Ids \cup ServerIds : pending[i] = "none"
    BY DEF Init, NoRequest, Reply
  <2> QED BY <2>1, <2>2 DEF PendingInv, EntriesRight, EntriesOwned, EntryRight, AnswersRight,
       AnswerRight, Sent
<1>2. IndInv /\ PendingInv /\ [Next]_vars => PendingInv'
  <2> SUFFICES ASSUME IndInv, PendingInv, [Next]_vars
               PROVE  EntriesRight' /\ AnswersRight'
    BY NextTyped DEF PendingInv
  <2> DEFINE Right == EntriesRight /\ AnswersRight
  <2>1. ASSUME NEW r \in Requests, NEW i \in Ids \cup {NoId}, NEW m \in Methods,
               NEW t \in Targets \cup {"bad"}, Send(r, i, m, t)
        PROVE  Right'
    BY <2>1, SendPending
  <2>2. ASSUME NEW r \in Requests, RememberPending(r)
        PROVE  Right'
    BY <2>2, RememberPendingPending
  <2>3. ASSUME NEW r \in Requests, NEW reply \in ServerReplies(req[r].method),
               Answer(r, reply)
        PROVE  Right'
    BY <2>3, AnswerPending
  <2>4. CASE UNCHANGED <<req, pending, overtaken, sent, got>>
    BY <2>4 DEF Right, PendingInv, EntriesRight, EntriesOwned, EntryRight, AnswersRight,
       AnswerRight, Sent, Alone, Outstanding
  <2>5. ASSUME NEW i \in ServerIds, ServerRequest(i)
        PROVE  Right'
    BY <2>5, ServerRequestPending
  <2>6. ASSUME NEW r \in Requests,
               PassOther(r) \/ Evaluate(r) \/ ApproverReturns(r) \/ Record(r)
               \/ FinishRecorded(r) \/ FinishUnrecorded(r) \/ Forward(r) \/ Fail(r)
        PROVE  Right'
    <3>0. req \in [Requests -> RequestStates]
      BY DEF PendingInv, TypeOK
    <3>1. UNCHANGED <<pending, overtaken, sent>>
      BY <2>6 DEF PassOther, Evaluate, ApproverReturns, Record, FinishRecorded,
         FinishUnrecorded, Forward, Fail
    <3>2. /\ req'[r].id = req[r].id /\ req'[r].method = req[r].method
          /\ \A s \in Requests : s # r => req'[s] = req[s]
      <4>1. CASE Evaluate(r) \/ ApproverReturns(r)
        <5>1. PICK p, a : req' = [req EXCEPT ![r] = [@ EXCEPT !.pc = p, !.action = a]]
          BY <4>1 DEF Evaluate, ApproverReturns
        <5> QED BY <3>0, <5>1 DEF RequestStates
      <4>2. CASE ~(Evaluate(r) \/ ApproverReturns(r))
        <5>1. PICK p : req' = [req EXCEPT ![r].pc = p]
          BY <2>6, <4>2 DEF PassOther, Record, FinishRecorded, FinishUnrecorded,
             Enforce, Refuse, Forward, Fail, Goto
        <5> QED BY <3>0, <5>1 DEF RequestStates
      <4> QED BY <4>1, <4>2
    <3>3. /\ got'[r] = got[r] \/ got'[r].entries = {}
          /\ \A s \in Requests : s # r => got'[s] = got[s]
      BY <2>6 DEF PassOther, Evaluate, ApproverReturns, Record, FinishRecorded,
         FinishUnrecorded, Enforce, Refuse, Forward, Fail, Reply, PendingInv, TypeOK
    <3>4. CASE PassOther(r)
      <4>1. req[r].pc = "arrived" /\ req'[r].pc = "forward" /\ req[r].method \notin Listings
        BY <3>4 DEF PassOther, Goto, Listings, PendingInv, TypeOK, RequestStates
      <4> QED BY <3>1, <3>2, <3>3, <4>1, StepPending DEF States, LetThrough
    <3>5. CASE Evaluate(r) \/ ApproverReturns(r) \/ Record(r)
      <4>1. PICK pc \in {"approving", "decided", "recorded", "unrecorded"} : req'[r].pc = pc
        <5>1. CASE Evaluate(r)
          BY <3>0, <5>1 DEF Evaluate, RequestStates
        <5>2. CASE ApproverReturns(r)
          BY <3>0, <5>2 DEF ApproverReturns, RequestStates
        <5>3. CASE Record(r)
          BY <3>0, <5>3 DEF Record, Goto, RequestStates
        <5> QED BY <3>5, <5>1, <5>2, <5>3
      <4>2. req[r].pc \notin {"unsent", "answered"}
        BY <3>5 DEF Evaluate, ApproverReturns, Record
      <4> QED BY <3>1, <3>2, <3>3, <4>1, <4>2, StepPending DEF States, Judging
    <3>6. CASE FinishRecorded(r) \/ FinishUnrecorded(r)
      <4>1. req'[r].pc \in {"forward", "refused"} /\ req[r].pc \in {"recorded", "unrecorded"}
        BY <3>6 DEF FinishRecorded, FinishUnrecorded, Enforce, Refuse, Goto, PendingInv,
           TypeOK, RequestStates
      <4>2. req[r].method \notin Listings
        BY <4>1 DEF IndInv, CallOK, ActionOK, Decided, Mediated, Listings
      <4> QED BY <3>1, <3>2, <3>3, <4>1, <4>2, StepPending DEF States, LetThrough
    <3>7. CASE Forward(r) \/ Fail(r)
      <4>1. req'[r].pc \in {"atServer", "failed"} /\ req[r].pc \in {"forward", "atServer"}
        BY <3>7 DEF Forward, Fail, Outstanding, Goto, PendingInv, TypeOK, RequestStates
      <4> QED BY <3>1, <3>2, <3>3, <4>1, StepPending DEF States, LetThrough, Outstanding
    <3> QED BY <2>6, <3>4, <3>5, <3>6, <3>7
  <2> QED
    BY <2>1, <2>2, <2>3, <2>4, <2>5, <2>6 DEF Next, Judge, Serve, AskHuman, vars, Right
<1> QED BY <1>1, <1>2, Invariance, PTL DEF Spec

(* No answer to a list request names a hidden target, unless its id was     *)
(* used a second time.                                                      *)
THEOREM Filtering == Spec => []ListsFiltered
<1>1. ASSUME PendingInv PROVE ListsFiltered
  <2> SUFFICES ASSUME NEW r \in Requests, req[r].method \in Listings, Alone(r),
                      r \notin overtaken
               PROVE  got[r].entries \cap Hidden = {}
    BY DEF ListsFiltered
  <2>1. CASE req[r].pc = "answered"
    BY <1>1, <2>1, OutboundHides DEF PendingInv, AnswersRight, AnswerRight
  <2>2. CASE req[r].pc # "answered"
    BY <1>1, <2>2 DEF PendingInv, AnswersRight, AnswerRight
  <2> QED BY <2>1, <2>2
<1> QED BY <1>1, PendingInvariance, PTL

(* An answer is filtered as its own request requires, and nothing but list  *)
(* answers is touched, unless the id was used a second time.                *)
THEOREM Correlation == Spec => []AnswersCorrelated
<1>1. PendingInv => AnswersCorrelated
  BY DEF PendingInv, AnswersRight, AnswerRight, AnswersCorrelated
<1> QED BY <1>1, PendingInvariance, PTL
=============================================================================
