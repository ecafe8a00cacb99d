----------------------------- MODULE Interceptor -----------------------------
(***************************************************************************)
(* The enforcement layer: enforce.Interceptor                               *)
(* (internal/enforce/interceptor.go), with the parsers, filters and denial  *)
(* responses of internal/protocol it calls.                                 *)
(*                                                                         *)
(* A request is one agent-to-server message and the goroutine that carries  *)
(* it: the single pump of the stdio transport, or one HTTP handler among    *)
(* many.  All of them share the pending table and the recorder.  The agent, *)
(* the server and the transports are the environment: the agent sends what  *)
(* it likes, the server answers in any order, answers with errors, or asks  *)
(* questions of its own, and an exchange may fail underneath.               *)
(*                                                                         *)
(* The policy is data here (Policy.tla evaluates rules): Decision gives the *)
(* action for a target, Hidden the targets ToolVisible refuses to list.     *)
(* The approver is the contract of ApprovalGate.tla.                        *)
(***************************************************************************)
EXTENDS Naturals, Sequences

CONSTANTS
  Requests,          \* messages the agents may send
  Clients, ClientOf, \* the agent sessions and the session of each request
  Ids, ServerIds,    \* JSON-RPC ids used by agents, by the server for its requests
  Targets,           \* tool names and resource URIs
  Decision,          \* Decision[t]: what Engine.Evaluate answers for target t
  Hidden,            \* the targets ToolVisible refuses
  Configs            \* the policy settings under which a session may run

(* "bad" stands for params ParseToolsCall or ParseResourcesRead rejects and *)
(* for file URIs canon.FileURIPath rejects; "none" for "not applicable".    *)
NoId == "noId"
Methods == {"tools/call", "resources/read", "tools/list", "resources/list", "other"}
Mediated == {"tools/call", "resources/read"}
Listings == {"tools/list", "resources/list"}
Actions == {"allow", "deny", "approve"}
Modes == {"enforce", "audit"}
OnErrors == {"halt", "deny", "continue"}

ASSUME ClientsAssumption == ClientOf \in [Requests -> Clients]
ASSUME PolicyAssumption ==
  /\ Decision \in [Targets \cup {"bad"} -> Actions]
  /\ Decision["bad"] = "deny"
  /\ Hidden \subseteq Targets
(* What policy.validate accepts, and whether run.go found approval.channel. *)
ASSUME ConfigsAssumption ==
  Configs \subseteq [mode : Modes, onError : OnErrors, approver : BOOLEAN]
ASSUME IdsAssumption == NoId \notin Ids \cup ServerIds

VARIABLES
  cfg,               \* Engine.Config(), fixed for the session
  req,               \* req[r]: request r and where its goroutine stands
  pending,           \* Interceptor.pending: id -> method of the list request
  overtaken,         \* history: the list requests whose id the server used for a
                     \* request of its own while they were outstanding
  log,               \* the audit log, one record per line
  halted,            \* Options.Cancel has been called
  sent,              \* sent[r]: what the server answered to r
  got,               \* got[r]: what the agent received for r
  status, vote       \* the approvals, see ApprovalGate

gateVars == <<status, vote>>
vars == <<cfg, req, pending, overtaken, log, halted, sent, got, status, vote>>

Gate == INSTANCE ApprovalGate WITH Asks <- Requests

(* A request is judged, may wait for a human, is decided, recorded, and    *)
(* then either let through to the server or refused.                       *)
Judging == {"arrived", "approving", "decided", "recorded", "unrecorded"}
LetThrough == {"forward", "atServer", "answered", "failed"}
States == {"unsent", "refused"} \cup Judging \cup LetThrough

NoRequest == [pc |-> "unsent", id |-> NoId, method |-> "other", target |-> "bad",
              action |-> "deny"]

RequestStates ==
  [pc : States, id : Ids \cup {NoId}, method : Methods,
   target : Targets \cup {"bad"}, action : Actions]

(* A message towards the agent.  A listing carries the entries it names;   *)
(* "content" is any other JSON object; "garbled" a result of another JSON   *)
(* type; "empty" has no result; "denied" and "unfilterable" are the errors  *)
(* the interceptor itself builds.                                           *)
Kinds == Listings \cup {"nothing", "content", "garbled", "empty", "error",
                        "denied", "unfilterable"}
Replies == [kind : Kinds, entries : SUBSET Targets]
Reply(kind) == [kind |-> kind, entries |-> {}]

TypeOK ==
  /\ cfg \in Configs
  /\ req \in [Requests -> RequestStates]
  /\ pending \in [Ids \cup ServerIds -> Listings \cup {"none"}]
  /\ overtaken \subseteq Requests
  /\ log \in Seq([request : Requests, action : Actions])
  /\ halted \in BOOLEAN
  /\ sent \in [Requests -> Replies]
  /\ got \in [Requests -> Replies]
  /\ Gate!TypeOK

Init ==
  /\ cfg \in Configs
  /\ req = [r \in Requests |-> NoRequest]
  /\ pending = [i \in Ids \cup ServerIds |-> "none"]
  /\ overtaken = {}
  /\ log = << >>
  /\ halted = FALSE
  /\ sent = [r \in Requests |-> Reply("nothing")]
  /\ got = [r \in Requests |-> Reply("nothing")]
  /\ Gate!Init

-----------------------------------------------------------------------------
(* Inbound *)

Goto(r, pc) == req' = [req EXCEPT ![r].pc = pc]

(* MCP: a requestor never reuses an id within its session. *)
FreshId(r, i) ==
  i = NoId \/ \A s \in Requests :
                ClientOf[s] = ClientOf[r] /\ req[s].pc # "unsent" => req[s].id # i

(* The agent sends a message; without an id it is a notification, and only  *)
(* a mediated message has a target.                                         *)
Send(r, i, m, t) ==
  /\ req[r].pc = "unsent"
  /\ FreshId(r, i)
  /\ t # "bad" => m \in Mediated
  /\ req' = [req EXCEPT ![r] = [pc |-> "arrived", id |-> i, method |-> m, target |-> t,
                                action |-> "deny"]]
  /\ UNCHANGED <<cfg, pending, overtaken, log, halted, sent, got, gateVars>>

(* Inbound, default: not a method the policy speaks about. *)
PassOther(r) ==
  /\ req[r].pc = "arrived"
  /\ req[r].method = "other"
  /\ Goto(r, "forward")
  /\ UNCHANGED <<cfg, pending, overtaken, log, halted, sent, got, gateVars>>

\* Faulty variant of RememberPending: resources/list is forgotten.
RememberToolsOnly(r) ==
  /\ req[r].pc = "arrived"
  /\ req[r].method \in Listings
  /\ pending' = IF req[r].id = NoId \/ req[r].method # "tools/list" THEN pending
                ELSE [pending EXCEPT ![req[r].id] = req[r].method]
  /\ Goto(r, "forward")
  /\ UNCHANGED <<cfg, overtaken, log, halted, sent, got, gateVars>>

\* Faulty variant of RememberPending: every list is filtered as tools.
RememberAsTools(r) ==
  /\ req[r].pc = "arrived"
  /\ req[r].method \in Listings
  /\ pending' = IF req[r].id = NoId THEN pending
                ELSE [pending EXCEPT ![req[r].id] = "tools/list"]
  /\ Goto(r, "forward")
  /\ UNCHANGED <<cfg, overtaken, log, halted, sent, got, gateVars>>

(* Inbound, tools/list and resources/list: rememberPending, then forward. *)
RememberPending(r) ==
  /\ req[r].pc = "arrived"
  /\ req[r].method \in Listings
  /\ pending' = IF req[r].id = NoId THEN pending
                ELSE [pending EXCEPT ![req[r].id] = req[r].method]
  /\ Goto(r, "forward")
  /\ UNCHANGED <<cfg, overtaken, log, halted, sent, got, gateVars>>

(* Whether handleToolsCall and handleResourcesRead ask a human: in audit    *)
(* mode they only observe.                                                  *)
Asks(r) == Decision[req[r].target] = "approve" /\ cfg.mode # "audit"

\* Faulty variant of Evaluate: nobody to ask, and the decision is left as is.
EvaluateUnresolved(r) ==
  /\ req[r].pc = "arrived"
  /\ req[r].method \in Mediated
  /\ req' = [req EXCEPT ![r] = [@ EXCEPT
       !.pc = IF Asks(r) /\ cfg.approver THEN "approving" ELSE "decided",
       !.action = Decision[req[r].target]]]
  /\ UNCHANGED <<cfg, pending, overtaken, log, halted, sent, got, gateVars>>

(* handleToolsCall, handleResourcesRead: parse, canonicalize, evaluate; an  *)
(* approve decision with nobody to ask is a denial.                         *)
Evaluate(r) ==
  LET decision == Decision[req[r].target] IN
  /\ req[r].pc = "arrived"
  /\ req[r].method \in Mediated
  /\ req' = [req EXCEPT ![r] = [@ EXCEPT
       !.pc = IF Asks(r) /\ cfg.approver THEN "approving" ELSE "decided",
       !.action = IF Asks(r) /\ ~cfg.approver THEN "deny" ELSE decision]]
  /\ UNCHANGED <<cfg, pending, overtaken, log, halted, sent, got, gateVars>>

(* resolveApproval: the approver starts asking, or is still being answered. *)
AskHuman(r) ==
  /\ req[r].pc = "approving"
  /\ Gate!Ask(r) \/ \E v \in Gate!Votes : Gate!CastVote(r, v)
  /\ UNCHANGED <<cfg, req, pending, overtaken, log, halted, sent, got>>

\* Faulty variant of ApproverAction: only an explicit no is a denial.
AllowUnlessVotedDown(r) == IF vote[r] = "deny" THEN "deny" ELSE "allow"

(* resolveApproval: approved is an allow, a refusal and an error are a deny. *)
ApproverAction(r) == IF status'[r] = "granted" THEN "allow" ELSE "deny"

(* resolveApproval: Approve returned. *)
ApproverReturns(r) ==
  /\ req[r].pc = "approving"
  /\ Gate!Return(r) \/ Gate!CannotAsk(r)
  /\ req' = [req EXCEPT ![r] = [@ EXCEPT !.pc = "decided", !.action = ApproverAction(r)]]
  /\ UNCHANGED <<cfg, pending, overtaken, log, halted, sent, got>>

(* finish: Recorder.Record, serialised by the logger's lock. *)
Record(r) ==
  /\ req[r].pc = "decided"
  /\ \/ /\ log' = Append(log, [request |-> r, action |-> req[r].action])
        /\ Goto(r, "recorded")
     \/ /\ Goto(r, "unrecorded")
        /\ UNCHANGED log
  /\ UNCHANGED <<cfg, pending, overtaken, halted, sent, got, gateVars>>

(* DenyResponse: the agent gets an error that carries the rule. *)
Refuse(r) ==
  /\ Goto(r, "refused")
  /\ got' = [got EXCEPT ![r] = Reply("denied")]

(* finish, once recorded (or exempted by on_error: continue): audit mode    *)
(* and allow let the call through.                                          *)
Enforce(r) ==
  IF cfg.mode = "audit" \/ req[r].action = "allow"
  THEN Goto(r, "forward") /\ UNCHANGED got
  ELSE Refuse(r)

(* finish, the record was written. *)
FinishRecorded(r) ==
  /\ req[r].pc = "recorded"
  /\ Enforce(r)
  /\ UNCHANGED <<cfg, pending, overtaken, log, halted, sent, gateVars>>

\* Faulty variant of FinishUnrecorded: audit mode is looked at first.
FinishAuditModeFirst(r) ==
  /\ req[r].pc = "unrecorded"
  /\ IF cfg.onError = "continue" \/ cfg.mode = "audit" THEN Enforce(r) ELSE Refuse(r)
  /\ halted' = (halted \/ cfg.onError = "halt")
  /\ UNCHANGED <<cfg, pending, overtaken, log, sent, gateVars>>

\* Faulty variant of FinishUnrecorded: halting leaves the call unanswered.
FinishHaltSilently(r) ==
  /\ req[r].pc = "unrecorded"
  /\ cfg.onError # "halt"
  /\ IF cfg.onError = "continue" THEN Enforce(r) ELSE Refuse(r)
  /\ UNCHANGED <<cfg, pending, overtaken, log, halted, sent, gateVars>>

(* finish, the record was not written: on_error decides, and halt cancels   *)
(* the session before the call is refused.                                  *)
FinishUnrecorded(r) ==
  /\ req[r].pc = "unrecorded"
  /\ IF cfg.onError = "continue" THEN Enforce(r) ELSE Refuse(r)
  /\ halted' = (halted \/ cfg.onError = "halt")
  /\ UNCHANGED <<cfg, pending, overtaken, log, sent, gateVars>>

-----------------------------------------------------------------------------
(* The transport and the server *)

Outstanding(r) == req[r].pc \in {"forward", "atServer"}

(* The transport hands the message to the server. *)
Forward(r) ==
  /\ req[r].pc = "forward"
  /\ Goto(r, "atServer")
  /\ UNCHANGED <<cfg, pending, overtaken, log, halted, sent, got, gateVars>>

(* The exchange fails and the transport answers by itself: the upstream is  *)
(* unreachable, or its response cannot be read (httpsse.servePost).         *)
Fail(r) ==
  /\ Outstanding(r)
  /\ Goto(r, "failed")
  /\ got' = [got EXCEPT ![r] = Reply("error")]
  /\ UNCHANGED <<cfg, pending, overtaken, log, halted, sent, gateVars>>

(* What a server may answer to method m. *)
ServerReplies(m) ==
  IF m \in Listings
  THEN [kind : {m}, entries : SUBSET Targets]
       \cup {Reply(k) : k \in {"garbled", "empty", "error"}}
  ELSE {Reply(k) : k \in {"content", "empty", "error"}}

(* FilterToolsList and FilterResourcesList: keep what the policy lets the   *)
(* agent see; an object without the list field becomes an empty list.       *)
Filter(reply, method) ==
  IF reply.kind = method
  THEN [reply EXCEPT !.entries = @ \ Hidden]
  ELSE IF reply.kind = "garbled" THEN Reply("unfilterable") ELSE Reply(method)

(* Outbound on a message from the server, with the method takePending       *)
(* found: what the agent receives.                                          *)
Outbound(reply, method) ==
  IF method = "none" \/ reply.kind \in {"error", "empty"}
  THEN reply ELSE Filter(reply, method)

(* takePending: the entry is read and deleted under the lock. *)
TakePending(i) == pending' = IF i = NoId THEN pending ELSE [pending EXCEPT ![i] = "none"]
PendingMethod(i) == IF i = NoId THEN "none" ELSE pending[i]

(* The server answers r and the answer goes through Outbound.  Answers come *)
(* in any order.  A notification has no answer.                             *)
Answer(r, reply) ==
  /\ req[r].pc = "atServer"
  /\ req[r].id # NoId
  /\ Goto(r, "answered")
  /\ sent' = [sent EXCEPT ![r] = reply]
  /\ got' = [got EXCEPT ![r] = Outbound(reply, PendingMethod(req[r].id))]
  /\ TakePending(req[r].id)
  /\ UNCHANGED <<cfg, overtaken, log, halted, gateVars>>

(* The server sends a request of its own (a ping, a sampling request): it   *)
(* has an id and goes through Outbound like an answer.  It carries no       *)
(* result, so it passes unchanged, but it takes the entry of an equal id:   *)
(* JSON-RPC numbers requests per sender, takePending does not.              *)
ServerRequest(i) ==
  /\ TakePending(i)
  /\ overtaken' = overtaken \cup
       {r \in Requests : Outstanding(r) /\ req[r].method \in Listings /\ req[r].id = i}
  /\ UNCHANGED <<cfg, req, log, halted, sent, got, gateVars>>

-----------------------------------------------------------------------------
Judge(r) ==
  \/ PassOther(r)
  \/ RememberPending(r)
  \/ Evaluate(r)
  \/ ApproverReturns(r)
  \/ Record(r)
  \/ FinishRecorded(r)
  \/ FinishUnrecorded(r)

Serve(r) ==
  \/ Forward(r)
  \/ Fail(r)
  \/ \E reply \in ServerReplies(req[r].method) : Answer(r, reply)

Next ==
  \/ \E r \in Requests :
       \/ \E i \in Ids \cup {NoId}, m \in Methods, t \in Targets \cup {"bad"} :
            Send(r, i, m, t)
       \/ AskHuman(r)
       \/ Judge(r)
       \/ Serve(r)
  \/ \E i \in ServerIds : ServerRequest(i)

(* A goroutine that can run does; asking begins; the approver returns, as   *)
(* ApprovalGate promises.  Nothing makes a human vote or a server answer.   *)
Fairness ==
  \A r \in Requests :
    /\ WF_vars(req[r].pc = "approving" /\ Gate!Ask(r) /\ AskHuman(r))
    /\ WF_vars(Judge(r))

Spec == Init /\ [][Next]_vars /\ Fairness

-----------------------------------------------------------------------------
(* No other message so far carries r's id: another client of the same HTTP  *)
(* proxy may have used it.                                                  *)
Alone(r) ==
  \A s \in Requests : s # r /\ req[s].pc # "unsent" => req[s].id # req[r].id

IsMediated(r) == req[r].pc # "unsent" /\ req[r].method \in Mediated
IsLetThrough(r) == req[r].pc \in LetThrough
Logged(r) == \E n \in DOMAIN log : log[n].request = r

(* Recorder: "Every decision is recorded before it is enforced."  Unless    *)
(* the policy says on_error: continue, no tools/call or resources/read gets *)
(* past Inbound without its line in the audit log, in either mode, whatever *)
(* the log does and whoever else is being judged at the same time.          *)
NothingUnrecorded ==
  cfg.onError # "continue" =>
    \A r \in Requests : IsMediated(r) /\ IsLetThrough(r) => Logged(r)

(* In enforce mode a call gets past Inbound only if the policy allows its   *)
(* target, or asks for approval and the human voted to approve this call:   *)
(* not on a failed parse, a missing approver, a timeout, an approval error, *)
(* a vote on another call, or a log failure.                                *)
OnlyPermittedReachServer ==
  cfg.mode = "enforce" =>
    \A r \in Requests :
      IsMediated(r) /\ IsLetThrough(r) =>
        \/ Decision[req[r].target] = "allow"
        \/ Decision[req[r].target] = "approve" /\ cfg.approver /\ vote[r] = "approve"

(* The log tells what happened.  A call has one line.  In enforce mode its  *)
(* line is a final decision, never "approve"; a call logged as allowed is   *)
(* not refused and one logged as denied does not reach the server.  In      *)
(* audit mode the line is what the policy says of the target.               *)
LogMatchesOutcome ==
  \A n \in DOMAIN log :
    LET r == log[n].request IN
    /\ \A m \in DOMAIN log : log[m].request = r => m = n
    /\ cfg.mode = "enforce" =>
         /\ log[n].action # "approve"
         /\ log[n].action = "allow" => req[r].pc # "refused"
         /\ log[n].action = "deny" => ~IsLetThrough(r)
    /\ cfg.mode = "audit" => log[n].action = Decision[req[r].target]

(* Audit mode observes: nobody is asked, and a call is refused only because *)
(* it could not be recorded.                                                *)
AuditModeObserves ==
  cfg.mode = "audit" =>
    \A r \in Requests :
      /\ status[r] = "idle"
      /\ req[r].pc = "refused" => cfg.onError # "continue" /\ ~Logged(r)

(* Outbound: "filters list results so the agent never learns about denied   *)
(* capabilities": no answer to a list request names a hidden target.        *)
HiddenNeverShown ==
  \A r \in Requests : req[r].method \in Listings => got[r].entries \cap Hidden = {}

(* What the table does achieve: a list answer is filtered unless its id was *)
(* used twice, by another client of the proxy or by the server for a        *)
(* request of its own while the list was outstanding.                       *)
ListsFiltered ==
  \A r \in Requests :
    req[r].method \in Listings /\ Alone(r) /\ r \notin overtaken =>
      got[r].entries \cap Hidden = {}

(* An answer is filtered as its own request requires and not otherwise: a   *)
(* list by its kind, everything else not at all, whatever other answers and *)
(* server requests came first, under the same two conditions.               *)
AnswersCorrelated ==
  \A r \in Requests :
    req[r].pc = "answered" /\ Alone(r) /\ r \notin overtaken =>
      got[r] = IF req[r].method \in Listings
               THEN Outbound(sent[r], req[r].method) ELSE sent[r]

(* Every message the agent sends is let through or refused in the end,      *)
(* whatever the human and the log do.                                       *)
EveryRequestJudged ==
  \A r \in Requests :
    req[r].pc = "arrived" ~> req[r].pc \in LetThrough \cup {"refused"}
=============================================================================
