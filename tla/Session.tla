------------------------------- MODULE Session -------------------------------
(***************************************************************************)
(* A session of "mcpguard run": runCmd (cmd/mcpguard/run.go), from reading  *)
(* the policy to the end of the process, with the policy of Config.tla, the *)
(* recorder of AuditLog.tla, and Interceptor.finish between the two.        *)
(*                                                                         *)
(* The operator may start the program again, with the same command, after   *)
(* it stopped or was killed; the audit file is the same.  The transports    *)
(* (StdioProxy.tla, HttpProxy.tla) are two facts here: stdio carries one    *)
(* call at a time and returns only when Inbound does, while http carries    *)
(* many and, its shutdown timing out, returns with handlers still running.  *)
(* How a call is judged is Policy.tla and Interceptor.tla; here its final   *)
(* decision is chosen where it first matters, when the recorder returns.    *)
(***************************************************************************)
EXTENDS Config, Redaction, FiniteSets

CONSTANTS
  Calls,             \* every call is made once
  Commands,          \* policy files with the flags of the command line
  Arguments,         \* of calls, as in Redaction
  MaxStarts          \* how often the program is started

ASSUME MaxStartsAssumption == MaxStarts \in Nat
ASSUME CommandsAssumption == \A cmd \in Commands : IsConfig(cmd.policy)
ASSUME ArgumentsAssumption == \A args \in Arguments : IsArguments(args)

VARIABLES
  command,           \* the command line and the policy file it names
  cfg,               \* what the session runs with, once it serves
  phase,             \* where runCmd is
  starts,            \* how often it has been started
  outcome,           \* what became of a call
  cancelled,         \* on_error: halt has cancelled baseCtx
  measured, file, handle, lock, rec, counts  \* see AuditLog

auditVars == <<measured, file, handle, lock, rec, counts>>
vars == <<command, cfg, phase, starts, outcome, cancelled, auditVars>>

Audit == INSTANCE AuditLog

(* serving: the transport runs; closing: it has returned and the deferred   *)
(* calls run; closed: the log is closed and main is about to exit.          *)
Phases == {"off", "serving", "closing", "closed"}
Outcomes == {"none", "forwarded", "refused", "dropped"}

TypeOK ==
  /\ command \in Commands
  /\ cfg \in [mode : {"enforce", "audit"}, onError : {"halt", "deny", "continue"},
             transport : {"stdio", "http"}]
  /\ phase \in Phases
  /\ starts \in 0 .. MaxStarts
  /\ outcome \in [Calls -> Outcomes]
  /\ cancelled \in BOOLEAN
  /\ Audit!TypeOK

Init ==
  /\ command \in Commands
  /\ cfg = [mode |-> "enforce", onError |-> "deny", transport |-> "stdio"]
  /\ phase = "off"
  /\ starts = 0
  /\ outcome = [c \in Calls |-> "none"]
  /\ cancelled = FALSE
  /\ Audit!Init
  /\ measured = command.metrics

-----------------------------------------------------------------------------
(* What of the policy the session needs, after --audit-mode. *)
Effective(cmd) ==
  LET c == Load(cmd.policy) IN
  [mode |-> IF cmd.auditMode THEN "audit" ELSE c.mode, onError |-> c.onError,
   transport |-> ServerByName(c, cmd.server).transport]

(* NewBroker, called when a channel is configured. *)
BrokerStarts(c) == c.channel = "" \/ (c.channel = "ntfy" /\ c.address)

(* runCmd reaches the transport; audit.Open is judged apart.  The http      *)
(* transport needs --listen, which --policy-only does not ask for.          *)
Ready(cmd) ==
  /\ Accepts(cmd.policy)
  /\ cmd.server \in ServerNames(Load(cmd.policy))
  /\ BrokerStarts(Load(cmd.policy))
  /\ ~cmd.policyOnly
  /\ ServerByName(Load(cmd.policy), cmd.server).transport = "http" => cmd.listen

Starting == phase = "off" /\ starts < MaxStarts /\ starts' = starts + 1

(* The command is refused, or only asked whether the policy is valid, or    *)
(* the audit file cannot be opened: the process ends with no call served.   *)
StartFails ==
  /\ Starting
  /\ ~Ready(command) \/ command.policy.path # ""
  /\ UNCHANGED <<command, cfg, phase, outcome, cancelled, auditVars>>

Start ==
  /\ Starting
  /\ Ready(command)
  /\ cfg' = Effective(command)
  /\ Audit!Open(IF command.policy.path = "" THEN "stderr" ELSE "file")
  /\ phase' = "serving"
  /\ cancelled' = FALSE
  /\ UNCHANGED <<command, outcome>>

InProgress(c) == rec[c] # "idle" /\ outcome[c] = "none"

(* Inbound has decided c and calls the recorder. *)
Judge(c) ==
  /\ phase # "off"
  /\ cfg.transport = "stdio" => phase = "serving" /\ \A b \in Calls : ~InProgress(b)
  /\ Audit!Begin(c)
  /\ UNCHANGED <<command, cfg, phase, starts, outcome, cancelled>>

Record(c) ==
  /\ Audit!Step(c)
  /\ UNCHANGED <<command, cfg, phase, starts, outcome, cancelled>>

(* finish: whether a call gets through, given what Record returned. *)
GetsThrough(c, action, answer) ==
  /\ answer = "ok" \/ c.onError = "continue"
  /\ c.mode = "audit" \/ action = "allow"

(* finish: the call, decided as d, goes on or is refused; on_error: halt    *)
(* cancels.                                                                 *)
Finish(c, d) ==
  /\ phase # "off" /\ InProgress(c)
  /\ rec[c] \in {"ok", "error"}
  /\ outcome' = [outcome EXCEPT
       ![c] = IF GetsThrough(cfg, d, rec[c]) THEN "forwarded" ELSE "refused"]
  /\ cancelled' = (cancelled \/ (rec[c] = "error" /\ cfg.onError = "halt"))
  /\ UNCHANGED <<command, cfg, phase, starts, auditVars>>

(* stdio.Run or httpsse.Run returns: the agent left, the server died, a     *)
(* signal came, or the context was cancelled.                               *)
TransportReturns ==
  /\ phase = "serving"
  /\ cfg.transport = "stdio" => \A c \in Calls : ~InProgress(c)
  /\ phase' = "closing"
  /\ UNCHANGED <<command, cfg, starts, outcome, cancelled, auditVars>>

(* The deferred calls, logger.Close the last of them. *)
CloseLog ==
  /\ phase = "closing"
  /\ Audit!Close
  /\ phase' = "closed"
  /\ UNCHANGED <<command, cfg, starts, outcome, cancelled>>

(* main exits, or the process is killed before it gets there. *)
ProcessEnds ==
  /\ phase # "off"
  /\ Audit!ProcessEnds
  /\ phase' = "off"
  /\ outcome' = [c \in Calls |-> IF InProgress(c) THEN "dropped" ELSE outcome[c]]
  /\ UNCHANGED <<command, cfg, starts, cancelled>>

Next ==
  \/ Start \/ StartFails
  \/ \E c \in Calls :
       \/ Judge(c)
       \/ Record(c)
       \/ \E d \in {"allow", "deny"} : Finish(c, d)
  \/ TransportReturns \/ CloseLog \/ ProcessEnds

(* A goroutine that can run does; a cancelled transport returns, as         *)
(* CancelStopsRun of HttpProxy says, and StopsEndRun of StdioProxy where    *)
(* nobody holds the session up (ASSUMED here: see HeldUp there); main exits *)
(* after runCmd.                                                            *)
Fairness ==
  /\ \A c \in Calls : WF_vars(Record(c)) /\ WF_vars(\E d \in {"allow", "deny"} : Finish(c, d))
  /\ WF_vars(cancelled /\ TransportReturns)
  /\ WF_vars(CloseLog)
  /\ WF_vars(phase = "closed" /\ ProcessEnds)

Spec == Init /\ [][Next]_vars /\ Fairness

-----------------------------------------------------------------------------
(* The whole chain from Record's answer to the call, over restarts: unless  *)
(* the policy says on_error: continue, a call that got through has its      *)
(* whole record in the file, also when the log was being closed under it or *)
(* the process was killed right after, and whether or not metrics are on.   *)
ForwardedIsRecorded ==
  \A c \in Calls :
    outcome[c] = "forwarded" /\ cfg.onError # "continue" => c \in Audit!Recorded

RecorderImplemented == Audit!RecorderImplemented
DamageIsLocal == Audit!DamageIsLocal
MetricsCountEveryDecision == Audit!MetricsCountEveryDecision

(* on_error: halt: once a call could not be recorded the process ends,      *)
(* whatever the other calls are doing; no lock, no call keeps it.  (That    *)
(* the transport returns is Fairness, and what may hold stdio's up is       *)
(* StdioProxy's subject.)                                                   *)
HaltEndsSession == cancelled ~> phase = "off"

-----------------------------------------------------------------------------
(* What a configuration lets through, over the situations a call can be in: *)
(* the action of the rule that matched, or "none"; whether the call has     *)
(* arguments nobody named; what the human does if asked; whether the        *)
(* decision could be recorded.                                              *)
Situations ==
  [matched : Actions \cup {"none"}, unnamed : BOOLEAN,
   human : {"allow", "deny", "silent"}, answer : {"ok", "error"}]

ActionIn(c, s) ==
  IF s.matched = "none" THEN c.action
  ELSE IF s.unnamed /\ c.additional = "deny" THEN "deny" ELSE s.matched

Resolved(c, s) ==
  IF ActionIn(c, s) # "approve" THEN ActionIn(c, s)
  ELSE IF c.channel = "" THEN "deny"
  ELSE IF s.human = "silent" THEN c.onTimeout ELSE s.human

Access(c) == {s \in Situations : GetsThrough(c, Resolved(c, s), s.answer)}

(* The policy files that say the same and leave nothing out. *)
Fields ==
  [mode : {"enforce", "audit"}, action : Actions, additional : {"allow", "deny"},
   onError : {"halt", "deny", "continue"}, onTimeout : Actions]
Filled(raw, v) ==
  [raw EXCEPT !.mode = v.mode, !.action = v.action, !.additional = v.additional,
              !.onError = v.onError, !.onTimeout = v.onTimeout]
Explicit(raw) ==
  {Filled(raw, v) : v \in {w \in Fields : \A f \in DOMAIN w : raw[f] # "" => w[f] = raw[f]}}

(* applyDefaults: "Every default is the safe value: an omitted field can    *)
(* never widen access."  A policy file that leaves fields out lets through  *)
(* no more than any acceptable file that spells them out.                   *)
OmissionNeverWidens ==
  starts = 0 /\ Accepts(command.policy) =>
    \A full \in Explicit(command.policy) :
      Accepts(full) => Access(Load(command.policy)) \subseteq Access(Load(full))

(* audit.redact: whatever the order of the patterns, and whether or not     *)
(* they overlap, the log shows nothing of a value a pattern names or of     *)
(* what is in it, exactly one placeholder in its place, and everything else *)
(* as it was; no name is invented.                                          *)
RedactionHides ==
  starts = 0 /\ Accepts(command.policy) =>
    LET patterns == command.policy.redact
        Hidden(p) == \E i \in DOMAIN patterns : Reaches(patterns[i], p)
    IN \A args \in Arguments :
         LET shown == RedactCopy(args, patterns) IN
         /\ \A p \in DOMAIN shown :
              (Hidden(p) => shown[p] = Placeholder) /\ \E q \in DOMAIN args : IsPrefix(p, q)
         /\ \A p \in DOMAIN args :
              IF Hidden(p)
              THEN Cardinality({q \in DOMAIN shown : IsPrefix(q, p)}) = 1
              ELSE p \in DOMAIN shown /\ shown[p] = args[p]

(* Load: what it accepts the other components can work with.  This is what  *)
(* Policy.tla, Interceptor.tla, Matcher.tla and Approval.tla assume of a    *)
(* configuration: legal actions, a time limit for approvals (a negative one *)
(* denies at once), no approval by timeout, a transport with its address,   *)
(* tool patterns, and matchers whose every node, nested or not, is compiled *)
(* and constrains something.                                                *)
LoadedIsUsable ==
  starts = 0 /\ Accepts(command.policy) =>
    LET c == Load(command.policy) IN
    /\ {c.action} \cup {c.rules[i].action : i \in DOMAIN c.rules} \subseteq Actions
    /\ c.timeout # 0 /\ c.onTimeout # "allow"
    /\ \A i \in DOMAIN c.rules :
         /\ c.rules[i].tools # {} /\ c.rules[i].servers \subseteq ServerNames(c)
         /\ \A n \in DOMAIN c.rules[i].args :
              LET m == c.rules[i].args[n] IN
              \A j \in DOMAIN m : m[j].compiled /\ HasOperator(m[j]) /\ m[j].pattern # "bad"
    /\ \A name \in ServerNames(c) :
         LET s == ServerByName(c, name) IN
         IF s.transport = "stdio" THEN s.command ELSE s.transport = "http" /\ s.url
=============================================================================
