------------------------------- MODULE Policy -------------------------------
(***************************************************************************)
(* The policy engine: policy.Engine (internal/policy/engine.go) on a        *)
(* configuration that policy.Load has accepted (config.go).                 *)
(*                                                                         *)
(* Two loops run over the rules, each in order and each stopping at the     *)
(* first rule that settles its question: Evaluate decides one call,         *)
(* ToolVisible decides whether the tool is advertised.  They are different  *)
(* code with different stopping conditions, called for different messages,  *)
(* and the agent sees both answers.                                         *)
(*                                                                         *)
(* A glob list is the set of tool names it matches.  A matcher is what      *)
(* Matcher.Match answers for each value: Outcome.                           *)
(***************************************************************************)
EXTENDS Naturals, Sequences

CONSTANTS
  Servers, Tools,    \* names a call can carry
  ArgNames, Rank,    \* argument names and their place in sort.Strings order
  Values,            \* argument values
  Missing,           \* stands for the value of an argument that is not there
  Matchers, Outcome, \* Outcome[m, v]: what matcher m answers for v
  Policies, Calls    \* the configurations and the calls considered

Outcomes == {"yes", "no", "error"}
Actions == {"allow", "deny", "approve"}
Permits == {"allow", "approve"}

Partial(S, T) == UNION {[D -> T] : D \in SUBSET S}

ASSUME RankAssumption ==
  /\ Rank \in [ArgNames -> Nat]
  /\ \A m, n \in ArgNames : Rank[m] = Rank[n] => m = n
ASSUME OutcomeAssumption ==
  /\ Missing \notin Values
  /\ Outcome \in [Matchers \X (Values \cup {Missing}) -> Outcomes]

(* A rule with no match block (Match == nil) constrains no argument; one    *)
(* with a match block may constrain none as well ("match: {}").             *)
Rule ==
  [servers : SUBSET Servers, tools : SUBSET Tools, scoped : BOOLEAN,
   args : Partial(ArgNames, Matchers), additional : {"allow", "deny", "inherit"},
   action : Actions]

(* What applyDefaults and validate leave: actions are set and legal, every  *)
(* rule has a tool pattern.                                                 *)
ASSUME PoliciesAssumption ==
  \A p \in Policies :
    /\ p.rules \in Seq(Rule)
    /\ p.action \in Actions
    /\ p.additional \in {"allow", "deny"}
    /\ \A i \in DOMAIN p.rules : ~p.rules[i].scoped => DOMAIN p.rules[i].args = {}
ASSUME CallsAssumption ==
  Calls \subseteq [server : Servers, tool : Tools, args : Partial(ArgNames, Values)]

VARIABLES
  policy, call,      \* the configuration and the call in question
  at, decision,      \* Evaluate: the rule under examination, and the answer
  listAt, shown      \* ToolVisible: likewise

vars == <<policy, call, at, decision, listAt, shown>>

Undecided == [action |-> "none", rule |-> 0]

TypeOK ==
  /\ policy \in Policies
  /\ call \in Calls
  /\ at \in 1 .. Len(policy.rules) + 1
  /\ decision \in [action : Actions \cup {"none"}, rule : 0 .. Len(policy.rules)]
  /\ listAt \in 1 .. Len(policy.rules) + 1
  /\ shown \in {"none", "yes", "no"}

Init ==
  /\ policy \in Policies
  /\ call \in Calls
  /\ at = 1
  /\ decision = Undecided
  /\ listAt = 1
  /\ shown = "none"

-----------------------------------------------------------------------------
(* ruleTargets: an empty server list is every server. *)
RuleTargets(rule, c) ==
  /\ rule.servers = {} \/ c.server \in rule.servers
  /\ c.tool \in rule.tools

(* Matcher.Match on the argument called n, there or not. *)
ArgOutcome(rule, args, n) ==
  Outcome[rule.args[n], IF n \in DOMAIN args THEN args[n] ELSE Missing]

Failing(rule, args) == {n \in DOMAIN rule.args : ArgOutcome(rule, args, n) # "yes"}

First(names) == CHOOSE n \in names : \A m \in names : Rank[n] <= Rank[m]

(* checkAdditionalArgs: the rule's own setting, else the default. *)
AdditionalOK(p, rule, args) ==
  \/ rule.additional = "allow"
  \/ rule.additional = "inherit" /\ p.additional = "allow"
  \/ DOMAIN args \subseteq DOMAIN rule.args

\* Faulty variant of ArgsMatch: the check of unnamed arguments is a mismatch.
ArgsMatchLenient(p, rule, args) ==
  IF DOMAIN rule.args = {} THEN "yes"
  ELSE IF Failing(rule, args) # {}
  THEN ArgOutcome(rule, args, First(Failing(rule, args)))
  ELSE IF AdditionalOK(p, rule, args) THEN "yes" ELSE "no"

(* argsMatch: arguments are taken in sorted order and the first one that is *)
(* not satisfied settles the rule; then the arguments nobody named.         *)
ArgsMatch(p, rule, args) ==
  IF DOMAIN rule.args = {} THEN "yes"
  ELSE IF Failing(rule, args) # {}
  THEN ArgOutcome(rule, args, First(Failing(rule, args)))
  ELSE IF AdditionalOK(p, rule, args) THEN "yes" ELSE "error"

(* The body of Evaluate's loop for rule i. *)
Verdict(p, c, i) ==
  IF RuleTargets(p.rules[i], c) THEN ArgsMatch(p, p.rules[i], c.args) ELSE "no"

-----------------------------------------------------------------------------
(* Evaluate *)

Examining == decision = Undecided /\ at <= Len(policy.rules)

\* Faulty variant of SkipRule: an error is a mismatch.
SkipOnError ==
  /\ Examining
  /\ Verdict(policy, call, at) # "yes"
  /\ at' = at + 1
  /\ UNCHANGED <<policy, call, decision, listAt, shown>>

(* continue: the rule does not target the call or does not match it. *)
SkipRule ==
  /\ Examining
  /\ Verdict(policy, call, at) = "no"
  /\ at' = at + 1
  /\ UNCHANGED <<policy, call, decision, listAt, shown>>

(* A rule that cannot be evaluated denies. *)
RuleError ==
  /\ Examining
  /\ Verdict(policy, call, at) = "error"
  /\ decision' = [action |-> "deny", rule |-> at]
  /\ UNCHANGED <<policy, call, at, listAt, shown>>

RuleMatches ==
  /\ Examining
  /\ Verdict(policy, call, at) = "yes"
  /\ decision' = [action |-> policy.rules[at].action, rule |-> at]
  /\ UNCHANGED <<policy, call, at, listAt, shown>>

(* No rule matched: defaults.action. *)
ApplyDefault ==
  /\ decision = Undecided
  /\ at = Len(policy.rules) + 1
  /\ decision' = [action |-> policy.action, rule |-> 0]
  /\ UNCHANGED <<policy, call, at, listAt, shown>>

-----------------------------------------------------------------------------
(* ToolVisible *)

Listing == shown = "none" /\ listAt <= Len(policy.rules)

Advertise(yes) == shown' = IF yes THEN "yes" ELSE "no"

\* Faulty variant of Decisive: a scoped deny hides the tool.
FirstTargetDecides(rule) == TRUE

(* A rule that settles visibility: one without a match block, which every   *)
(* call that reaches it matches, or one that permits some calls.            *)
Decisive(rule) == ~rule.scoped \/ rule.action \in Permits

(* The rule is for another tool, or denies only some calls. *)
ListSkip ==
  /\ Listing
  /\ LET rule == policy.rules[listAt] IN ~(RuleTargets(rule, call) /\ Decisive(rule))
  /\ listAt' = listAt + 1
  /\ UNCHANGED <<policy, call, at, decision, shown>>

ListSettle ==
  /\ Listing
  /\ LET rule == policy.rules[listAt] IN
       /\ RuleTargets(rule, call)
       /\ Decisive(rule)
       /\ Advertise(rule.action \in Permits)
  /\ UNCHANGED <<policy, call, at, decision, listAt>>

ListDefault ==
  /\ shown = "none"
  /\ listAt = Len(policy.rules) + 1
  /\ Advertise(policy.action \in Permits)
  /\ UNCHANGED <<policy, call, at, decision, listAt>>

EvaluateStep == SkipRule \/ RuleError \/ RuleMatches \/ ApplyDefault
ToolVisibleStep == ListSkip \/ ListSettle \/ ListDefault

Next == EvaluateStep \/ ToolVisibleStep

Spec == Init /\ [][Next]_vars

-----------------------------------------------------------------------------
Permitted == decision.action \in Permits

(* A rule stands aside only for a clean mismatch: it targets another call,  *)
(* or one of its constraints says no.                                       *)
StandsAside(rule, c) ==
  \/ ~RuleTargets(rule, c)
  \/ \E n \in DOMAIN rule.args : ArgOutcome(rule, c.args, n) = "no"

(* A rule speaks for a call: all its constraints are satisfied and, if it   *)
(* has any, the call has no other argument unless the rule allows that.     *)
SpeaksFor(p, rule, c) ==
  /\ RuleTargets(rule, c)
  /\ \A n \in DOMAIN rule.args : ArgOutcome(rule, c.args, n) = "yes"
  /\ DOMAIN rule.args = {} \/ AdditionalOK(p, rule, c.args)

(* Evaluate: a call is permitted only because a rule that permits it speaks *)
(* for it, or the default permits, and every rule before it stood aside.  A *)
(* rule that could not be evaluated, or met an argument it does not name,   *)
(* never hands the call on to a later, more generous rule.                  *)
PermitJustified ==
  Permitted =>
    LET k == decision.rule
        earlier == IF k = 0 THEN DOMAIN policy.rules ELSE 1 .. k - 1 IN
    /\ \A i \in earlier : StandsAside(policy.rules[i], call)
    /\ k # 0 => /\ policy.rules[k].action = decision.action
                /\ SpeaksFor(policy, policy.rules[k], call)
    /\ k = 0 => policy.action = decision.action

(* ToolVisible, "could this tool ever be permitted?": a tool some call of   *)
(* which Evaluate permits is never hidden from tools/list, although the two *)
(* loops stop at different rules.                                           *)
PermittedIsListed == Permitted => shown # "no"

(* What Evaluate answers for call c under p, said without the loop. *)
Evaluate(p, c) ==
  LET settling == {i \in DOMAIN p.rules : Verdict(p, c, i) # "no"} IN
  IF settling = {} THEN [action |-> p.action, rule |-> 0]
  ELSE LET i == CHOOSE i \in settling : \A j \in settling : i <= j IN
       IF Verdict(p, c, i) = "yes" THEN [action |-> p.rules[i].action, rule |-> i]
       ELSE [action |-> "deny", rule |-> i]

Without(c, n) == [c EXCEPT !.args = [m \in DOMAIN c.args \ {n} |-> c.args[m]]]

(* checkAdditionalArgs: an argument that no rule names is never what gets a *)
(* call permitted: without it the decision, and the rule it is attributed   *)
(* to, are the same.                                                        *)
UnnamedNeverWidens ==
  Permitted =>
    \A n \in DOMAIN call.args :
      (\A i \in DOMAIN policy.rules : n \notin DOMAIN policy.rules[i].args)
        => Evaluate(policy, Without(call, n)) = decision

(* docs/threat-model.md:48: "A type-confused argument is a denial, not a    *)
(* skipped rule."  So no call is permitted past a rule that targets it and  *)
(* constrains an argument whose value its matcher cannot even compare.      *)
TypeConfusionDenied ==
  Permitted =>
    \A i \in 1 .. at :
      i <= Len(policy.rules) /\ RuleTargets(policy.rules[i], call) =>
        \A n \in DOMAIN policy.rules[i].args :
          ArgOutcome(policy.rules[i], call.args, n) # "error"
=============================================================================
