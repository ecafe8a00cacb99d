---------------------------- MODULE PolicyProofs ----------------------------
(***************************************************************************)
(* Theorems about the policy engine, for every configuration Load accepts,  *)
(* every call and every behaviour of the matchers.                          *)
(***************************************************************************)
EXTENDS Policy, WellFoundedInduction, TLAPS

(* Evaluate's loop: every rule before at stood aside, and a decision is     *)
(* what the rule at at, or the default behind the last rule, makes it.      *)
Settled(p, c, d, k) ==
  \/ k = Len(p.rules) + 1 /\ d = [action |-> p.action, rule |-> 0]
  \/ /\ k \in DOMAIN p.rules /\ d.rule = k
     /\ \/ Verdict(p, c, k) = "yes" /\ d.action = p.rules[k].action
        \/ Verdict(p, c, k) = "error" /\ d.action = "deny"

EvaluateInv ==
  /\ \A i \in DOMAIN policy.rules : i < at => Verdict(policy, call, i) = "no"
  /\ decision = Undecided \/ Settled(policy, call, decision, at)

(* ToolVisible's loop: no rule before listAt settles visibility, and a      *)
(* hidden tool is hidden by the rule at listAt or by the default.           *)
ListInv ==
  /\ \A i \in DOMAIN policy.rules :
       i < listAt => ~(RuleTargets(policy.rules[i], call) /\ Decisive(policy.rules[i]))
  /\ shown = "no" =>
       \/ /\ listAt \in DOMAIN policy.rules
          /\ RuleTargets(policy.rules[listAt], call)
          /\ ~policy.rules[listAt].scoped
          /\ policy.rules[listAt].action \notin Permits
       \/ listAt = Len(policy.rules) + 1 /\ policy.action \notin Permits

IndInv == TypeOK /\ EvaluateInv /\ ListInv

-----------------------------------------------------------------------------
(* What the assumption on configurations says of one rule. *)
LEMMA RuleTyped ==
  ASSUME NEW p \in Policies, NEW i \in DOMAIN p.rules
  PROVE  /\ Len(p.rules) \in Nat /\ DOMAIN p.rules = 1 .. Len(p.rules)
         /\ p.rules[i].action \in Actions
         /\ p.action \in Actions
         /\ p.rules[i].scoped \in BOOLEAN
         /\ ~p.rules[i].scoped => DOMAIN p.rules[i].args = {}
<1>1. p.rules \in Seq(Rule) /\ p.action \in Actions
  BY PoliciesAssumption
<1>2. p.rules[i] \in Rule /\ Len(p.rules) \in Nat /\ DOMAIN p.rules = 1 .. Len(p.rules)
  BY <1>1
<1> QED BY <1>1, <1>2, PoliciesAssumption DEF Rule

LEMMA PolicyTyped ==
  ASSUME NEW p \in Policies
  PROVE  /\ Len(p.rules) \in Nat /\ DOMAIN p.rules = 1 .. Len(p.rules)
         /\ p.action \in Actions
BY PoliciesAssumption

(* A rule without constraints matches every call it targets. *)
LEMMA UnscopedMatches ==
  ASSUME NEW p, NEW c, NEW i \in DOMAIN p.rules,
         RuleTargets(p.rules[i], c), DOMAIN p.rules[i].args = {}
  PROVE  Verdict(p, c, i) = "yes"
BY DEF Verdict, ArgsMatch

LEMMA InitInd == Init => IndInv
<1> SUFFICES ASSUME Init PROVE IndInv
  OBVIOUS
<1>1. /\ policy \in Policies /\ call \in Calls /\ at = 1 /\ listAt = 1
      /\ decision = Undecided /\ shown = "none"
  BY DEF Init
<1>2. Len(policy.rules) \in Nat /\ DOMAIN policy.rules = 1 .. Len(policy.rules)
  BY <1>1, PolicyTyped
<1>3. TypeOK
  BY <1>1, <1>2 DEF TypeOK, Undecided
<1>4. \A i \in DOMAIN policy.rules : ~(i < 1)
  BY <1>2
<1> QED BY <1>1, <1>3, <1>4 DEF IndInv, EvaluateInv, ListInv

LEMMA NextInd == IndInv /\ [Next]_vars => IndInv'
<1> SUFFICES ASSUME IndInv, [Next]_vars PROVE IndInv'
  OBVIOUS
<1>t. /\ policy \in Policies /\ call \in Calls
      /\ Len(policy.rules) \in Nat /\ DOMAIN policy.rules = 1 .. Len(policy.rules)
      /\ policy.action \in Actions
      /\ at \in 1 .. Len(policy.rules) + 1 /\ listAt \in 1 .. Len(policy.rules) + 1
  BY PolicyTyped DEF IndInv, TypeOK
<1>1. CASE SkipRule
  <2>1. /\ at <= Len(policy.rules) /\ at' = at + 1
        /\ UNCHANGED <<policy, call, decision, listAt, shown>>
        /\ decision = Undecided /\ Verdict(policy, call, at) = "no"
    BY <1>1 DEF SkipRule, Examining
  <2>2. TypeOK'
    BY <1>t, <2>1 DEF IndInv, TypeOK
  <2>3. \A i \in DOMAIN policy.rules : i < at + 1 => i < at \/ i = at
    BY <1>t
  <2>4. EvaluateInv'
    BY <2>1, <2>3 DEF IndInv, EvaluateInv
  <2>5. ListInv'
    BY <2>1 DEF IndInv, ListInv
  <2> QED BY <2>2, <2>4, <2>5 DEF IndInv
<1>2. CASE RuleError \/ RuleMatches \/ ApplyDefault
  <2>1. UNCHANGED <<policy, call, at, listAt, shown>>
    BY <1>2 DEF RuleError, RuleMatches, ApplyDefault
  <2>2. /\ Settled(policy, call, decision', at)
        /\ decision' \in [action : Actions \cup {"none"}, rule : 0 .. Len(policy.rules)]
    <3>1. CASE RuleError
      <4>1. /\ at \in DOMAIN policy.rules /\ Verdict(policy, call, at) = "error"
            /\ decision' = [action |-> "deny", rule |-> at]
        BY <1>t, <3>1 DEF RuleError, Examining
      <4> QED BY <1>t, <4>1 DEF Settled, Actions
    <3>2. CASE RuleMatches
      <4>1. /\ at \in DOMAIN policy.rules /\ Verdict(policy, call, at) = "yes"
            /\ decision' = [action |-> policy.rules[at].action, rule |-> at]
        BY <1>t, <3>2 DEF RuleMatches, Examining
      <4>2. policy.rules[at].action \in Actions
        BY <1>t, <4>1, RuleTyped
      <4> QED BY <1>t, <4>1, <4>2 DEF Settled
    <3>3. CASE ApplyDefault
      BY <1>t, <3>3 DEF ApplyDefault, Settled
    <3> QED BY <1>2, <3>1, <3>2, <3>3
  <2>3. TypeOK'
    BY <2>1, <2>2 DEF IndInv, TypeOK
  <2>4. EvaluateInv'
    BY <2>1, <2>2 DEF IndInv, EvaluateInv
  <2>5. ListInv'
    BY <2>1 DEF IndInv, ListInv
  <2> QED BY <2>3, <2>4, <2>5 DEF IndInv
<1>3. CASE ListSkip
  <2>1. /\ listAt <= Len(policy.rules) /\ listAt' = listAt + 1
        /\ UNCHANGED <<policy, call, at, decision, shown>> /\ shown = "none"
        /\ ~(RuleTargets(policy.rules[listAt], call) /\ Decisive(policy.rules[listAt]))
    BY <1>3 DEF ListSkip, Listing
  <2>2. TypeOK'
    BY <1>t, <2>1 DEF IndInv, TypeOK
  <2>3. \A i \in DOMAIN policy.rules : i < listAt + 1 => i < listAt \/ i = listAt
    BY <1>t
  <2>4. ListInv'
    BY <2>1, <2>3 DEF IndInv, ListInv
  <2>5. EvaluateInv'
    BY <2>1 DEF IndInv, EvaluateInv
  <2> QED BY <2>2, <2>4, <2>5 DEF IndInv
<1>4. CASE ListSettle \/ ListDefault
  <2>1. UNCHANGED <<policy, call, at, decision, listAt>> /\ shown' \in {"yes", "no"}
    BY <1>4 DEF ListSettle, ListDefault, Advertise
  <2>2. ASSUME shown' = "no"
        PROVE  \/ /\ listAt \in DOMAIN policy.rules
                  /\ RuleTargets(policy.rules[listAt], call)
                  /\ ~policy.rules[listAt].scoped
                  /\ policy.rules[listAt].action \notin Permits
               \/ listAt = Len(policy.rules) + 1 /\ policy.action \notin Permits
    BY <1>t, <1>4, <2>2 DEF ListSettle, ListDefault, Listing, Advertise, Decisive
  <2>3. ListInv'
    BY <2>1, <2>2 DEF IndInv, ListInv
  <2>4. TypeOK' /\ EvaluateInv'
    BY <2>1 DEF IndInv, TypeOK, EvaluateInv
  <2> QED BY <2>3, <2>4 DEF IndInv
<1>5. CASE UNCHANGED vars
  BY <1>5 DEF vars, IndInv, TypeOK, EvaluateInv, ListInv
<1> QED BY <1>1, <1>2, <1>3, <1>4, <1>5 DEF Next, EvaluateStep, ToolVisibleStep

(* The invariant of both loops holds in every reachable state. *)
THEOREM Invariance == Spec => []IndInv
BY InitInd, NextInd, PTL DEF Spec

(* The engine's state is of its type. *)
THEOREM TypeCorrect == Spec => []TypeOK
<1>1. IndInv => TypeOK
  BY DEF IndInv
<1> QED BY <1>1, Invariance, PTL

-----------------------------------------------------------------------------
(* A permit comes from a rule that matches, or from the default. *)
LEMMA PermitFrom ==
  ASSUME IndInv, Permitted
  PROVE  \/ /\ decision.rule = 0 /\ at = Len(policy.rules) + 1
            /\ policy.action = decision.action
         \/ /\ decision.rule = at /\ at \in DOMAIN policy.rules
            /\ Verdict(policy, call, at) = "yes"
            /\ policy.rules[at].action = decision.action
<1>1. decision # Undecided
  BY DEF Permitted, Permits, Undecided
<1> QED BY <1>1 DEF IndInv, EvaluateInv, Settled, Permitted, Permits

(* A tool some call of which is permitted is never hidden.  If ToolVisible  *)
(* was settled by an unscoped rule, Evaluate cannot have got past that rule;*)
(* if by a later rule or the default, the permitting rule was decisive.     *)
THEOREM ListingIsHonest == Spec => []PermittedIsListed
<1>1. IndInv => PermittedIsListed
  <2> SUFFICES ASSUME IndInv, Permitted, shown = "no" PROVE FALSE
    BY DEF PermittedIsListed
  <2>t. /\ Len(policy.rules) \in Nat /\ DOMAIN policy.rules = 1 .. Len(policy.rules)
        /\ at \in 1 .. Len(policy.rules) + 1 /\ listAt \in 1 .. Len(policy.rules) + 1
        /\ policy \in Policies
    BY PolicyTyped DEF IndInv, TypeOK
  <2>1. decision.action \in Permits
    BY DEF Permitted
  <2>2. \A i \in DOMAIN policy.rules :
          i < listAt => ~(RuleTargets(policy.rules[i], call) /\ Decisive(policy.rules[i]))
    BY DEF IndInv, ListInv
  <2>3. ASSUME at \in DOMAIN policy.rules, at < listAt,
               Verdict(policy, call, at) = "yes", policy.rules[at].action \in Permits
        PROVE  FALSE
    BY <2>2, <2>3 DEF Verdict, Decisive
  <2>4. CASE /\ listAt \in DOMAIN policy.rules
             /\ RuleTargets(policy.rules[listAt], call)
             /\ ~policy.rules[listAt].scoped
             /\ policy.rules[listAt].action \notin Permits
    <3>1. Verdict(policy, call, listAt) = "yes"
      BY <2>4, <2>t, RuleTyped, UnscopedMatches
    <3>2. ~(listAt < at)
      BY <2>4, <3>1 DEF IndInv, EvaluateInv
    <3> QED BY <2>t, <2>1, <2>3, <2>4, <3>2, PermitFrom
  <2>5. CASE listAt = Len(policy.rules) + 1 /\ policy.action \notin Permits
    BY <2>t, <2>1, <2>3, <2>5, PermitFrom
  <2> QED BY <2>4, <2>5 DEF IndInv, ListInv
<1> QED BY <1>1, Invariance, PTL

-----------------------------------------------------------------------------
(* First picks a member of a non-empty set of argument names. *)
LEMMA FirstIn ==
  ASSUME NEW S, S \subseteq ArgNames, S # {}
  PROVE  First(S) \in S
<1>1. \E n \in S : \A m \in S : Rank[n] <= Rank[m]
  <2> DEFINE R == {Rank[n] : n \in S}
  <2>1. R # {} /\ R \subseteq Nat
    BY RankAssumption
  <2>2. \E k \in R : \A l \in R : k <= l
    <3> HIDE DEF R
    <3>1. PICK k \in R : \A l \in R : ~ (<<l, k>> \in OpToRel(<, Nat))
      BY <2>1, WFMin, NatLessThanWellFounded
    <3>2. ASSUME NEW l \in Nat, NEW m \in Nat, l < m
          PROVE  <<l, m>> \in OpToRel(<, Nat)
      <4>1. <<l, m>> \in {ss \in Nat \X Nat : ss[1] < ss[2]}
        BY <3>2
      <4> QED BY <4>1, Zenon DEF OpToRel
    <3>3. \A l \in R : ~(l < k)
      BY <2>1, <3>1, <3>2
    <3> QED BY <2>1, <3>3
  <2> QED BY <2>2
<1> QED BY <1>1 DEF First

(* The arguments of a rule and of a call are functions on argument names. *)
LEMMA ArgsTyped ==
  ASSUME NEW p \in Policies, NEW i \in DOMAIN p.rules
  PROVE  DOMAIN p.rules[i].args \subseteq ArgNames
<1>1. p.rules[i].args \in Partial(ArgNames, Matchers)
  <2>1. p.rules[i] \in Rule
    BY PoliciesAssumption
  <2> QED BY <2>1 DEF Rule
<1>2. PICK D \in SUBSET ArgNames : p.rules[i].args \in [D -> Matchers]
  BY <1>1 DEF Partial
<1> QED BY <1>2

LEMMA FirstFailing ==
  ASSUME NEW p \in Policies, NEW i \in DOMAIN p.rules, NEW args,
         Failing(p.rules[i], args) # {}
  PROVE  First(Failing(p.rules[i], args)) \in Failing(p.rules[i], args)
<1>1. Failing(p.rules[i], args) \subseteq ArgNames
  BY ArgsTyped DEF Failing
<1> QED BY <1>1, FirstIn

(* A mismatch is a clean one: some constraint says no. *)
LEMMA NoIsClean ==
  ASSUME NEW p \in Policies, NEW c, NEW i \in DOMAIN p.rules, Verdict(p, c, i) = "no"
  PROVE  StandsAside(p.rules[i], c)
<1>1. CASE RuleTargets(p.rules[i], c)
  <2>1. /\ Failing(p.rules[i], c.args) # {}
        /\ ArgOutcome(p.rules[i], c.args, First(Failing(p.rules[i], c.args))) = "no"
    BY <1>1 DEF Verdict, ArgsMatch
  <2>2. First(Failing(p.rules[i], c.args)) \in DOMAIN p.rules[i].args
    BY <2>1, FirstFailing DEF Failing
  <2> QED BY <2>1, <2>2 DEF StandsAside
<1>2. CASE ~RuleTargets(p.rules[i], c)
  BY <1>2 DEF StandsAside
<1> QED BY <1>1, <1>2

(* A match satisfies every constraint, and the rule about other arguments. *)
LEMMA YesIsComplete ==
  ASSUME NEW p \in Policies, NEW c, NEW i \in DOMAIN p.rules, Verdict(p, c, i) = "yes"
  PROVE  SpeaksFor(p, p.rules[i], c)
<1>1. RuleTargets(p.rules[i], c) /\ ArgsMatch(p, p.rules[i], c.args) = "yes"
  BY DEF Verdict
<1>2. CASE DOMAIN p.rules[i].args = {}
  BY <1>1, <1>2 DEF SpeaksFor
<1>3. CASE DOMAIN p.rules[i].args # {}
  <2>1. Failing(p.rules[i], c.args) = {}
    <3> SUFFICES ASSUME Failing(p.rules[i], c.args) # {} PROVE FALSE
      OBVIOUS
    <3>1. ArgOutcome(p.rules[i], c.args, First(Failing(p.rules[i], c.args))) = "yes"
      BY <1>1, <1>3 DEF ArgsMatch
    <3> QED BY <3>1, FirstFailing DEF Failing
  <2>2. AdditionalOK(p, p.rules[i], c.args)
    BY <1>1, <1>3, <2>1 DEF ArgsMatch
  <2> QED BY <1>1, <2>1, <2>2 DEF SpeaksFor, Failing
<1> QED BY <1>2, <1>3

(* A call is permitted only by a rule that speaks for it, or the default,   *)
(* after every earlier rule stood aside.                                    *)
THEOREM PermitsAreJustified == Spec => []PermitJustified
<1>1. IndInv => PermitJustified
  <2> SUFFICES ASSUME IndInv, Permitted PROVE PermitJustified
    BY DEF PermitJustified
  <2>t. /\ Len(policy.rules) \in Nat /\ DOMAIN policy.rules = 1 .. Len(policy.rules)
        /\ at \in 1 .. Len(policy.rules) + 1 /\ policy \in Policies
    BY PolicyTyped DEF IndInv, TypeOK
  <2>1. \A i \in DOMAIN policy.rules : i < at => StandsAside(policy.rules[i], call)
    BY <2>t, NoIsClean DEF IndInv, EvaluateInv
  <2>2. CASE /\ decision.rule = 0 /\ at = Len(policy.rules) + 1
             /\ policy.action = decision.action
    <3>1. \A i \in DOMAIN policy.rules : StandsAside(policy.rules[i], call)
      BY <2>t, <2>1, <2>2
    <3> QED BY <2>2, <3>1 DEF PermitJustified
  <2>3. CASE /\ decision.rule = at /\ at \in DOMAIN policy.rules
             /\ Verdict(policy, call, at) = "yes"
             /\ policy.rules[at].action = decision.action
    <3>1. SpeaksFor(policy, policy.rules[at], call)
      BY <2>t, <2>3, YesIsComplete
    <3>2. \A i \in 1 .. at - 1 : StandsAside(policy.rules[i], call)
      BY <2>t, <2>1
    <3>3. at # 0
      BY <2>t
    <3> QED BY <2>3, <3>1, <3>2, <3>3 DEF PermitJustified
  <2> QED BY <2>2, <2>3, PermitFrom
<1> QED BY <1>1, Invariance, PTL

-----------------------------------------------------------------------------
(* Dropping an argument that no rule names keeps every verdict but an error.*)
LEMMA VerdictWithout ==
  ASSUME NEW p \in Policies, NEW c \in Calls, NEW n, NEW i \in DOMAIN p.rules,
         n \notin DOMAIN p.rules[i].args,
         Verdict(p, c, i) \in {"yes", "no"}
  PROVE  Verdict(p, Without(c, n), i) = Verdict(p, c, i)
<1> DEFINE d == Without(c, n)
           rule == p.rules[i]
<1>1. /\ d.server = c.server /\ d.tool = c.tool
      /\ d.args = [m \in DOMAIN c.args \ {n} |-> c.args[m]]
  BY CallsAssumption DEF Without
<1>2. RuleTargets(rule, d) <=> RuleTargets(rule, c)
  BY <1>1 DEF RuleTargets
<1>3. \A m \in DOMAIN rule.args : ArgOutcome(rule, d.args, m) = ArgOutcome(rule, c.args, m)
  BY <1>1 DEF ArgOutcome
<1>4. Failing(rule, d.args) = Failing(rule, c.args)
  BY <1>3 DEF Failing
<1>5. Failing(rule, c.args) # {} => First(Failing(rule, c.args)) \in DOMAIN rule.args
  BY FirstFailing DEF Failing
<1>6. AdditionalOK(p, rule, c.args) => AdditionalOK(p, rule, d.args)
  BY <1>1 DEF AdditionalOK
<1> HIDE DEF d
<1>7. CASE RuleTargets(rule, c)
  <2>1. ArgsMatch(p, rule, c.args) \in {"yes", "no"}
    BY <1>7 DEF Verdict
  <2>2. ArgsMatch(p, rule, d.args) = ArgsMatch(p, rule, c.args)
    BY <1>3, <1>4, <1>5, <1>6, <2>1 DEF ArgsMatch
  <2> QED BY <1>2, <1>7, <2>2 DEF Verdict, d
<1>8. CASE ~RuleTargets(rule, c)
  BY <1>2, <1>8 DEF Verdict, d
<1> QED BY <1>7, <1>8

(* An argument no rule names is never what gets a call permitted. *)
THEOREM ExtraArgumentsNeverWiden == Spec => []UnnamedNeverWidens
<1>1. IndInv => UnnamedNeverWidens
  <2> SUFFICES ASSUME IndInv, Permitted, NEW n \in DOMAIN call.args,
                      \A i \in DOMAIN policy.rules : n \notin DOMAIN policy.rules[i].args
               PROVE  Evaluate(policy, Without(call, n)) = decision
    BY DEF UnnamedNeverWidens
  <2> DEFINE d == Without(call, n)
             settling == {i \in DOMAIN policy.rules : Verdict(policy, d, i) # "no"}
  <2>t. /\ Len(policy.rules) \in Nat /\ DOMAIN policy.rules = 1 .. Len(policy.rules)
        /\ at \in 1 .. Len(policy.rules) + 1 /\ policy \in Policies /\ call \in Calls
        /\ decision \in [action : Actions \cup {"none"}, rule : 0 .. Len(policy.rules)]
    BY PolicyTyped DEF IndInv, TypeOK
  <2>1. \A i \in DOMAIN policy.rules : i < at => Verdict(policy, d, i) = "no"
    BY <2>t, VerdictWithout DEF IndInv, EvaluateInv
  <2>2. decision = [action |-> decision.action, rule |-> decision.rule]
    BY <2>t
  <2> HIDE DEF d
  <2>3. CASE /\ decision.rule = 0 /\ at = Len(policy.rules) + 1
             /\ policy.action = decision.action
    <3>1. settling = {}
      BY <2>t, <2>1, <2>3
    <3> QED BY <2>2, <2>3, <3>1 DEF Evaluate, d
  <2>4. CASE /\ decision.rule = at /\ at \in DOMAIN policy.rules
             /\ Verdict(policy, call, at) = "yes"
             /\ policy.rules[at].action = decision.action
    <3>1. Verdict(policy, d, at) = "yes"
      BY <2>t, <2>4, VerdictWithout DEF d
    <3>2. at \in settling /\ \A j \in settling : at <= j
      BY <2>t, <2>1, <2>4, <3>1
    <3>3. (CHOOSE i \in settling : \A j \in settling : i <= j) = at
      <4>1. \A i \in settling : (\A j \in settling : i <= j) => i = at
        BY <2>t, <3>2
      <4> HIDE DEF settling
      <4> QED BY <3>2, <4>1
    <3> QED BY <2>2, <2>4, <3>1, <3>2, <3>3 DEF Evaluate, d
  <2> QED BY <2>3, <2>4, PermitFrom
<1> QED BY <1>1, Invariance, PTL
=============================================================================
