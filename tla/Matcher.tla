------------------------------- MODULE Matcher -------------------------------
(***************************************************************************)
(* Matcher.Match (internal/policy/matcher.go): whether one argument of a    *)
(* call satisfies a matcher with its nested matchers.                       *)
(*                                                                         *)
(* A matcher is the sequence of its nodes, nested ones first, the matcher   *)
(* itself last; all, any and not name nodes by their place.  The nodes are  *)
(* evaluated one after the other.  The code leaves out those it does not    *)
(* need, which makes no difference since evaluating a node has no effect.   *)
(* What equals, not_equals, prefix, suffix, contains, regex and cidr say of *)
(* a text, and the canonical forms of a text, are tables; in and not_in are *)
(* globs.                                                                   *)
(***************************************************************************)
EXTENDS Glob

CONSTANTS
  Values, Missing,   \* argument values; stands for an argument that is absent
  TypeOf,            \* TypeOf[v]: its JSON type
  Chars,             \* what texts are made of
  Texts, Text,       \* texts; Text[v]: the text of a string, of a bool its name
  Tests, Passes,     \* tests on a text; Passes[t, x] is "error" for cidr on no IP
  Canonical, Invalid,\* Canonical[c, x]: a text, or Invalid for one rejected
  Patterns,          \* globs
  Comparisons, Compares, \* gt and lt with a bound; the pairs <<c, v>> that hold
  Matchers           \* the matchers considered

Outcomes == {"yes", "no", "error"}
Types == {"string", "number", "bool", "array", "object"}
Forms == {"none", "path", "url"}
Textual == {v \in Values : TypeOf[v] \in {"string", "bool"}}

(* absent, exists and not are sets of at most one element, empty if unset. *)
Nodes ==
  [type : Types \cup {"any"}, canonicalize : Forms,
   absent : SUBSET BOOLEAN, exists : SUBSET BOOLEAN,
   all : Seq(Nat), any : Seq(Nat), not : SUBSET Nat,
   tests : SUBSET Tests, in : SUBSET Patterns, notIn : SUBSET Patterns,
   comparisons : SUBSET Comparisons]

Children(m) == ToSet(m.all) \cup ToSet(m.any) \cup m.not
NeedsString(m) == m.tests \cup m.in \cup m.notIn # {}
NeedsNumber(m) == m.comparisons # {}

(* compile: nested matchers are matchers themselves, and every matcher has  *)
(* an operator.                                                             *)
Compiled(ms) ==
  /\ ms # << >>
  /\ \A i \in DOMAIN ms :
       /\ Children(ms[i]) \subseteq 1 .. i - 1
       /\ \A x, y \in ms[i].not : x = y
       /\ ms[i].absent # BOOLEAN /\ ms[i].exists # BOOLEAN
       /\ \/ NeedsString(ms[i]) \/ NeedsNumber(ms[i])
          \/ ms[i].absent \cup ms[i].exists # {} \/ Children(ms[i]) # {}

ASSUME TablesAssumption ==
  /\ Missing \notin Values
  /\ TypeOf \in [Values -> Types \cup {"null"}]
  /\ Text \in [Textual -> Texts]
  /\ Passes \in [Tests \X Texts -> Outcomes]
  /\ Invalid \notin Texts
  /\ Canonical \in [Forms \X Texts -> Texts \cup {Invalid}]
  /\ Compares \subseteq Comparisons \X Values
ASSUME TextsAssumption ==
  /\ \A x \in Texts : x \in Seq(Chars)
  /\ \A p \in Patterns : p \in Seq(Seq(Chars)) /\ p # << >>
ASSUME MatchersAssumption == \A ms \in Matchers : ms \in Seq(Nodes) /\ Compiled(ms)

VARIABLES
  matcher, arg,      \* what is evaluated
  outcome            \* outcome[i]: what node i answers, as far as evaluated

vars == <<matcher, arg, outcome>>

TypeOK ==
  /\ matcher \in Matchers
  /\ arg \in Values \cup {Missing}
  /\ outcome \in Seq(Outcomes) /\ Len(outcome) <= Len(matcher)

Init ==
  /\ matcher \in Matchers
  /\ arg \in Values \cup {Missing}
  /\ outcome = << >>

-----------------------------------------------------------------------------
YesIf(b) == IF b THEN "yes" ELSE "no"

(* The first of the answers s that differs from skip: the loops and early   *)
(* returns of Match.                                                        *)
FirstOther(s, skip) ==
  IF \A k \in DOMAIN s : s[k] = skip THEN skip
  ELSE s[CHOOSE k \in DOMAIN s : s[k] # skip /\ \A j \in 1 .. k - 1 : s[j] = skip]

(* checkType, where no declared type fits null. *)
CheckType(m) == IF m.type \in {"any", TypeOf[arg]} THEN "yes" ELSE "error"

AllOf(m) == FirstOther([k \in DOMAIN m.all |-> outcome[m.all[k]]], "yes")

AnyOf(m) ==
  IF m.any = << >> THEN "yes"
  ELSE FirstOther([k \in DOMAIN m.any |-> outcome[m.any[k]]], "no")

\* Faulty variant of NotOf: what does not match is negated, errors too.
NotOfErrors(m) == IF \A j \in m.not : outcome[j] # "yes" THEN "yes" ELSE "no"

NotOf(m) ==
  IF \E j \in m.not : outcome[j] = "error" THEN "error"
  ELSE YesIf(\A j \in m.not : outcome[j] = "no")

(* A bool has a text only for a matcher that declares the type. *)
HasText(m) == TypeOf[arg] = "string" \/ (TypeOf[arg] = "bool" /\ m.type = "bool")
CanonicalText(m) == Canonical[m.canonicalize, Text[arg]]

AnyGlob(globs, text) == \E p \in globs : GlobMatch(p, text)

(* The string operators on a canonical text; cidr, which alone may err, is  *)
(* the last of them.                                                        *)
TextTests(m, text) ==
  IF \/ \E t \in m.tests : Passes[t, text] = "no"
     \/ m.in # {} /\ ~AnyGlob(m.in, text)
     \/ AnyGlob(m.notIn, text)
  THEN "no"
  ELSE IF \E t \in m.tests : Passes[t, text] = "error" THEN "error" ELSE "yes"

MatchString(m) ==
  IF ~HasText(m) \/ CanonicalText(m) = Invalid THEN "error"
  ELSE TextTests(m, CanonicalText(m))

MatchNumber(m) ==
  IF TypeOf[arg] # "number" THEN "error"
  ELSE YesIf(\A c \in m.comparisons : <<c, arg>> \in Compares)

Leaf(m) ==
  IF NeedsNumber(m) THEN MatchNumber(m)
  ELSE IF NeedsString(m) THEN MatchString(m) ELSE "yes"

\* Faulty variant of Match: absence is left to the leaf operators.
MatchAbsentLate(m) ==
  IF m.absent # {} THEN YesIf((arg = Missing) \in m.absent)
  ELSE IF m.exists # {} THEN YesIf((arg # Missing) \in m.exists)
  ELSE IF arg = Missing THEN FirstOther(<<AllOf(m), AnyOf(m), NotOf(m),
                              YesIf(~NeedsNumber(m) /\ ~NeedsString(m))>>, "yes")
  ELSE FirstOther(<<CheckType(m), AllOf(m), AnyOf(m), NotOf(m), Leaf(m)>>, "yes")

(* Match, given what the nested matchers answered. *)
Match(m) ==
  IF m.absent # {} THEN YesIf((arg = Missing) \in m.absent)
  ELSE IF m.exists # {} THEN YesIf((arg # Missing) \in m.exists)
  ELSE IF arg = Missing THEN "no"
  ELSE FirstOther(<<CheckType(m), AllOf(m), AnyOf(m), NotOf(m), Leaf(m)>>, "yes")

Evaluate ==
  /\ Len(outcome) < Len(matcher)
  /\ outcome' = Append(outcome, Match(matcher[Len(outcome) + 1]))
  /\ UNCHANGED <<matcher, arg>>

Next == Evaluate

Spec == Init /\ [][Next]_vars

-----------------------------------------------------------------------------
(* The documented meaning *)

(* What the operators of one node ask of a present argument, each as a pair *)
(* of conditions: one under which it holds, one under which it fails.       *)
(* Neither is met by an argument of the wrong type or of no canonical form. *)
Usable(m) == HasText(m) /\ CanonicalText(m) # Invalid
TestsHold(m) ==
  NeedsString(m) =>
    /\ Usable(m)
    /\ \A t \in m.tests : Passes[t, CanonicalText(m)] = "yes"
    /\ m.in # {} => AnyGlob(m.in, CanonicalText(m))
    /\ ~AnyGlob(m.notIn, CanonicalText(m))
TestsFail(m) ==
  /\ NeedsString(m) /\ Usable(m)
  /\ \/ \E t \in m.tests : Passes[t, CanonicalText(m)] = "no"
     \/ m.in # {} /\ ~AnyGlob(m.in, CanonicalText(m))
     \/ AnyGlob(m.notIn, CanonicalText(m))
ComparisonsHold(m) ==
  NeedsNumber(m) => TypeOf[arg] = "number" /\ m.comparisons \X {arg} \subseteq Compares
ComparisonsFail(m) ==
  NeedsNumber(m) /\ TypeOf[arg] = "number" /\ ~(m.comparisons \X {arg} \subseteq Compares)

(* S is a reading of the matcher on a present argument: a node is "sat" if  *)
(* every operator in it holds, "unsat" only if one of them fails.           *)
Holds(m, S) ==
  /\ m.type \in {"any", TypeOf[arg]}
  /\ TRUE \notin m.absent /\ FALSE \notin m.exists
  /\ \A k \in DOMAIN m.all : S[m.all[k]] = "sat"
  /\ m.any # << >> => \E k \in DOMAIN m.any : S[m.any[k]] = "sat"
  /\ \A j \in m.not : S[j] = "unsat"
  /\ TestsHold(m) /\ ComparisonsHold(m)
Fails(m, S) ==
  \/ TRUE \in m.absent \/ FALSE \in m.exists
  \/ \E k \in DOMAIN m.all : S[m.all[k]] = "unsat"
  \/ m.any # << >> /\ \A k \in DOMAIN m.any : S[m.any[k]] = "unsat"
  \/ \E j \in m.not : S[j] = "sat"
  \/ TestsFail(m) \/ ComparisonsFail(m)
Reading(S) ==
  \A i \in DOMAIN matcher :
    /\ Holds(matcher[i], S) => S[i] = "sat"
    /\ ~Holds(matcher[i], S) /\ Fails(matcher[i], S) => S[i] = "unsat"
    /\ ~Holds(matcher[i], S) /\ ~Fails(matcher[i], S) => S[i] = "undefined"

(* Presence operators, and gt and lt, stand in nodes of their own.  For     *)
(* others Match looks at the presence operator or the comparison alone.     *)
Unmixed(m) ==
  /\ m.absent \cup m.exists # {} =>
       /\ m.type = "any" /\ Children(m) = {} /\ ~NeedsString(m) /\ ~NeedsNumber(m)
       /\ m.absent = {} \/ m.exists = {}
  /\ NeedsNumber(m) => ~NeedsString(m)

Answered == Len(outcome) = Len(matcher)

(* docs/policy-reference.md: "combining multiple operators in one matcher   *)
(* applies them as a conjunction (AND)", for nested matchers of every       *)
(* shape.  Match says yes only if all of it holds and no only if some of it *)
(* fails; a value of the wrong type is neither a match nor a mismatch, not  *)
(* even below a not.                                                        *)
MatchIsConjunction ==
  Answered /\ arg # Missing /\ (\A i \in DOMAIN matcher : Unmixed(matcher[i])) =>
    \A S \in [DOMAIN matcher -> {"sat", "unsat", "undefined"}] :
      Reading(S) => \A i \in DOMAIN outcome :
        /\ outcome[i] = "yes" => S[i] = "sat"
        /\ outcome[i] = "no" => S[i] = "unsat"

(* Match: "omit the argument and the constraint evaporates": an absent      *)
(* argument satisfies a matcher only through a presence operator of its     *)
(* own, whatever is nested in it, and never makes evaluation fail.          *)
AbsentMatchesPresenceOnly ==
  arg = Missing =>
    \A i \in DOMAIN outcome :
      /\ outcome[i] # "error"
      /\ outcome[i] = "yes" => matcher[i].absent \cup matcher[i].exists # {}

(* GlobMatch, which takes every segment as early as it can, finds a match   *)
(* exactly if there is one, on the texts and globs at hand.                 *)
GlobsAgree ==
  arg \in Textual =>
    \A i \in DOMAIN matcher : \A p \in matcher[i].in \cup matcher[i].notIn :
      GlobMatch(p, Text[arg]) <=> Covers(p, Text[arg])
=============================================================================
