------------------------------ MODULE MCPolicy ------------------------------
(* Instances of Policy for TLC: every policy of at most two rules built     *)
(* from a small stock of rules, and calls that satisfy, miss, confuse, omit *)
(* or exceed the arguments those rules name.                                *)
EXTENDS Policy

MCArgNames == {"extra", "mode", "path"}
MCRank == [n \in MCArgNames |-> CASE n = "extra" -> 1 [] n = "mode" -> 2 [] OTHER -> 3]

(* "srv" satisfies the one matcher, "etc" does not, "list" is an array. *)
MCOutcome ==
  [x \in {"inSrv"} \X {"srv", "etc", "list", "missing"} |->
     CASE x[2] = "srv" -> "yes" [] x[2] = "list" -> "error" [] OTHER -> "no"]

(* No match block, an empty one, one argument, two. *)
Matches ==
  {[scoped |-> FALSE, args |-> << >>]}
  \cup {[scoped |-> TRUE, args |-> [n \in names |-> "inSrv"]] :
          names \in {{}, {"path"}, {"mode", "path"}}}

MCRules ==
  {[servers |-> {}, tools |-> {"t"}, scoped |-> m.scoped, args |-> m.args,
    additional |-> d, action |-> a] :
      m \in Matches, d \in {"inherit", "allow"}, a \in Actions}
  \cup {[servers |-> {"s2"}, tools |-> {"t"}, scoped |-> FALSE, args |-> << >>,
         additional |-> "deny", action |-> "allow"],
        [servers |-> {}, tools |-> {"u"}, scoped |-> FALSE, args |-> << >>,
         additional |-> "inherit", action |-> "deny"]}

MCPolicies ==
  {[rules |-> rules, action |-> a, additional |-> "deny"] :
      rules \in {<< >>} \cup {<<r>> : r \in MCRules}
                \cup {<<r, s>> : r, s \in MCRules},
      a \in {"allow", "deny"}}

MCCalls ==
  {[server |-> "s1", tool |-> "t", args |-> args] :
     args \in [{"path"} -> {"srv", "etc"}] \cup [{"mode"} -> {"srv"}]
              \cup [{"mode", "path"} -> {"srv", "etc", "list"}]
              \cup [{"extra", "path"} -> {"srv", "etc"}]
              \cup [{"extra", "mode", "path"} -> {"srv"}]}

(* One rule over a permissive default. *)
OneRulePolicies ==
  {p \in MCPolicies : Len(p.rules) = 1 /\ p.action = "allow"}
=============================================================================
