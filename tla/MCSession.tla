------------------------------ MODULE MCSession ------------------------------
(* Instances of Session for TLC: a few commands whose sessions are followed *)
(* call by call, and many policy files, good and bad, that are only loaded. *)
EXTENDS Session

Node == [known |-> TRUE, pattern |-> "none", leaf |-> TRUE, nested |-> {}, compiled |-> FALSE]

Stdio == [name |-> "s1", transport |-> "stdio", command |-> TRUE, url |-> FALSE]
Http == [name |-> "s1", transport |-> "http", command |-> FALSE, url |-> TRUE]

AllowRule ==
  [name |-> "r1", servers |-> {"s1"}, tools |-> {"*"}, action |-> "allow",
   additional |-> "", args |-> << >>]

(* The least a policy file can say. *)
Minimal ==
  [parses |-> TRUE, version |-> "v1", mode |-> "", action |-> "", additional |-> "",
   onError |-> "", path |-> "log", redact |-> << >>, timeout |-> 0, onTimeout |-> "", channel |-> "",
   address |-> FALSE, servers |-> <<Stdio>>, rules |-> <<AllowRule>>]

Run ==
  [policy |-> Minimal, server |-> "s1", auditMode |-> FALSE, metrics |-> FALSE,
   listen |-> TRUE, policyOnly |-> FALSE]

(* Sessions that serve: each on_error with each transport and with metrics, *)
(* audit mode without, and a log that goes to stderr.                       *)
Serving ==
  {[Run EXCEPT !.metrics = TRUE, !.policy = [@ EXCEPT !.onError = e, !.servers = <<s>>]] :
     e \in {"", "halt", "continue"}, s \in {Stdio, Http}}
  \cup {[Run EXCEPT !.auditMode = TRUE, !.policy = [@ EXCEPT !.onError = e, !.servers = <<Http>>]] :
           e \in {"", "halt"}}
  \cup {[Run EXCEPT !.policy = [@ EXCEPT !.onError = "halt", !.path = ""]]}

(* Policy files that are only loaded: the scalars in every combination, and *)
(* one thing at a time that may be wrong with the servers and the rules.    *)
Scalars ==
  {[Minimal EXCEPT !.mode = m, !.action = a, !.additional = x, !.onError = e,
                   !.onTimeout = t, !.channel = c, !.address = TRUE] :
     m \in {"", "enforce", "audit", "?"}, a \in {"", "allow", "deny", "approve", "?"},
     x \in {"", "allow", "deny", "approve"}, e \in {"", "halt", "deny", "continue", "?"},
     t \in {"", "allow", "deny", "approve", "?"}, c \in {"", "ntfy"}}

ServerLists ==
  {<< >>, <<Stdio>>, <<Http>>, <<Stdio, Http>>, <<Stdio, [Http EXCEPT !.name = "s2"]>>}
  \cup {<<s>> : s \in {[Stdio EXCEPT !.name = ""], [Stdio EXCEPT !.command = FALSE],
                       [Stdio EXCEPT !.transport = "?"], [Http EXCEPT !.url = FALSE]}}

Nodes ==
  {[Node EXCEPT !.known = k, !.pattern = p, !.leaf = l] :
     k, l \in BOOLEAN, p \in {"none", "good", "bad"}}
Matchers ==
  {<<n>> : n \in Nodes} \cup {<<n, [Node EXCEPT !.leaf = FALSE, !.pattern = p, !.nested = {1}]>> :
                                n \in Nodes, p \in {"none", "good"}}

Rules ==
  {[AllowRule EXCEPT !.args = [x \in {"path"} |-> m]] : m \in Matchers}
  \cup {[AllowRule EXCEPT !.action = a] : a \in {"", "deny", "approve", "?"}}
  \cup {[AllowRule EXCEPT !.additional = x] : x \in {"allow", "deny", "approve"}}
  \cup {[AllowRule EXCEPT !.name = ""], [AllowRule EXCEPT !.tools = {}],
        [AllowRule EXCEPT !.servers = {}], [AllowRule EXCEPT !.servers = {"s1", "s2"}]}
RuleLists ==
  {<< >>} \cup {<<r>> : r \in Rules} \cup {<<AllowRule, r>> : r \in Rules}
  \cup {<<AllowRule, [r EXCEPT !.name = "r2"]>> : r \in Rules}

(* Redaction: what a key may hold - a scalar, an empty object, objects, a   *)
(* list with an object - and every list of up to two patterns.              *)
Held ==
  {{<< >>}, {<<Key("a")>>}, {<<Key("a")>>, <<Key("b")>>}, {<<Key("b"), Key("a")>>},
   {<<Item(1)>>, <<Item(2), Key("a")>>}}
Under(key, below) == {<<Key(key)>> \o q : q \in below}
MCArguments ==
  {[p \in paths |-> "value"] :
     paths \in {{}} \cup {Under("a", x) : x \in Held} \cup
              {Under("a", x) \cup Under("b", y) : x, y \in Held}}

Segments == {"a", "b", "*"}
Patterns == {<<x>> : x \in Segments} \cup (Segments \X Segments) \cup {<<"*", "*", "a">>}
PatternLists == {<< >>} \cup {<<x>> : x \in Patterns} \cup (Patterns \X Patterns)

Files ==
  Scalars
  \cup {[Minimal EXCEPT !.redact = r] : r \in PatternLists}
  \cup {[Minimal EXCEPT !.servers = s] : s \in ServerLists}
  \cup {[Minimal EXCEPT !.rules = r] : r \in RuleLists}
  \cup {[Minimal EXCEPT !.parses = FALSE], [Minimal EXCEPT !.version = ""],
        [Minimal EXCEPT !.timeout = 60], [Minimal EXCEPT !.timeout = -1],
        [Minimal EXCEPT !.channel = "?"]}

MCCommands ==
  Serving
  \cup {[Run EXCEPT !.policy = p, !.policyOnly = TRUE] : p \in Files}
  \cup {[Run EXCEPT !.server = "s2"],
        [Run EXCEPT !.listen = FALSE, !.policy = [@ EXCEPT !.servers = <<Http>>]],
        [Run EXCEPT !.policy = [@ EXCEPT !.channel = "ntfy"]]}
=============================================================================
