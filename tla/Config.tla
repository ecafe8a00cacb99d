------------------------------- MODULE Config -------------------------------
(***************************************************************************)
(* Loading a policy file: policy.Load (internal/policy/config.go) with      *)
(* applyDefaults, validate and Matcher.compile (matcher.go), and the part   *)
(* of policy.New (engine.go) that compiles again.                           *)
(*                                                                         *)
(* A policy file is the record the YAML decoder fills: "" is an omitted     *)
(* scalar, "?" one with a value no program knows.  Commands, URLs and the   *)
(* pair approval.url, approval.topic are there or not.  A matcher is the    *)
(* sequence of its nodes as in Matcher.tla, nested ones first and the       *)
(* matcher itself last; what compile needs to know of a node is whether its *)
(* type and canonicalize are known, whether it has a regex or CIDR and      *)
(* whether that is well-formed, whether it has another leaf operator, and   *)
(* which nodes are nested in it.                                            *)
(***************************************************************************)
EXTENDS Integers, Sequences

Actions == {"allow", "deny", "approve"}

(* A Go struct has all its fields, whatever the file said. *)
IsNode(n) ==
  n = [known |-> n.known, pattern |-> n.pattern, leaf |-> n.leaf, nested |-> n.nested,
       compiled |-> n.compiled]
IsRule(r) ==
  /\ r = [name |-> r.name, servers |-> r.servers, tools |-> r.tools, action |-> r.action,
          additional |-> r.additional, args |-> r.args]
  /\ \A n \in DOMAIN r.args : \A i \in DOMAIN r.args[n] : IsNode(r.args[n][i])
IsConfig(c) ==
  /\ c = [parses |-> c.parses, version |-> c.version, mode |-> c.mode, action |-> c.action,
          additional |-> c.additional, onError |-> c.onError, path |-> c.path,
          redact |-> c.redact, timeout |-> c.timeout, onTimeout |-> c.onTimeout, channel |-> c.channel,
          address |-> c.address, servers |-> c.servers, rules |-> c.rules]
  /\ c.redact \in Seq(Seq(STRING))
  /\ \A i \in DOMAIN c.rules : IsRule(c.rules[i])

Otherwise(value, default) == IF value = "" THEN default ELSE value

\* Faulty variant of ApplyDefaults: an unrecordable call may proceed.
ApplyDefaultsLenient(c) ==
  [c EXCEPT !.mode = Otherwise(@, "enforce"),
            !.action = Otherwise(@, "deny"),
            !.additional = Otherwise(@, "deny"),
            !.onError = Otherwise(@, "continue"),
            !.timeout = IF @ = 0 THEN 120 ELSE @,
            !.onTimeout = Otherwise(@, "deny")]

(* applyDefaults *)
ApplyDefaults(c) ==
  [c EXCEPT !.mode = Otherwise(@, "enforce"),
            !.action = Otherwise(@, "deny"),
            !.additional = Otherwise(@, "deny"),
            !.onError = Otherwise(@, "deny"),
            !.timeout = IF @ = 0 THEN 120 ELSE @,
            !.onTimeout = Otherwise(@, "deny")]

Named(entries) ==
  \A i, j \in DOMAIN entries :
    entries[i].name # "" /\ (entries[i].name = entries[j].name => i = j)

(* validateServers *)
ServersValid(servers) ==
  /\ Named(servers)
  /\ \A i \in DOMAIN servers :
       \/ servers[i].transport = "stdio" /\ servers[i].command
       \/ servers[i].transport = "http" /\ servers[i].url

(* Matcher.compile, hasOperator: on the matcher and on every nested one. *)
HasOperator(node) == node.leaf \/ node.pattern # "none" \/ node.nested # {}
Compiles(m) ==
  \A i \in DOMAIN m : m[i].known /\ m[i].pattern # "bad" /\ HasOperator(m[i])

(* validateRules, the conditions. *)
RulesValid(c) ==
  /\ Named(c.rules)
  /\ \A i \in DOMAIN c.rules :
       LET r == c.rules[i] IN
       /\ r.action \in Actions
       /\ r.tools # {}
       /\ r.servers \subseteq {c.servers[j].name : j \in DOMAIN c.servers}
       /\ r.additional \in {"", "allow", "deny"}
       /\ \A n \in DOMAIN r.args : Compiles(r.args[n])

(* validate *)
Valid(c) ==
  /\ c.version = "v1"
  /\ c.mode \in {"enforce", "audit"}
  /\ c.action \in Actions
  /\ c.additional \in {"allow", "deny"}
  /\ c.onError \in {"halt", "deny", "continue"}
  /\ c.onTimeout \in Actions \ {"allow"}
  /\ ServersValid(c.servers)
  /\ RulesValid(c)

\* Faulty variant of Compiled: the compiled copy is not written back.
CompiledCopy(m) == [i \in DOMAIN m |-> [m[i] EXCEPT !.compiled = @ \/ i < Len(m)]]

(* What compile leaves: every node has its regexp and network.  The nested  *)
(* nodes are compiled in place; the matcher itself is a copy of the map's   *)
(* value, written back by the caller.                                       *)
Compiled(m) == [i \in DOMAIN m |-> [m[i] EXCEPT !.compiled = TRUE]]

CompileRule(r) == [r EXCEPT !.args = [n \in DOMAIN r.args |-> Compiled(r.args[n])]]
CompileRules(c) ==
  [c EXCEPT !.rules = [i \in DOMAIN c.rules |-> CompileRule(c.rules[i])]]

(* Load: the configuration, or an error. *)
Accepts(raw) == raw.parses /\ Valid(ApplyDefaults(raw))
Load(raw) == CompileRules(ApplyDefaults(raw))

(* ServerByName, on a valid configuration. *)
ServerNames(c) == {c.servers[i].name : i \in DOMAIN c.servers}
ServerByName(c, name) == c.servers[CHOOSE i \in DOMAIN c.servers : c.servers[i].name = name]
=============================================================================
