------------------------------ MODULE Redaction ------------------------------
(***************************************************************************)
(* What the audit log shows of a call's arguments: redactCopy and           *)
(* applyRedaction (internal/audit/log.go).                                  *)
(*                                                                         *)
(* Arguments are a function from the paths of their leaves to the values    *)
(* there: a scalar, or an object or list that is empty.  An element of a    *)
(* path is the key of an object or the position in a list.  A pattern is    *)
(* the sequence of its segments, after "args." has been cut off.            *)
(***************************************************************************)
EXTENDS Naturals, Sequences, SequencesExt

Placeholder == "[REDACTED]"

Key(name) == <<"key", name>>
Item(i) == <<"item", i>>
Elements == ({"key"} \X STRING) \cup ({"item"} \X Nat)

(* What args can be: nothing is inside of a leaf. *)
IsArguments(args) ==
  /\ DOMAIN args \subseteq Seq(Elements)
  /\ \A p, q \in DOMAIN args : IsPrefix(p, q) => p = q

(* A segment names keys only: the walk does not enter lists. *)
Names(segment, e) == e[1] = "key" /\ segment \in {"*", e[2]}

(* The pattern names the value at path p, or one that p is inside of. *)
Reaches(pattern, p) ==
  Len(pattern) <= Len(p) /\ \A i \in DOMAIN pattern : Names(pattern[i], p[i])

\* Faulty variant of ApplyRedaction: an object is not replaced as a whole.
ApplyRedactionToScalars(args, pattern) ==
  [p \in DOMAIN args |->
     IF Reaches(pattern, p) /\ Len(p) = Len(pattern) THEN Placeholder ELSE args[p]]

(* applyRedaction: each value the pattern names is replaced as a whole. *)
ApplyRedaction(args, pattern) ==
  LET kept == {p \in DOMAIN args : ~Reaches(pattern, p)}
      named == {SubSeq(p, 1, Len(pattern)) : p \in DOMAIN args \ kept}
  IN [p \in kept \cup named |-> IF p \in kept THEN args[p] ELSE Placeholder]

(* redactCopy: one pattern after the other, on a copy. *)
RedactCopy(args, patterns) ==
  LET after[i \in 0 .. Len(patterns)] ==
        IF i = 0 THEN args ELSE ApplyRedaction(after[i - 1], patterns[i])
  IN after[Len(patterns)]
=============================================================================
