-------------------------------- MODULE Glob --------------------------------
(***************************************************************************)
(* GlobMatch (internal/policy/matcher.go): tool names, resource URIs and    *)
(* the entries of in and not_in.  A text is a sequence of characters; a     *)
(* pattern is what strings.Split(pattern, "*") makes of it, the non-empty   *)
(* sequence of texts between its stars.                                     *)
(***************************************************************************)
EXTENDS Naturals, Sequences, FiniteSetsExt, SequencesExt

(* seg stands in s behind its first i characters. *)
OccursAt(seg, s, i) == i + Len(seg) <= Len(s) /\ SubSeq(s, i + 1, i + Len(seg)) = seg

\* Faulty variant of Behind: the match may overlap the one before it.
BehindStart(s, i, seg) ==
  LET hits == {j \in i .. Len(s) : OccursAt(seg, s, j)} IN
  IF hits = {} THEN Len(s) + 1 ELSE Min(hits)

(* Where s goes on after the first occurrence of seg at or behind i; past   *)
(* its end if there is none (strings.Index).                                *)
Behind(s, i, seg) ==
  LET hits == {j \in i .. Len(s) : OccursAt(seg, s, j)} IN
  IF hits = {} THEN Len(s) + 1 ELSE Min(hits) + Len(seg)

(* Where s goes on behind each of the segments but the last: the first is a *)
(* prefix, and the others are taken one behind the other, each as early as  *)
(* it can be.                                                               *)
Past(p, s) ==
  LET past[k \in 1 .. Len(p) - 1] ==
        IF k = 1 THEN Len(p[1]) ELSE Behind(s, past[k - 1], p[k])
  IN past

(* The last segment is a suffix of what is left. *)
GlobMatch(p, s) ==
  IF Len(p) = 1 THEN p[1] = s
  ELSE /\ IsPrefix(p[1], s)
       /\ Past(p, s)[Len(p) - 1] + Len(Last(p)) <= Len(s) /\ IsSuffix(Last(p), s)

(* What a glob means: the segments stand in s in order and apart, the first *)
(* at its beginning and the last at its end.                                *)
Covers(p, s) ==
  \E at \in [1 .. Len(p) -> 0 .. Len(s)] :
    /\ at[1] = 0
    /\ at[Len(p)] + Len(p[Len(p)]) = Len(s)
    /\ \A k \in 1 .. Len(p) : OccursAt(p[k], s, at[k])
    /\ \A k \in 2 .. Len(p) : at[k - 1] + Len(p[k - 1]) <= at[k]
=============================================================================
