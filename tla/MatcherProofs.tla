---------------------------- MODULE MatcherProofs ----------------------------
(***************************************************************************)
(* Matcher evaluation means what it is documented to mean, for every        *)
(* matcher of any size and depth, every argument, and every behaviour of    *)
(* the tests on texts.                                                      *)
(***************************************************************************)
EXTENDS Matcher, SequenceTheorems, WellFoundedInduction, TLAPS

(* Node i was answered as the reading S says. *)
Agrees(answer, status) ==
  /\ answer = "yes" => status = "sat"
  /\ answer = "no" => status = "unsat"
Sound(S, i) == Agrees(outcome[i], S[i])

Readings == {S \in [DOMAIN matcher -> {"sat", "unsat", "undefined"}] : Reading(S)}

ConjunctionInv ==
  arg # Missing /\ (\A i \in DOMAIN matcher : Unmixed(matcher[i])) =>
    \A S \in Readings : \A i \in DOMAIN outcome : Sound(S, i)

IndInv == TypeOK /\ ConjunctionInv /\ AbsentMatchesPresenceOnly

-----------------------------------------------------------------------------
(* A set of naturals has a least member. *)
LEMMA LeastIn ==
  ASSUME NEW R, R \subseteq Nat, R # {}
  PROVE  \E k \in R : \A l \in R : k <= l
<1>1. PICK k \in R : \A l \in R : ~ (<<l, k>> \in OpToRel(<, Nat))
  BY WFMin, NatLessThanWellFounded
<1>2. ASSUME NEW l \in Nat, NEW n \in Nat, l < n
      PROVE  <<l, n>> \in OpToRel(<, Nat)
  <2>1. <<l, n>> \in {ss \in Nat \X Nat : ss[1] < ss[2]}
    BY <1>2
  <2> QED BY <2>1, Zenon DEF OpToRel
<1>3. \A l \in R : ~(l < k)
  BY <1>1, <1>2
<1> QED BY <1>3

(* Induction over a set: what has m, and with each number the next, has     *)
(* every number up to n.                                                    *)
LEMMA SetInduction ==
  ASSUME NEW G, NEW m \in Nat, NEW n \in Nat, m \in G,
         \A k \in m .. n - 1 : k \in G => k + 1 \in G
  PROVE  \A k \in m .. n : k \in G
<1> DEFINE R == {k \in m .. n : k \notin G}
<1> SUFFICES ASSUME R # {} PROVE FALSE
  OBVIOUS
<1>1. R \subseteq Nat
  OBVIOUS
<1>2. PICK k \in R : \A l \in R : k <= l
  BY <1>1, LeastIn
<1>3. k # m /\ k - 1 \in m .. n - 1 /\ k - 1 \notin R
  BY <1>2
<1> QED BY <1>3

(* FirstOther answers skip if all do, and otherwise what one of them does. *)
LEMMA FirstOtherSays ==
  ASSUME NEW s, NEW skip, NEW n \in Nat, DOMAIN s = 1 .. n
  PROVE  /\ FirstOther(s, skip) = skip => \A k \in DOMAIN s : s[k] = skip
         /\ FirstOther(s, skip) # skip => \E k \in DOMAIN s : s[k] = FirstOther(s, skip)
<1>1. CASE \A k \in DOMAIN s : s[k] = skip
  BY <1>1 DEF FirstOther
<1>2. CASE \E k \in DOMAIN s : s[k] # skip
  <2> DEFINE R == {k \in DOMAIN s : s[k] # skip}
             IsFirst(k) == s[k] # skip /\ \A j \in 1 .. k - 1 : s[j] = skip
  <2>1. PICK k \in R : \A l \in R : k <= l
    <3>1. R \subseteq Nat /\ R # {}
      BY <1>2
    <3> QED BY <3>1, LeastIn
  <2>2. k \in DOMAIN s /\ IsFirst(k)
    BY <2>1
  <2>3. (CHOOSE j \in DOMAIN s : IsFirst(j)) \in DOMAIN s
        /\ IsFirst(CHOOSE j \in DOMAIN s : IsFirst(j))
    BY <2>2
  <2>4. FirstOther(s, skip) = s[CHOOSE j \in DOMAIN s : IsFirst(j)]
    BY <1>2 DEF FirstOther
  <2> QED BY <2>3, <2>4
<1> QED BY <1>1, <1>2

(* The same for the chain of early returns in Match. *)
LEMMA ChainSays ==
  ASSUME NEW a, NEW b, NEW c, NEW d, NEW e
  PROVE  LET f == FirstOther(<<a, b, c, d, e>>, "yes") IN
         /\ f = "yes" => a = "yes" /\ b = "yes" /\ c = "yes" /\ d = "yes" /\ e = "yes"
         /\ f # "yes" => f \in {a, b, c, d, e}
<1> DEFINE s == <<a, b, c, d, e>>
<1>1. DOMAIN s = 1 .. 5 /\ 5 \in Nat
  OBVIOUS
<1>2. s[1] = a /\ s[2] = b /\ s[3] = c /\ s[4] = d /\ s[5] = e
  OBVIOUS
<1>3. \A k \in 1 .. 5 : k = 1 \/ k = 2 \/ k = 3 \/ k = 4 \/ k = 5
  OBVIOUS
<1> HIDE DEF s
<1>4. /\ FirstOther(s, "yes") = "yes" => \A k \in DOMAIN s : s[k] = "yes"
      /\ FirstOther(s, "yes") # "yes" => \E k \in DOMAIN s : s[k] = FirstOther(s, "yes")
  BY <1>1, FirstOtherSays
<1>5. FirstOther(s, "yes") = "yes" => a = "yes" /\ b = "yes" /\ c = "yes" /\ d = "yes" /\ e = "yes"
  BY <1>1, <1>2, <1>4
<1>6. FirstOther(s, "yes") # "yes" => FirstOther(s, "yes") \in {a, b, c, d, e}
  BY <1>1, <1>2, <1>3, <1>4
<1> QED BY <1>5, <1>6 DEF s

-----------------------------------------------------------------------------
(* Globs: the search of GlobMatch against Covers. *)

(* The recurrence of Past is met by the function it names. *)
LEMMA PastMeets ==
  ASSUME NEW p, NEW s, Len(p) \in Nat
  PROVE  /\ DOMAIN Past(p, s) = 1 .. Len(p) - 1
         /\ \A k \in 1 .. Len(p) - 1 :
              Past(p, s)[k] = IF k = 1 THEN Len(p[1]) ELSE Behind(s, Past(p, s)[k - 1], p[k])
<1> DEFINE Meets(f, n) ==
      f = [k \in 1 .. n |-> IF k = 1 THEN Len(p[1]) ELSE Behind(s, f[k - 1], p[k])]
    G == {n \in Nat : \E f : Meets(f, n)}
    N == Len(p) - 1
<1>1. 0 \in G
  <2>1. Meets([k \in 1 .. 0 |-> 0], 0)
    OBVIOUS
  <2> QED BY <2>1
<1>2. ASSUME NEW n \in Nat, n \in G PROVE n + 1 \in G
  <2>1. PICK f : Meets(f, n)
    BY <1>2
  <2> DEFINE next == IF n + 1 = 1 THEN Len(p[1]) ELSE Behind(s, f[n], p[n + 1])
             g == [k \in 1 .. n + 1 |-> IF k = n + 1 THEN next ELSE f[k]]
             h == [k \in 1 .. n + 1 |-> IF k = 1 THEN Len(p[1]) ELSE Behind(s, g[k - 1], p[k])]
  <2>2. ASSUME NEW k \in 1 .. n + 1 PROVE g[k] = h[k]
    <3>1. CASE k = n + 1
      <4>1. k # 1 => g[k - 1] = f[n]
        BY <3>1
      <4> QED BY <3>1, <4>1
    <3>2. CASE k # n + 1
      <4>1. k \in 1 .. n /\ (k # 1 => k - 1 \in 1 .. n /\ k - 1 \in 1 .. n + 1 /\ k - 1 # n + 1)
        BY <3>2
      <4>2. g[k] = f[k] /\ (k # 1 => g[k - 1] = f[k - 1])
        BY <3>2, <4>1
      <4>3. f[k] = IF k = 1 THEN Len(p[1]) ELSE Behind(s, f[k - 1], p[k])
        BY <2>1, <4>1
      <4> QED BY <4>2, <4>3
    <3> QED BY <3>1, <3>2
  <2>3. g = h
    BY <2>2
  <2>4. Meets(g, n + 1)
    BY <2>3
  <2> HIDE DEF g, Meets
  <2> QED BY <2>4
<1>3. \A n \in Nat : n \in G
  <2> SUFFICES ASSUME NEW n \in Nat PROVE n \in G
    OBVIOUS
  <2> HIDE DEF G
  <2>1. \A k \in 0 .. n - 1 : k \in G => k + 1 \in G
    BY <1>2
  <2>2. \A k \in 0 .. n : k \in G
    BY <1>1, <2>1, SetInduction
  <2> QED BY <2>2
<1>4. \E f : Meets(f, N)
  <2>1. CASE N \in Nat
    BY <1>3, <2>1
  <2>2. CASE N \notin Nat
    <3>1. 1 .. N = {} /\ 1 .. 0 = {}
      BY <2>2
    <3>2. Meets([k \in 1 .. 0 |-> 0], N)
      BY <3>1
    <3> QED BY <3>2
  <2> QED BY <2>1, <2>2
<1>5. Past(p, s) = CHOOSE f : Meets(f, N)
  BY DEF Past
<1>6. Meets(Past(p, s), N)
  BY <1>4, <1>5
<1> QED BY <1>6

(* What strings.HasPrefix and strings.HasSuffix say, character by character. *)
LEMMA PrefixOccurs ==
  ASSUME NEW C, NEW x \in Seq(C), NEW s \in Seq(C)
  PROVE  IsPrefix(x, s) <=> OccursAt(x, s, 0)
<1>1. SubSeq(x, 1, Len(x)) = x
  BY SubSeqFull
<1>2. Len(x) \in Nat /\ 0 + Len(x) = Len(x) /\ 0 + 1 = 1
  OBVIOUS
<1> QED BY <1>1, <1>2 DEF IsPrefix, OccursAt

LEMMA OccursPointwise ==
  ASSUME NEW C, NEW x \in Seq(C), NEW s \in Seq(C), NEW i \in Nat
  PROVE  OccursAt(x, s, i) <=>
           i + Len(x) <= Len(s) /\ \A j \in 1 .. Len(x) : x[j] = s[i + j]
<1> SUFFICES ASSUME i + Len(x) <= Len(s)
             PROVE  SubSeq(s, i + 1, i + Len(x)) = x <=> \A j \in 1 .. Len(x) : x[j] = s[i + j]
  BY DEF OccursAt
<1> DEFINE y == SubSeq(s, i + 1, i + Len(x))
<1>1. /\ y \in Seq(C) /\ Len(y) = Len(x)
      /\ \A j \in 1 .. Len(x) : y[j] = s[i + j]
  <2>1. Len(x) \in Nat /\ Len(s) \in Nat
    OBVIOUS
  <2>2. \A j \in (i + 1) .. (i + Len(x)) : s[j] \in C
    BY <2>1
  <2>3. /\ y \in Seq(C)
        /\ Len(y) = IF i + 1 <= i + Len(x) THEN (i + Len(x)) - (i + 1) + 1 ELSE 0
        /\ \A j \in 1 .. (i + Len(x)) - (i + 1) + 1 : y[j] = s[(i + 1) + j - 1]
    BY <2>1, <2>2, SubSeqProperties
  <2> HIDE DEF y
  <2> QED BY <2>1, <2>3
<1> HIDE DEF y
<1>2. y = x <=> \A j \in 1 .. Len(x) : x[j] = y[j]
  <2>1. ASSUME \A j \in 1 .. Len(x) : x[j] = y[j] PROVE y = x
    BY <1>1, <2>1, SeqEqual
  <2> QED BY <2>1
<1>3. y = x <=> \A j \in 1 .. Len(x) : x[j] = s[i + j]
  BY <1>1, <1>2
<1> QED BY <1>3 DEF y

LEMMA SuffixOccurs ==
  ASSUME NEW C, NEW x \in Seq(C), NEW s \in Seq(C), Len(x) <= Len(s)
  PROVE  IsSuffix(x, s) <=> OccursAt(x, s, Len(s) - Len(x))
<1> DEFINE m == Len(x)
           n == Len(s)
           rx == Reverse(x)
           rs == Reverse(s)
<1>1. /\ m \in Nat /\ n \in Nat /\ m <= n
      /\ \A j \in 1 .. m : x[j] \in C
      /\ \A j \in 1 .. n : s[j] \in C
  OBVIOUS
<1>2. rx = [i \in 1 .. m |-> x[(m - i) + 1]] /\ rs = [i \in 1 .. n |-> s[(n - i) + 1]]
  BY DEF Reverse
<1>3. /\ rx \in Seq(C) /\ Len(rx) = m /\ \A j \in 1 .. m : rx[j] = x[(m - j) + 1]
      /\ rs \in Seq(C) /\ Len(rs) = n /\ \A j \in 1 .. n : rs[j] = s[(n - j) + 1]
  <2> HIDE DEF m, n, rx, rs
  <2>1. rx \in [1 .. m -> C] /\ rs \in [1 .. n -> C]
    BY <1>1, <1>2
  <2> QED BY <1>1, <1>2, <2>1
<1>4. IsSuffix(x, s) <=> \A j \in 1 .. m : rx[j] = rs[j]
  <2>1. IsSuffix(x, s) <=> OccursAt(rx, rs, 0)
    BY <1>3, PrefixOccurs DEF IsSuffix
  <2> HIDE DEF rx, rs, m, n
  <2>2. OccursAt(rx, rs, 0) <=> 0 + m <= n /\ \A j \in 1 .. m : rx[j] = rs[0 + j]
    <3>1. OccursAt(rx, rs, 0) <=>
            0 + Len(rx) <= Len(rs) /\ \A j \in 1 .. Len(rx) : rx[j] = rs[0 + j]
      <4>1. rx \in Seq(C) /\ rs \in Seq(C) /\ 0 \in Nat
        BY <1>3
      <4> QED BY <4>1, OccursPointwise
    <3> QED BY <1>3, <3>1
  <2>3. \A j \in 1 .. m : 0 + j = j
    BY <1>1
  <2> QED BY <1>1, <2>1, <2>2, <2>3
<1>5. OccursAt(x, s, n - m) <=> \A j \in 1 .. m : x[j] = s[(n - m) + j]
  <2>1. n - m \in Nat /\ (n - m) + Len(x) <= Len(s)
    BY <1>1
  <2> QED BY <2>1, OccursPointwise
<1> HIDE DEF m, n, rx, rs
<1>6. ASSUME \A j \in 1 .. m : rx[j] = rs[j], NEW j \in 1 .. m
      PROVE  x[j] = s[(n - m) + j]
  <2>1. (m - j) + 1 \in 1 .. m /\ (m - j) + 1 \in 1 .. n
    BY <1>1
  <2>2. rx[(m - j) + 1] = x[(m - ((m - j) + 1)) + 1] /\ rs[(m - j) + 1] = s[(n - ((m - j) + 1)) + 1]
    BY <1>3, <2>1
  <2>3. (m - ((m - j) + 1)) + 1 = j /\ (n - ((m - j) + 1)) + 1 = (n - m) + j
    BY <1>1
  <2> QED BY <1>6, <2>1, <2>2, <2>3
<1>7. ASSUME \A j \in 1 .. m : x[j] = s[(n - m) + j], NEW j \in 1 .. m
      PROVE  rx[j] = rs[j]
  <2>1. (m - j) + 1 \in 1 .. m /\ j \in 1 .. n /\ (n - m) + ((m - j) + 1) = (n - j) + 1
    BY <1>1
  <2>2. x[(m - j) + 1] = s[(n - j) + 1]
    BY <1>7, <2>1
  <2>3. rx[j] = x[(m - j) + 1] /\ rs[j] = s[(n - j) + 1]
    BY <1>3, <2>1
  <2> QED BY <2>2, <2>3
<1> QED BY <1>4, <1>5, <1>6, <1>7 DEF m, n

(* strings.Index: the search takes the first occurrence at or behind i, or  *)
(* leaves nothing of s.                                                     *)
LEMMA BehindFinds ==
  ASSUME NEW C, NEW x \in Seq(C), NEW s \in Seq(C), NEW i \in Nat
  PROVE  /\ Behind(s, i, x) \in Nat
         /\ \/ /\ Behind(s, i, x) = Len(s) + 1
               /\ \A j \in Nat : i <= j => ~OccursAt(x, s, j)
            \/ \E j \in Nat :
                 /\ i <= j /\ OccursAt(x, s, j) /\ Behind(s, i, x) = j + Len(x)
                 /\ \A l \in Nat : i <= l /\ OccursAt(x, s, l) => j <= l
<1> DEFINE hits == {j \in i .. Len(s) : OccursAt(x, s, j)}
<1>1. Len(s) \in Nat /\ Len(x) \in Nat
  OBVIOUS
<1>2. \A j \in Nat : i <= j /\ OccursAt(x, s, j) => j \in hits
  BY <1>1 DEF OccursAt
<1>3. CASE hits = {}
  <2>1. Behind(s, i, x) = Len(s) + 1
    BY <1>3 DEF Behind
  <2> QED BY <1>1, <1>2, <1>3, <2>1
<1>4. CASE hits # {}
  <2>1. \A j \in hits : j \in Nat /\ i <= j /\ OccursAt(x, s, j)
    BY <1>1
  <2>2. PICK j \in hits : \A l \in hits : j <= l
    BY <1>4, <2>1, LeastIn
  <2>3. Min(hits) \in hits /\ \A l \in hits : Min(hits) <= l
    <3> HIDE DEF hits
    <3> QED BY <2>2 DEF Min
  <2>4. Behind(s, i, x) = Min(hits) + Len(x)
    BY <1>4 DEF Behind
  <2> HIDE DEF hits
  <2>5. PICK k \in Nat : k = Min(hits)
    BY <2>1, <2>3
  <2>6. i <= k /\ OccursAt(x, s, k) /\ \A l \in Nat : i <= l /\ OccursAt(x, s, l) => k <= l
    BY <1>2, <2>1, <2>3, <2>5
  <2>7. Behind(s, i, x) = k + Len(x) /\ k + Len(x) \in Nat
    BY <1>1, <2>4, <2>5
  <2> QED BY <2>6, <2>7
<1> QED BY <1>3, <1>4

(* The greedy search, segment by segment. *)
LEMMA PastFinds ==
  ASSUME NEW C, NEW p \in Seq(Seq(C)), NEW s \in Seq(C), Len(p) > 1
  PROVE  LET f == Past(p, s)  N == Len(p) - 1 IN
         /\ f[1] = Len(p[1])
         /\ \A k \in 1 .. N : f[k] \in Nat
         /\ \A k \in 1 .. N - 1 : f[k + 1] = Behind(s, f[k], p[k + 1])
<1> DEFINE f == Past(p, s)
           N == Len(p) - 1
           G == {k \in Nat : f[k] \in Nat}
<1>1. N \in Nat /\ N >= 1 /\ Len(p) = N + 1 /\ \A k \in 1 .. N : p[k] \in Seq(C)
  OBVIOUS
<1>2. \A k \in 1 .. N : f[k] = IF k = 1 THEN Len(p[1]) ELSE Behind(s, f[k - 1], p[k])
  <2>1. Len(p) \in Nat
    OBVIOUS
  <2> QED BY <2>1, PastMeets
<1> HIDE DEF f, N
<1>3. f[1] = Len(p[1]) /\ f[1] \in Nat
  BY <1>1, <1>2
<1>4. \A k \in 1 .. N - 1 : f[k + 1] = Behind(s, f[k], p[k + 1])
  <2> TAKE k \in 1 .. N - 1
  <2>1. k + 1 \in 1 .. N /\ k + 1 # 1 /\ (k + 1) - 1 = k
    BY <1>1
  <2> QED BY <1>2, <2>1
<1>5. \A k \in 1 .. N : k \in G
  <2>1. 1 \in G
    BY <1>3
  <2>2. \A k \in 1 .. N - 1 : k \in G => k + 1 \in G
    <3> SUFFICES ASSUME NEW k \in 1 .. N - 1, f[k] \in Nat PROVE f[k + 1] \in Nat
      BY <1>1
    <3>1. k + 1 \in 1 .. N
      BY <1>1
    <3>2. p[k + 1] \in Seq(C)
      BY <1>1, <3>1
    <3>3. Behind(s, f[k], p[k + 1]) \in Nat
      BY <3>2, BehindFinds
    <3> QED BY <1>4, <3>3
  <2> HIDE DEF G
  <2> QED BY <1>1, <2>1, <2>2, SetInduction
<1> QED BY <1>3, <1>4, <1>5 DEF f, N

(* The greedy search fails for good as soon as a segment is not found, and  *)
(* otherwise takes the segments one behind the other.                       *)
LEMMA PastCovers ==
  ASSUME NEW C, NEW p \in Seq(Seq(C)), NEW s \in Seq(C), Len(p) > 1, GlobMatch(p, s)
  PROVE  Covers(p, s)
<1> DEFINE f == Past(p, s)
           N == Len(p) - 1
           n == Len(s)
           G == {k \in Nat : f[k] > n}
           at == [k \in 1 .. Len(p) |-> IF k = Len(p) THEN n - Len(p[k]) ELSE f[k] - Len(p[k])]
<1>1. /\ N \in Nat /\ N >= 1 /\ Len(p) = N + 1 /\ n \in Nat
      /\ \A k \in 1 .. N + 1 : p[k] \in Seq(C) /\ Len(p[k]) \in Nat
  OBVIOUS
<1>2. /\ f[1] = Len(p[1])
      /\ \A k \in 1 .. N : f[k] \in Nat
      /\ \A k \in 1 .. N - 1 : f[k + 1] = Behind(s, f[k], p[k + 1])
  BY PastFinds
<1>3. /\ IsPrefix(p[1], s) /\ IsSuffix(p[N + 1], s) /\ f[N] + Len(p[N + 1]) <= n
  <2>1. Len(p) # 1 /\ Last(p) = p[N + 1]
    <3> HIDE DEF N
    <3>1. Last(p) = p[Len(p)]
      BY Zenon DEF Last
    <3> QED BY <1>1, <3>1
  <2>2. IsPrefix(p[1], s) /\ IsSuffix(Last(p), s) /\ f[N] + Len(Last(p)) <= n
    BY <2>1, Zenon DEF GlobMatch
  <2> HIDE DEF f, N, n
  <2> QED BY <2>1, <2>2
<1>4. OccursAt(p[1], s, 0) /\ OccursAt(p[N + 1], s, n - Len(p[N + 1])) /\ f[N] <= n
  <2> HIDE DEF f, N
  <2>1. 1 \in 1 .. N + 1 /\ N + 1 \in 1 .. N + 1 /\ N \in 1 .. N
    BY <1>1
  <2>2. Len(p[N + 1]) <= Len(s) /\ f[N] <= n
    BY <1>1, <1>2, <1>3, <2>1
  <2> QED BY <1>1, <1>3, <2>1, <2>2, PrefixOccurs, SuffixOccurs
<1>5. ASSUME NEW k \in 1 .. N - 1
      PROVE  /\ f[k] > n => f[k + 1] > n
             /\ f[k + 1] <= n => /\ OccursAt(p[k + 1], s, f[k + 1] - Len(p[k + 1]))
                                /\ f[k] <= f[k + 1] - Len(p[k + 1])
  <2> HIDE DEF f, N
  <2>1. /\ f[k] \in Nat /\ f[k + 1] \in Nat /\ f[k + 1] = Behind(s, f[k], p[k + 1])
        /\ p[k + 1] \in Seq(C) /\ Len(p[k + 1]) \in Nat
    <3>1. k \in 1 .. N /\ k + 1 \in 1 .. N /\ k + 1 \in 1 .. N + 1
      BY <1>1
    <3> QED BY <1>1, <1>2, <3>1
  <2>2. CASE f[k + 1] = n + 1
    <3> HIDE DEF n
    <3>1. f[k + 1] > n /\ ~(f[k + 1] <= n)
      BY <1>1, <2>2
    <3> QED BY <3>1
  <2>3. CASE \E j \in Nat : f[k] <= j /\ OccursAt(p[k + 1], s, j) /\ f[k + 1] = j + Len(p[k + 1])
    <3>1. PICK j \in Nat : f[k] <= j /\ OccursAt(p[k + 1], s, j) /\ f[k + 1] = j + Len(p[k + 1])
      BY <2>3
    <3>2. f[k + 1] - Len(p[k + 1]) = j
      BY <2>1, <3>1
    <3>3. f[k + 1] <= n
      BY <3>1 DEF OccursAt
    <3> QED BY <1>1, <2>1, <3>1, <3>2, <3>3
  <2>4. \/ Behind(s, f[k], p[k + 1]) = Len(s) + 1
        \/ \E j \in Nat : f[k] <= j /\ OccursAt(p[k + 1], s, j)
                          /\ Behind(s, f[k], p[k + 1]) = j + Len(p[k + 1])
    <3>1. f[k] \in Nat /\ p[k + 1] \in Seq(C)
      BY <2>1
    <3> QED BY <3>1, BehindFinds
  <2> QED BY <2>1, <2>2, <2>3, <2>4
<1>6. ASSUME NEW k \in 1 .. N PROVE f[k] <= n
  <2> HIDE DEF f, N, n
  <2>1. f[k] \in Nat
    BY <1>2
  <2>2. SUFFICES ASSUME k \in G PROVE FALSE
    BY <1>1, <2>1
  <2>3. \A l \in k .. N - 1 : l \in G => l + 1 \in G
    BY <1>1, <1>5
  <2>4. N \in k .. N /\ k \in Nat
    BY <1>1
  <2>5. N \in G
    <3> HIDE DEF G
    <3> QED BY <1>1, <2>2, <2>3, <2>4, SetInduction
  <2> QED BY <1>1, <1>2, <1>4, <2>5
<1>at. \A l \in 1 .. N + 1 : at[l] = IF l = N + 1 THEN n - Len(p[l]) ELSE f[l] - Len(p[l])
  BY <1>1
<1>7. ASSUME NEW k \in 1 .. N + 1
      PROVE  /\ OccursAt(p[k], s, at[k])
             /\ at[k] \in Int /\ 0 <= at[k]
             /\ k > 1 => at[k - 1] + Len(p[k - 1]) <= at[k]
  <2> HIDE DEF f, N, n, at
  <2>3. Len(p[k]) \in Nat
    BY <1>1
  <2>4. k > 1 => k - 1 \in 1 .. N /\ at[k - 1] + Len(p[k - 1]) = f[k - 1] /\ f[k - 1] \in Nat
    <3> SUFFICES ASSUME k > 1
                 PROVE  k - 1 \in 1 .. N /\ at[k - 1] + Len(p[k - 1]) = f[k - 1] /\ f[k - 1] \in Nat
      OBVIOUS
    <3>1. k - 1 \in 1 .. N /\ k - 1 \in 1 .. N + 1 /\ k - 1 # N + 1
      BY <1>1
    <3>2. at[k - 1] = f[k - 1] - Len(p[k - 1]) /\ Len(p[k - 1]) \in Nat /\ f[k - 1] \in Nat
      BY <1>1, <1>2, <1>at, <3>1
    <3> QED BY <3>1, <3>2
  <2>5. CASE k = N + 1
    <3>1. at[k] = n - Len(p[k]) /\ k > 1
      BY <1>1, <1>at, <2>5
    <3>2. OccursAt(p[k], s, at[k]) /\ f[N] + Len(p[k]) <= n /\ f[N] \in Nat /\ k - 1 = N
      BY <1>1, <1>2, <1>3, <1>4, <2>5, <3>1
    <3> QED BY <1>1, <2>3, <2>4, <3>1, <3>2
  <2>6. CASE k = 1
    <3>1. at[k] = f[k] - Len(p[k]) /\ f[k] = Len(p[k])
      BY <1>1, <1>2, <1>at, <2>6
    <3>2. at[k] = 0
      BY <2>3, <3>1
    <3> QED BY <1>4, <2>6, <3>2
  <2>7. CASE k # 1 /\ k # N + 1
    <3>1. k - 1 \in 1 .. N - 1 /\ (k - 1) + 1 = k /\ k \in 1 .. N
      BY <1>1, <2>7
    <3>2. at[k] = f[k] - Len(p[k]) /\ f[k] <= n /\ f[k] \in Nat
      BY <1>1, <1>2, <1>6, <1>at, <2>7, <3>1
    <3>3. OccursAt(p[k], s, at[k]) /\ f[k - 1] <= at[k]
      <4>1. /\ f[(k - 1) + 1] <= n =>
                 /\ OccursAt(p[(k - 1) + 1], s, f[(k - 1) + 1] - Len(p[(k - 1) + 1]))
                 /\ f[k - 1] <= f[(k - 1) + 1] - Len(p[(k - 1) + 1])
        BY <1>5, <3>1
      <4> QED BY <3>1, <3>2, <4>1
    <3> QED BY <2>3, <2>4, <2>7, <3>1, <3>2, <3>3
  <2> QED BY <2>5, <2>6, <2>7
<1>8. at \in [1 .. Len(p) -> 0 .. Len(s)]
  <2>1. ASSUME NEW k \in 1 .. Len(p) PROVE at[k] \in 0 .. Len(s)
    <3> HIDE DEF at
    <3>1. OccursAt(p[k], s, at[k]) /\ at[k] \in Int /\ 0 <= at[k] /\ Len(p[k]) \in Nat
      BY <1>1, <1>7
    <3> QED BY <3>1 DEF OccursAt
  <2> QED BY <2>1
<1>9. at[1] = 0 /\ at[Len(p)] + Len(p[Len(p)]) = Len(s)
  <2>1. at[1] = f[1] - Len(p[1]) /\ at[N + 1] = n - Len(p[N + 1])
    <3> HIDE DEF at, f, N, n
    <3>1. 1 \in 1 .. N + 1 /\ N + 1 \in 1 .. N + 1 /\ N + 1 # 1
      BY <1>1
    <3> QED BY <1>at, <3>1
  <2> HIDE DEF at, f, N
  <2>2. Len(p[1]) \in Nat /\ Len(p[N + 1]) \in Nat
    BY <1>1
  <2> QED BY <1>1, <1>2, <2>1, <2>2
<1>10. /\ \A k \in 1 .. Len(p) : OccursAt(p[k], s, at[k])
       /\ \A k \in 2 .. Len(p) : at[k - 1] + Len(p[k - 1]) <= at[k]
  <2> HIDE DEF at
  <2> QED BY <1>1, <1>7
<1> HIDE DEF at
<1> QED BY <1>8, <1>9, <1>10 DEF Covers

(* A segment is never taken later than it has to be. *)
LEMMA CoversPast ==
  ASSUME NEW C, NEW p \in Seq(Seq(C)), NEW s \in Seq(C), Len(p) > 1, Covers(p, s)
  PROVE  GlobMatch(p, s)
<1> DEFINE f == Past(p, s)
           N == Len(p) - 1
           n == Len(s)
<1>1. /\ N \in Nat /\ N >= 1 /\ Len(p) = N + 1 /\ n \in Nat
      /\ \A k \in 1 .. N + 1 : p[k] \in Seq(C) /\ Len(p[k]) \in Nat
  OBVIOUS
<1>2. /\ f[1] = Len(p[1])
      /\ \A k \in 1 .. N : f[k] \in Nat
      /\ \A k \in 1 .. N - 1 : f[k + 1] = Behind(s, f[k], p[k + 1])
  BY PastFinds
<1>3. PICK at \in [1 .. N + 1 -> 0 .. n] :
        /\ at[1] = 0
        /\ at[N + 1] + Len(p[N + 1]) = n
        /\ \A k \in 1 .. N + 1 : OccursAt(p[k], s, at[k])
        /\ \A k \in 2 .. N + 1 : at[k - 1] + Len(p[k - 1]) <= at[k]
  BY <1>1 DEF Covers
<1> DEFINE G == {k \in Nat : f[k] <= at[k] + Len(p[k])}
<1> HIDE DEF f, N, n
<1>4. \A k \in 1 .. N + 1 : at[k] \in Nat
  BY <1>1, <1>3
<1>5. ASSUME NEW k \in 1 .. N PROVE k \in G
  <2>1. 1 \in G
    BY <1>1, <1>2, <1>3
  <2>2. ASSUME NEW l \in 1 .. N - 1, l \in G PROVE l + 1 \in G
    <3>1. /\ l \in 1 .. N /\ l \in 1 .. N + 1 /\ l + 1 \in 1 .. N /\ l + 1 \in 1 .. N + 1
          /\ l + 1 \in 2 .. N + 1 /\ (l + 1) - 1 = l
      BY <1>1
    <3>2. /\ f[l] \in Nat /\ f[l + 1] \in Nat /\ f[l + 1] = Behind(s, f[l], p[l + 1])
          /\ p[l + 1] \in Seq(C) /\ Len(p[l + 1]) \in Nat /\ Len(p[l]) \in Nat
          /\ at[l] \in Nat /\ at[l + 1] \in Nat
      BY <1>1, <1>2, <1>4, <3>1
    <3>3. f[l] <= at[l + 1] /\ OccursAt(p[l + 1], s, at[l + 1])
      <4>1. at[(l + 1) - 1] + Len(p[(l + 1) - 1]) <= at[l + 1]
        BY <1>3, <3>1
      <4>2. f[l] <= at[l] + Len(p[l])
        BY <2>2
      <4> QED BY <1>3, <3>1, <3>2, <4>1, <4>2
    <3>4. \/ \A j \in Nat : f[l] <= j => ~OccursAt(p[l + 1], s, j)
          \/ \E j \in Nat : /\ f[l + 1] = j + Len(p[l + 1])
                            /\ \A i \in Nat : f[l] <= i /\ OccursAt(p[l + 1], s, i) => j <= i
      <4>1. f[l] \in Nat /\ p[l + 1] \in Seq(C)
        BY <3>2
      <4>2. \/ \A j \in Nat : f[l] <= j => ~OccursAt(p[l + 1], s, j)
            \/ \E j \in Nat : /\ Behind(s, f[l], p[l + 1]) = j + Len(p[l + 1])
                              /\ \A i \in Nat : f[l] <= i /\ OccursAt(p[l + 1], s, i) => j <= i
        BY <4>1, BehindFinds
      <4> QED BY <3>2, <4>2
    <3>5. PICK j \in Nat : f[l + 1] = j + Len(p[l + 1]) /\ j <= at[l + 1]
      BY <3>2, <3>3, <3>4
    <3> QED BY <3>1, <3>2, <3>5
  <2>3. \A l \in 1 .. N - 1 : l \in G => l + 1 \in G
    BY <2>2
  <2> HIDE DEF G
  <2> QED BY <1>1, <2>1, <2>3, SetInduction
<1>6. f[N] + Len(p[N + 1]) <= n
  <2>1. /\ N \in 1 .. N /\ N \in 1 .. N + 1 /\ N + 1 \in 2 .. N + 1 /\ (N + 1) - 1 = N
        /\ N + 1 \in 1 .. N + 1
    BY <1>1
  <2>2. at[(N + 1) - 1] + Len(p[(N + 1) - 1]) <= at[N + 1]
    BY <1>3, <2>1
  <2>3. f[N] <= at[N] + Len(p[N])
    BY <1>5, <2>1
  <2>4. f[N] \in Nat /\ at[N] \in Nat /\ at[N + 1] \in Nat /\ Len(p[N]) \in Nat /\ Len(p[N + 1]) \in Nat
    BY <1>1, <1>2, <1>4, <2>1
  <2> QED BY <1>1, <1>3, <2>1, <2>2, <2>3, <2>4
<1>7. IsPrefix(p[1], s) /\ IsSuffix(p[N + 1], s)
  <2>1. 1 \in 1 .. N + 1 /\ N + 1 \in 1 .. N + 1
    BY <1>1
  <2>2. OccursAt(p[1], s, 0) /\ OccursAt(p[N + 1], s, at[N + 1])
    BY <1>3, <2>1
  <2>3. p[1] \in Seq(C) /\ p[N + 1] \in Seq(C) /\ Len(p[N + 1]) \in Nat /\ at[N + 1] \in Nat
    BY <1>1, <1>4, <2>1
  <2>4. Len(p[N + 1]) <= n /\ at[N + 1] = n - Len(p[N + 1])
    <3>1. at[N + 1] + Len(p[N + 1]) = n
      BY <1>3
    <3>2. \A a, b, c \in Nat : a + b = c => b <= c /\ a = c - b
      OBVIOUS
    <3>3. n \in Nat
      BY <1>1
    <3> QED BY <2>3, <3>1, <3>2, <3>3, Zenon
  <2> QED BY <2>2, <2>3, <2>4, PrefixOccurs, SuffixOccurs DEF n
<1>8. (Len(p) = 1) = FALSE /\ Len(p) - 1 = N /\ Last(p) = p[N + 1] /\ Past(p, s) = f
  BY <1>1 DEF Last, f
<1> QED BY <1>6, <1>7, <1>8 DEF GlobMatch, n

(* GlobMatch finds a match exactly if there is one, whatever the glob and   *)
(* the text.                                                                *)
LEMMA GreedyIsComplete ==
  ASSUME NEW C, NEW p \in Seq(Seq(C)), NEW s \in Seq(C), p # << >>
  PROVE  GlobMatch(p, s) <=> Covers(p, s)
<1>1. Len(p) \in Nat /\ Len(p) >= 1 /\ p[1] \in Seq(C) /\ Len(s) \in Nat /\ Len(p[1]) \in Nat
  <2>1. Len(p) \in Nat /\ Len(p) # 0
    BY EmptySeq
  <2> QED BY <2>1
<1>2. CASE Len(p) = 1
  <2>1. GlobMatch(p, s) <=> p[1] = s
    BY <1>2 DEF GlobMatch
  <2>2. ASSUME p[1] = s PROVE Covers(p, s)
    <3> DEFINE at == [k \in 1 .. 1 |-> 0]
    <3>1. at \in [1 .. Len(p) -> 0 .. Len(s)] /\ at[1] = 0
      BY <1>1, <1>2
    <3>2. OccursAt(p[1], s, 0)
      BY <1>1, <2>2, OccursPointwise
    <3>3. at[Len(p)] + Len(p[Len(p)]) = Len(s)
      BY <1>1, <1>2, <2>2
    <3>4. /\ \A k \in 1 .. Len(p) : OccursAt(p[k], s, at[k])
          /\ \A k \in 2 .. Len(p) : at[k - 1] + Len(p[k - 1]) <= at[k]
      BY <1>2, <3>2
    <3> HIDE DEF at
    <3> QED BY <3>1, <3>3, <3>4 DEF Covers
  <2>3. ASSUME Covers(p, s) PROVE p[1] = s
    <3>1. OccursAt(p[1], s, 0) /\ Len(p[1]) = Len(s)
      BY <1>1, <1>2, <2>3 DEF Covers
    <3>2. \A j \in 1 .. Len(p[1]) : p[1][j] = s[j]
      <4>1. \A j \in 1 .. Len(p[1]) : p[1][j] = s[0 + j]
        BY <1>1, <3>1, OccursPointwise
      <4> QED BY <1>1, <4>1
    <3> QED BY <1>1, <3>1, <3>2, SeqEqual
  <2> QED BY <2>1, <2>2, <2>3
<1>3. CASE Len(p) # 1
  <2>1. Len(p) > 1
    <3>1. \A a \in Nat : a >= 1 /\ a # 1 => a > 1
      OBVIOUS
    <3> QED BY <1>1, <1>3, <3>1, Zenon
  <2>2. GlobMatch(p, s) => Covers(p, s)
    BY <2>1, PastCovers
  <2>3. Covers(p, s) => GlobMatch(p, s)
    BY <2>1, CoversPast
  <2> QED BY <2>2, <2>3
<1> QED BY <1>2, <1>3

-----------------------------------------------------------------------------
(* The node under evaluation and those it names. *)
LEMMA NodeTyped ==
  ASSUME TypeOK, Len(outcome) < Len(matcher)
  PROVE  /\ Len(outcome) + 1 \in DOMAIN matcher
         /\ matcher[Len(outcome) + 1] \in Nodes
         /\ matcher[Len(outcome) + 1].absent # BOOLEAN
         /\ matcher[Len(outcome) + 1].exists # BOOLEAN
         /\ Children(matcher[Len(outcome) + 1]) \subseteq DOMAIN outcome
         /\ matcher \in Seq(Nodes) /\ outcome \in Seq(Outcomes)
<1>1. matcher \in Seq(Nodes) /\ Compiled(matcher) /\ outcome \in Seq(Outcomes)
  BY MatchersAssumption DEF TypeOK
<1>2. Len(outcome) + 1 \in DOMAIN matcher /\ matcher[Len(outcome) + 1] \in Nodes
  BY <1>1
<1>4. /\ matcher[Len(outcome) + 1].absent # BOOLEAN
      /\ matcher[Len(outcome) + 1].exists # BOOLEAN
  BY <1>1, <1>2 DEF Compiled
<1>3. Children(matcher[Len(outcome) + 1]) \subseteq 1 .. Len(outcome)
  <2>1. Children(matcher[Len(outcome) + 1]) \subseteq 1 .. (Len(outcome) + 1) - 1
    BY <1>1, <1>2 DEF Compiled
  <2> QED BY <1>1, <2>1
<1> QED BY <1>1, <1>2, <1>3, <1>4

(* The children of a node, one kind at a time. *)
LEMMA ChildrenOf ==
  ASSUME NEW m \in Nodes
  PROVE  /\ \A k \in DOMAIN m.all : m.all[k] \in Children(m)
         /\ \A k \in DOMAIN m.any : m.any[k] \in Children(m)
         /\ m.not \subseteq Children(m)
         /\ \E n \in Nat : DOMAIN m.all = 1 .. n
         /\ \E n \in Nat : DOMAIN m.any = 1 .. n
         /\ m.any # << >> => DOMAIN m.any # {}
<1>1. m.all \in Seq(Nat) /\ m.any \in Seq(Nat)
  BY DEF Nodes
<1>2. /\ \A k \in DOMAIN m.all : m.all[k] \in Children(m)
      /\ \A k \in DOMAIN m.any : m.any[k] \in Children(m)
      /\ m.not \subseteq Children(m)
  BY DEF Children, ToSet
<1>3. /\ Len(m.all) \in Nat /\ DOMAIN m.all = 1 .. Len(m.all)
      /\ Len(m.any) \in Nat /\ DOMAIN m.any = 1 .. Len(m.any)
  BY <1>1
<1>4. m.any # << >> => DOMAIN m.any # {}
  <2>1. Len(m.any) = 0 => m.any = << >>
    BY <1>1, EmptySeq
  <2> QED BY <1>3, <2>1
<1> QED BY <1>2, <1>3, <1>4

(* AllOf, AnyOf and NotOf answer as the reading does when the children do.  *)
LEMMA AllOfSound ==
  ASSUME NEW m \in Nodes, NEW S, \A j \in Children(m) : Sound(S, j)
  PROVE  /\ AllOf(m) = "yes" => \A k \in DOMAIN m.all : S[m.all[k]] = "sat"
         /\ AllOf(m) = "no" => \E k \in DOMAIN m.all : S[m.all[k]] = "unsat"
<1> DEFINE s == [k \in DOMAIN m.all |-> outcome[m.all[k]]]
<1>1. PICK n \in Nat : DOMAIN s = 1 .. n
  BY ChildrenOf
<1>2. /\ AllOf(m) = "yes" => \A k \in DOMAIN s : s[k] = "yes"
      /\ AllOf(m) # "yes" => \E k \in DOMAIN s : s[k] = AllOf(m)
  <2>1. AllOf(m) = FirstOther(s, "yes")
    BY DEF AllOf
  <2> HIDE DEF s
  <2> QED BY <1>1, <2>1, FirstOtherSays
<1>3. \A k \in DOMAIN m.all : Sound(S, m.all[k])
  BY ChildrenOf
<1> QED BY <1>2, <1>3 DEF Sound, Agrees

LEMMA AnyOfSound ==
  ASSUME NEW m \in Nodes, NEW S, \A j \in Children(m) : Sound(S, j)
  PROVE  /\ AnyOf(m) = "yes" => (m.any # << >> => \E k \in DOMAIN m.any : S[m.any[k]] = "sat")
         /\ AnyOf(m) = "no" => m.any # << >> /\ \A k \in DOMAIN m.any : S[m.any[k]] = "unsat"
<1>1. CASE m.any = << >>
  BY <1>1 DEF AnyOf
<1>2. CASE m.any # << >>
  <2> DEFINE s == [k \in DOMAIN m.any |-> outcome[m.any[k]]]
  <2>1. PICK n \in Nat : DOMAIN s = 1 .. n
    BY ChildrenOf
  <2>2. /\ AnyOf(m) = "no" => \A k \in DOMAIN s : s[k] = "no"
        /\ AnyOf(m) # "no" => \E k \in DOMAIN s : s[k] = AnyOf(m)
    <3>1. AnyOf(m) = FirstOther(s, "no")
      BY <1>2 DEF AnyOf
    <3> HIDE DEF s
    <3> QED BY <2>1, <3>1, FirstOtherSays
  <2>3. \A k \in DOMAIN m.any : Sound(S, m.any[k])
    BY ChildrenOf
  <2> QED BY <1>2, <2>2, <2>3 DEF Sound, Agrees
<1> QED BY <1>1, <1>2

LEMMA NotOfSound ==
  ASSUME NEW m \in Nodes, NEW S, \A j \in Children(m) : Sound(S, j),
         \A j \in Children(m) : outcome[j] \in Outcomes
  PROVE  /\ NotOf(m) = "yes" => \A j \in m.not : S[j] = "unsat"
         /\ NotOf(m) = "no" => \E j \in m.not : S[j] = "sat"
<1>1. \A j \in m.not : Sound(S, j) /\ outcome[j] \in Outcomes
  BY ChildrenOf
<1> QED BY <1>1 DEF NotOf, YesIf, Sound, Agrees, Outcomes

(* The leaf operators of a node that does not mix them. *)
LEMMA LeafSound ==
  ASSUME NEW m \in Nodes, arg \in Values, Unmixed(m)
  PROVE  /\ Leaf(m) = "yes" => TestsHold(m) /\ ComparisonsHold(m)
         /\ Leaf(m) = "no" => TestsFail(m) \/ ComparisonsFail(m)
<1>1. CASE NeedsNumber(m)
  <2>1. ~NeedsString(m)
    BY <1>1 DEF Unmixed
  <2>2. (\A c \in m.comparisons : <<c, arg>> \in Compares)
        <=> m.comparisons \X {arg} \subseteq Compares
    OBVIOUS
  <2> QED BY <1>1, <2>1, <2>2
          DEF Leaf, MatchNumber, YesIf, TestsHold, ComparisonsHold, ComparisonsFail
<1>2. CASE ~NeedsNumber(m) /\ NeedsString(m)
  <2>1. CASE ~Usable(m)
    BY <1>2, <2>1 DEF Leaf, MatchString, Usable
  <2>2. CASE Usable(m)
    <3> DEFINE x == CanonicalText(m)
    <3>1. x \in Texts
      <4>1. arg \in Textual
        BY <2>2 DEF Usable, HasText, Textual
      <4>2. m.canonicalize \in Forms /\ Text[arg] \in Texts
        BY <4>1, TablesAssumption DEF Nodes
      <4> QED BY <2>2, <4>2, TablesAssumption DEF Usable, CanonicalText
    <3>2. \A t \in m.tests : Passes[t, x] \in Outcomes
      <4>1. m.tests \subseteq Tests
        BY DEF Nodes
      <4> HIDE DEF x
      <4> QED BY <3>1, <4>1, TablesAssumption
    <3>3. Leaf(m) = TextTests(m, x)
      BY <1>2, <2>2 DEF Leaf, MatchString, Usable
    <3> QED BY <1>2, <2>2, <3>2, <3>3
            DEF TextTests, TestsHold, TestsFail, ComparisonsHold, Outcomes
  <2> QED BY <2>1, <2>2
<1>3. CASE ~NeedsNumber(m) /\ ~NeedsString(m)
  BY <1>3 DEF Leaf, TestsHold, ComparisonsHold
<1> QED BY <1>1, <1>2, <1>3

(* A node does not both hold and fail. *)
LEMMA NotBoth ==
  ASSUME NEW m \in Nodes, NEW S, Fails(m, S)
  PROVE  ~Holds(m, S)
<1>1. TestsFail(m) => ~TestsHold(m)
  BY DEF TestsFail, TestsHold
<1>2. ComparisonsFail(m) => ~ComparisonsHold(m)
  BY DEF ComparisonsFail, ComparisonsHold
<1>3. m.any # << >> => DOMAIN m.any # {}
  BY ChildrenOf
<1> QED BY <1>1, <1>2, <1>3 DEF Fails, Holds

(* Match on a present argument: yes if the node holds, no if it fails.      *)
LEMMA MatchSound ==
  ASSUME NEW m \in Nodes, NEW S, arg \in Values, Unmixed(m),
         m.absent # BOOLEAN, m.exists # BOOLEAN,
         \A j \in Children(m) : Sound(S, j) /\ outcome[j] \in Outcomes
  PROVE  /\ Match(m) = "yes" => Holds(m, S)
         /\ Match(m) = "no" => Fails(m, S)
<1>0. arg # Missing
  BY TablesAssumption
<1>1. CASE m.absent \cup m.exists # {}
  <2>1. /\ m.type = "any" /\ Children(m) = {} /\ ~NeedsString(m) /\ ~NeedsNumber(m)
        /\ m.absent = {} \/ m.exists = {}
    BY <1>1 DEF Unmixed
  <2>2. DOMAIN m.all = {} /\ m.any = << >> /\ m.not = {}
    BY <2>1, ChildrenOf
  <2>3. TestsHold(m) /\ ComparisonsHold(m)
    BY <2>1 DEF TestsHold, ComparisonsHold
  <2>4. m.absent \subseteq BOOLEAN /\ m.exists \subseteq BOOLEAN
    BY DEF Nodes
  <2>5. /\ Match(m) = "yes" => TRUE \notin m.absent /\ FALSE \notin m.exists
        /\ Match(m) = "no" => TRUE \in m.absent \/ FALSE \in m.exists
    BY <1>0, <1>1, <2>1, <2>4 DEF Match, YesIf
  <2> QED BY <2>1, <2>2, <2>3, <2>5 DEF Holds, Fails
<1>2. CASE m.absent = {} /\ m.exists = {}
  <2>1. Match(m) = FirstOther(<<CheckType(m), AllOf(m), AnyOf(m), NotOf(m), Leaf(m)>>, "yes")
    BY <1>0, <1>2 DEF Match
  <2>2. /\ Match(m) = "yes" => /\ CheckType(m) = "yes" /\ AllOf(m) = "yes" /\ AnyOf(m) = "yes"
                               /\ NotOf(m) = "yes" /\ Leaf(m) = "yes"
        /\ Match(m) = "no" => "no" \in {CheckType(m), AllOf(m), AnyOf(m), NotOf(m), Leaf(m)}
    BY <2>1, ChainSays
  <2>3. CheckType(m) # "no" /\ (CheckType(m) = "yes" => m.type \in {"any", TypeOf[arg]})
    BY DEF CheckType
  <2>4. CASE Match(m) = "yes"
    BY <1>2, <2>2, <2>3, <2>4, AllOfSound, AnyOfSound, NotOfSound, LeafSound DEF Holds
  <2>5. CASE Match(m) = "no"
    BY <1>2, <2>2, <2>3, <2>5, AllOfSound, AnyOfSound, NotOfSound, LeafSound DEF Fails
  <2> QED BY <2>4, <2>5
<1> QED BY <1>1, <1>2
-----------------------------------------------------------------------------
(* On any argument Match gives one of the three answers. *)
LEMMA AnswerTyped ==
  ASSUME NEW m \in Nodes, \A j \in Children(m) : outcome[j] \in Outcomes
  PROVE  Match(m) \in Outcomes
<1>1. AllOf(m) \in Outcomes
  <2> DEFINE s == [k \in DOMAIN m.all |-> outcome[m.all[k]]]
  <2>1. PICK n \in Nat : DOMAIN s = 1 .. n
    BY ChildrenOf
  <2>2. \A k \in DOMAIN s : s[k] \in Outcomes
    BY ChildrenOf
  <2>3. AllOf(m) = FirstOther(s, "yes")
    BY DEF AllOf
  <2> HIDE DEF s
  <2> QED BY <2>1, <2>2, <2>3, FirstOtherSays DEF Outcomes
<1>2. AnyOf(m) \in Outcomes
  <2> DEFINE s == [k \in DOMAIN m.any |-> outcome[m.any[k]]]
  <2>1. PICK n \in Nat : DOMAIN s = 1 .. n
    BY ChildrenOf
  <2>2. \A k \in DOMAIN s : s[k] \in Outcomes
    BY ChildrenOf
  <2>3. AnyOf(m) \in {"yes", FirstOther(s, "no")}
    BY DEF AnyOf
  <2> HIDE DEF s
  <2> QED BY <2>1, <2>2, <2>3, FirstOtherSays DEF Outcomes
<1>3. NotOf(m) \in Outcomes /\ CheckType(m) \in Outcomes
  BY DEF NotOf, CheckType, YesIf, Outcomes
<1>4. Leaf(m) \in Outcomes
  BY DEF Leaf, MatchNumber, MatchString, TextTests, YesIf, Outcomes
<1>5. FirstOther(<<CheckType(m), AllOf(m), AnyOf(m), NotOf(m), Leaf(m)>>, "yes") \in Outcomes
  BY <1>1, <1>2, <1>3, <1>4, ChainSays DEF Outcomes
<1> QED BY <1>5 DEF Match, YesIf, Outcomes

(* An absent argument gets a yes from a presence operator only. *)
LEMMA AbsentAnswer ==
  ASSUME NEW m, arg = Missing
  PROVE  /\ Match(m) # "error"
         /\ Match(m) = "yes" => m.absent \cup m.exists # {}
BY DEF Match, YesIf

(* What a matcher asks of its argument does not depend on the answers. *)
LEMMA ReadingsStay ==
  ASSUME matcher' = matcher, arg' = arg
  PROVE  Readings' = Readings
<1>1. ASSUME NEW m
      PROVE  /\ TestsHold(m)' = TestsHold(m)
             /\ TestsFail(m)' = TestsFail(m)
  BY DEF TestsHold, TestsFail, Usable, HasText, CanonicalText
<1>2. ASSUME NEW m
      PROVE  /\ ComparisonsHold(m)' = ComparisonsHold(m)
             /\ ComparisonsFail(m)' = ComparisonsFail(m)
  BY DEF ComparisonsHold, ComparisonsFail
<1>3. ASSUME NEW m, NEW S
      PROVE  Holds(m, S)' = Holds(m, S) /\ Fails(m, S)' = Fails(m, S)
  BY <1>1, <1>2 DEF Holds, Fails
<1>4. ASSUME NEW S PROVE Reading(S)' = Reading(S)
  BY <1>3 DEF Reading
<1> QED BY <1>4 DEF Readings

LEMMA Initially == Init => IndInv
<1> SUFFICES ASSUME Init PROVE IndInv
  OBVIOUS
<1>1. TypeOK
  BY MatchersAssumption DEF Init, TypeOK
<1>2. DOMAIN outcome = {}
  BY DEF Init
<1> QED BY <1>1, <1>2 DEF IndInv, ConjunctionInv, AbsentMatchesPresenceOnly

LEMMA Inductive == IndInv /\ [Next]_vars => IndInv'
<1> SUFFICES ASSUME IndInv, [Next]_vars PROVE IndInv'
  OBVIOUS
<1>1. CASE Evaluate
  <2> DEFINE i == Len(outcome) + 1
             m == matcher[i]
  <2>1. /\ i \in DOMAIN matcher /\ m \in Nodes /\ m.absent # BOOLEAN /\ m.exists # BOOLEAN
        /\ Children(m) \subseteq DOMAIN outcome
        /\ matcher \in Seq(Nodes) /\ outcome \in Seq(Outcomes)
    BY <1>1, NodeTyped DEF IndInv, Evaluate
  <2>2. /\ matcher' = matcher /\ arg' = arg /\ outcome' = Append(outcome, Match(m))
    BY <1>1 DEF Evaluate
  <2>3. Match(m) \in Outcomes /\ \A j \in Children(m) : outcome[j] \in Outcomes
    BY <2>1, AnswerTyped
  <2>4. /\ DOMAIN outcome' = DOMAIN outcome \cup {i} /\ i \notin DOMAIN outcome
        /\ outcome'[i] = Match(m)
        /\ \A j \in DOMAIN outcome : outcome'[j] = outcome[j]
    <3> HIDE DEF m
    <3> QED BY <2>1, <2>2, <2>3
  <2>5. TypeOK'
    <3>1. outcome' \in Seq(Outcomes) /\ Len(outcome') = Len(outcome) + 1
      <4> HIDE DEF m
      <4> QED BY <2>1, <2>2, <2>3
    <3>2. Len(outcome') <= Len(matcher)
      BY <2>1, <3>1
    <3> QED BY <2>2, <3>1, <3>2 DEF IndInv, TypeOK
  <2>6. ConjunctionInv'
    <3>0. Readings' = Readings
      BY <2>2, ReadingsStay
    <3>1. SUFFICES ASSUME arg # Missing, \A k \in DOMAIN matcher : Unmixed(matcher[k]),
                          NEW S \in Readings
                   PROVE  \A j \in DOMAIN outcome' : Agrees(outcome'[j], S[j])
      BY <2>2, <3>0 DEF ConjunctionInv, Sound, Unmixed
    <3>2. \A j \in DOMAIN outcome : Sound(S, j)
      BY <3>1 DEF IndInv, ConjunctionInv
    <3>3. arg \in Values
      BY <3>1 DEF IndInv, TypeOK
    <3>4. /\ Match(m) = "yes" => Holds(m, S)
          /\ Match(m) = "no" => Fails(m, S)
      BY <2>1, <2>3, <3>1, <3>2, <3>3, MatchSound
    <3>5. Fails(m, S) => ~Holds(m, S)
      BY <2>1, NotBoth
    <3>6. Agrees(outcome'[i], S[i])
      BY <2>1, <2>4, <3>1, <3>4, <3>5 DEF Readings, Reading, Agrees
    <3>7. \A j \in DOMAIN outcome : Agrees(outcome'[j], S[j])
      BY <2>4, <3>2 DEF Sound
    <3> QED BY <2>4, <3>6, <3>7
  <2>7. AbsentMatchesPresenceOnly'
    <3>1. arg = Missing => /\ Match(m) # "error"
                           /\ Match(m) = "yes" => m.absent \cup m.exists # {}
      BY AbsentAnswer
    <3> QED BY <2>2, <2>4, <3>1 DEF IndInv, AbsentMatchesPresenceOnly
  <2> QED BY <2>5, <2>6, <2>7 DEF IndInv
<1>2. CASE UNCHANGED vars
  <2>1. Readings' = Readings
    BY <1>2, ReadingsStay DEF vars
  <2> QED BY <1>2, <2>1 DEF IndInv, TypeOK, ConjunctionInv, Sound, Unmixed,
                            AbsentMatchesPresenceOnly, vars
<1> QED BY <1>1, <1>2 DEF Next

LEMMA Invariance == Spec => []IndInv
BY Initially, Inductive, PTL DEF Spec

(* Every matcher, however deep, is evaluated within its type: one answer to *)
(* a node, and one of the three.                                            *)
THEOREM TypeCorrect == Spec => []TypeOK
<1>1. IndInv => TypeOK
  BY DEF IndInv
<1> QED BY <1>1, Invariance, PTL

(* A matcher says yes only if all its operators hold on the argument, and   *)
(* no only if one of them fails; neither on a value of the wrong type.      *)
THEOREM MeansConjunction == Spec => []MatchIsConjunction
<1>1. IndInv => MatchIsConjunction
  BY DEF IndInv, ConjunctionInv, Readings, Sound, Agrees, MatchIsConjunction
<1> QED BY <1>1, Invariance, PTL

(* Leaving an argument out never satisfies a constraint on its value. *)
THEOREM AbsenceNeverWidens == Spec => []AbsentMatchesPresenceOnly
<1>1. IndInv => AbsentMatchesPresenceOnly
  BY DEF IndInv
<1> QED BY <1>1, Invariance, PTL

(* GlobMatch, which takes every segment as early as it can and never goes   *)
(* back, finds a match exactly if there is one: for every text and every    *)
(* glob, of any length, that in and not_in can name.                        *)
THEOREM GlobSearchIsComplete == Spec => []GlobsAgree
<1>1. IndInv => GlobsAgree
  <2> SUFFICES ASSUME IndInv, arg \in Textual, NEW i \in DOMAIN matcher,
                      NEW p \in matcher[i].in \cup matcher[i].notIn
               PROVE  GlobMatch(p, Text[arg]) <=> Covers(p, Text[arg])
    BY DEF GlobsAgree
  <2>1. matcher[i] \in Nodes
    <3>1. matcher \in Seq(Nodes)
      BY MatchersAssumption DEF IndInv, TypeOK
    <3> QED BY <3>1
  <2>2. p \in Seq(Seq(Chars)) /\ p # << >>
    <3>1. p \in Patterns
      BY <2>1 DEF Nodes
    <3> QED BY <3>1, TextsAssumption
  <2>3. Text[arg] \in Seq(Chars)
    BY TablesAssumption, TextsAssumption
  <2> QED BY <2>2, <2>3, GreedyIsComplete
<1> QED BY <1>1, Invariance, PTL
=============================================================================
