---------------------------- MODULE CanonProofs ----------------------------
(***************************************************************************)
(* What Canon promises, for every file system, input and link limit.        *)
(*                                                                         *)
(* Walk, Clean, Decode and Kept are recursive functions; that each meets    *)
(* its recurrence is proved first (CleanStep, SpreadStep, WalkStep), by     *)
(* giving a function that does, and facts about them by induction over the  *)
(* members of a set (TextInduction, WalkInduction).  Three facts carry the  *)
(* rest: a walk over two texts is the walk over the second from where the   *)
(* first has led (OneAfterTheOther); to be allowed more links changes no    *)
(* walk that did not fail (MoreHops); and slashes and dots do not change    *)
(* where a walk leads (NoiseAside).  IndInv then says what resolveSymlinks  *)
(* keeps while it climbs.                                                   *)
(***************************************************************************)
EXTENDS Canon, SequenceTheorems, WellFoundedInduction, TLAPS

(* A set of naturals has a least member. *)
LEMMA LeastIn ==
  ASSUME NEW R, R \subseteq Nat, R # {}
  PROVE  \E k \in R : \A l \in R : k <= l
<1>1. PICK k \in R : \A l \in R : ~ (<<l, k>> \in OpToRel(<, Nat))
  BY WFMin, NatLessThanWellFounded
<1>2. ASSUME NEW l \in Nat, NEW n \in Nat, l < n
      PROVE  <<l, n>> \in OpToRel(<, Nat)
  <2>1. <<l, n>> \in {ss \in Nat \X Nat : ss[1] < ss[2]}
    BY <1>2
  <2> QED BY <2>1, Zenon DEF OpToRel
<1>3. \A l \in R : ~(l < k)
  BY <1>1, <1>2
<1> QED BY <1>3

(* Induction over a set of naturals, ... *)
LEMMA SetInduction ==
  ASSUME NEW G, 0 \in G, \A k \in Nat : k \in G => k + 1 \in G
  PROVE  \A k \in Nat : k \in G
<1> DEFINE R == {k \in Nat : k \notin G}
<1> SUFFICES ASSUME R # {} PROVE FALSE
  OBVIOUS
<1>1. R \subseteq Nat
  OBVIOUS
<1>2. PICK k \in R : \A l \in R : k <= l
  BY <1>1, LeastIn
<1>3. k # 0 /\ k - 1 \in Nat /\ k - 1 \notin R
  BY <1>2
<1> QED BY <1>3

(* ... and over a set of texts. *)
LEMMA TextInduction ==
  ASSUME NEW E, NEW G, << >> \in G,
         \A s \in Seq(E), e \in E : s \in G => Append(s, e) \in G
  PROVE  \A s \in Seq(E) : s \in G
<1> DEFINE L == {n \in Nat : \A s \in Seq(E) : Len(s) = n => s \in G}
<1>1. 0 \in L
  BY EmptySeq
<1>2. ASSUME NEW n \in Nat, n \in L PROVE n + 1 \in L
  <2> SUFFICES ASSUME NEW s \in Seq(E), Len(s) = n + 1 PROVE s \in G
    OBVIOUS
  <2>1. s # << >>
    BY EmptySeq
  <2>2. PICK t \in Seq(E), e \in E : s = Append(t, e)
    BY <2>1, SequenceEmptyOrAppend
  <2>3. Len(t) = n
    BY <2>2, AppendProperties, LenProperties
  <2> QED BY <1>2, <2>2, <2>3
<1> HIDE DEF L
<1>3. \A n \in Nat : n \in L
  BY <1>1, <1>2, SetInduction
<1> QED BY <1>3, LenProperties DEF L

(* Front and Last take apart what Append put together. *)
LEMMA TakenApart ==
  ASSUME NEW E, NEW t \in Seq(E), NEW e \in E
  PROVE  /\ Append(t, e) \in Seq(E) /\ Append(t, e) # << >>
         /\ Front(Append(t, e)) = t /\ Last(Append(t, e)) = e
<1> DEFINE a == Append(t, e)
<1>1. /\ a \in Seq(E) /\ a # << >> /\ Len(a) = Len(t) + 1 /\ a[Len(t) + 1] = e
      /\ \A i \in 1 .. Len(t) : a[i] = t[i]
  BY AppendProperties
<1>2. Len(t) \in Nat
  BY LenProperties
<1>3. Last(a) = e
  BY <1>1 DEF Last
<1>4. Front(a) = SubSeq(a, 1, Len(t))
  BY <1>1, <1>2 DEF Front
<1> HIDE DEF a
<1>5. /\ SubSeq(a, 1, Len(t)) \in Seq(E) /\ Len(SubSeq(a, 1, Len(t))) = Len(t)
      /\ \A i \in 1 .. Len(t) : SubSeq(a, 1, Len(t))[i] = t[i]
  BY <1>1, <1>2
<1>6. SubSeq(a, 1, Len(t)) = t
  BY <1>5, SeqEqual
<1> QED BY <1>1, <1>3, <1>4, <1>6 DEF a

(* A value can be carried along a text, from its beginning to its end. *)
Carries(g, E, S, base, step) ==
  /\ g \in [Seq(E) -> S]
  /\ g[<< >>] = base
  /\ \A t \in Seq(E), e \in E : g[Append(t, e)] = step[<<g[t], e>>]

LEMMA CarriedAlong ==
  ASSUME NEW E, NEW S, NEW base \in S, NEW step \in [S \X E -> S]
  PROVE  \E g : Carries(g, E, S, base, step)
<1> DEFINE Run(r, t) ==
             /\ r \in [0 .. Len(t) -> S]
             /\ r[0] = base
             /\ \A i \in 1 .. Len(t) : r[i] = step[<<r[i - 1], t[i]>>]
           G == {t \in Seq(E) : \E r : Run(r, t)}
           g == [t \in Seq(E) |-> (CHOOSE r : Run(r, t))[Len(t)]]
<1>1. << >> \in G
  <2>1. Len(<< >>) = 0 /\ << >> \in Seq(E)
    BY EmptySeq
  <2>2. Run([i \in 0 .. 0 |-> base], << >>)
    BY <2>1
  <2> QED BY <2>1, <2>2
<1>2. ASSUME NEW t \in Seq(E), NEW e \in E, NEW r, Run(r, t)
      PROVE  Run([i \in 0 .. Len(t) + 1 |->
                    IF i = Len(t) + 1 THEN step[<<r[Len(t)], e>>] ELSE r[i]], Append(t, e))
  <2> DEFINE a == Append(t, e)
             n == Len(t)
             q == [i \in 0 .. n + 1 |-> IF i = n + 1 THEN step[<<r[n], e>>] ELSE r[i]]
  <2>1. n \in Nat /\ Len(a) = n + 1 /\ a[n + 1] = e /\ \A i \in 1 .. n : a[i] = t[i] /\ t[i] \in E
    BY AppendProperties, LenProperties, ElementOfSeq
  <2>2. /\ r \in [0 .. n -> S] /\ r[0] = base
        /\ \A i \in 1 .. n : r[i] = step[<<r[i - 1], t[i]>>]
    BY <1>2
  <2> HIDE DEF a, n
  <2>3. \A s \in S, d \in E : step[<<s, d>>] \in S
    OBVIOUS
  <2>4. q \in [0 .. n + 1 -> S]
    <3>1. r[n] \in S
      BY <2>1, <2>2
    <3>2. \A i \in 0 .. n + 1 : i # n + 1 => i \in 0 .. n
      BY <2>1
    <3> QED BY <2>2, <2>3, <3>1, <3>2
  <2>5. q[0] = base
    BY <2>1, <2>2
  <2>6. ASSUME NEW i \in 1 .. n + 1 PROVE q[i] = step[<<q[i - 1], a[i]>>]
    <3>1. CASE i = n + 1
      <4>1. i \in 0 .. n + 1 /\ i - 1 \in 0 .. n + 1 /\ i - 1 = n /\ n # n + 1
        BY <2>1, <3>1
      <4> QED BY <2>1, <3>1, <4>1
    <3>2. CASE i # n + 1
      <4>1. /\ i \in 0 .. n + 1 /\ i \in 1 .. n
            /\ i - 1 \in 0 .. n + 1 /\ i - 1 # n + 1
        BY <2>1, <3>2
      <4> QED BY <2>1, <2>2, <3>2, <4>1
    <3> QED BY <3>1, <3>2
  <2> QED BY <2>1, <2>4, <2>5, <2>6 DEF a, n
<1>3. \A t \in Seq(E) : t \in G
  <2>1. ASSUME NEW t \in Seq(E), NEW e \in E, t \in G PROVE Append(t, e) \in G
    <3>1. PICK r : Run(r, t)
      BY <2>1
    <3>2. Append(t, e) \in Seq(E)
      BY AppendProperties
    <3> HIDE DEF Run
    <3>3. \E q : Run(q, Append(t, e))
      BY <1>2, <3>1
    <3> QED BY <3>2, <3>3
  <2> HIDE DEF G
  <2> QED BY <1>1, <2>1, TextInduction
<1>4. ASSUME NEW t \in Seq(E) PROVE Run(CHOOSE r : Run(r, t), t)
  BY <1>3
<1>5. ASSUME NEW t \in Seq(E), NEW r, NEW q, Run(r, t), Run(q, t)
      PROVE  r[Len(t)] = q[Len(t)]
  <2> DEFINE L == {n \in Nat : n <= Len(t) => r[n] = q[n]}
  <2>1. 0 \in L
    BY <1>5
  <2>2. ASSUME NEW n \in Nat, n \in L PROVE n + 1 \in L
    <3> SUFFICES ASSUME n + 1 <= Len(t) PROVE r[n + 1] = q[n + 1]
      OBVIOUS
    <3>1. n + 1 \in 1 .. Len(t) /\ (n + 1) - 1 = n /\ n <= Len(t)
      BY LenProperties
    <3>2. r[n] = q[n]
      BY <2>2, <3>1
    <3> QED BY <1>5, <3>1, <3>2
  <2> HIDE DEF L
  <2>3. \A n \in Nat : n \in L
    BY <2>1, <2>2, SetInduction
  <2> QED BY <2>3, LenProperties DEF L
<1>6. g \in [Seq(E) -> S]
  <2> SUFFICES ASSUME NEW t \in Seq(E) PROVE (CHOOSE r : Run(r, t))[Len(t)] \in S
    OBVIOUS
  <2>1. Len(t) \in 0 .. Len(t)
    BY LenProperties
  <2> QED BY <1>4, <2>1
<1>7. g[<< >>] = base
  BY <1>4, EmptySeq
<1>8. ASSUME NEW t \in Seq(E), NEW e \in E PROVE g[Append(t, e)] = step[<<g[t], e>>]
  <2> DEFINE a == Append(t, e)
             r == CHOOSE x : Run(x, t)
             q == [i \in 0 .. Len(t) + 1 |->
                     IF i = Len(t) + 1 THEN step[<<r[Len(t)], e>>] ELSE r[i]]
  <2>1. a \in Seq(E) /\ Len(a) = Len(t) + 1 /\ Len(t) \in Nat
    BY AppendProperties, LenProperties
  <2>2. Run(q, a)
    <3>1. Run(r, t)
      BY <1>4
    <3> HIDE DEF Run, r
    <3> QED BY <1>2, <3>1
  <2>3. Run(CHOOSE x : Run(x, a), a)
    BY <1>4, <2>1
  <2>4. (CHOOSE x : Run(x, a))[Len(a)] = q[Len(a)]
    <3> HIDE DEF Run, q
    <3> QED BY <1>5, <2>1, <2>2, <2>3
  <2>5. q[Len(a)] = step[<<r[Len(t)], e>>]
    <3> HIDE DEF a, r
    <3> QED BY <2>1
  <2>6. g[a] = (CHOOSE x : Run(x, a))[Len(a)] /\ g[t] = r[Len(t)]
    BY <2>1
  <2> HIDE DEF a, r, q, g, Run
  <2> QED BY <2>4, <2>5, <2>6 DEF a
<1> HIDE DEF g
<1> QED BY <1>6, <1>7, <1>8 DEF Carries

-----------------------------------------------------------------------------
(* Clean and Spread, element by element. *)
Cleaner ==
  CHOOSE f : f = [t \in Seq(Elements) |->
                    IF t = << >> THEN << >>
                    ELSE IF Last(t) \in Noise THEN f[Front(t)]
                    ELSE IF Last(t) = ".." THEN Parent(f[Front(t)])
                    ELSE Append(f[Front(t)], Last(t))]

Onto(done, e) ==
  IF e \in Noise THEN done ELSE IF e = ".." THEN Parent(done) ELSE Append(done, e)

LEMMA ParentTyped ==
  ASSUME NEW E, NEW p \in Seq(E)
  PROVE  Parent(p) \in Seq(E)
<1>1. CASE p = << >>
  BY <1>1 DEF Parent
<1>2. CASE p # << >>
  <2>1. PICK t \in Seq(E), e \in E : p = Append(t, e)
    BY <1>2, SequenceEmptyOrAppend
  <2> QED BY <1>2, <2>1, TakenApart DEF Parent
<1> QED BY <1>1, <1>2

LEMMA CleanStep ==
  /\ Clean(<< >>) = << >>
  /\ \A t \in Seq(Elements), e \in Elements : Clean(Append(t, e)) = Onto(Clean(t), e)
<1> DEFINE E == Elements
           S == Seq(E)
           Body(f, t) == IF t = << >> THEN << >>
                         ELSE IF Last(t) \in Noise THEN f[Front(t)]
                         ELSE IF Last(t) = ".." THEN Parent(f[Front(t)])
                         ELSE Append(f[Front(t)], Last(t))
           step == [x \in S \X E |-> Onto(x[1], x[2])]
<1>1. << >> \in S
  BY EmptySeq
<1>2. step \in [S \X E -> S]
  <2> SUFFICES ASSUME NEW s \in S, NEW e \in E PROVE Onto(s, e) \in S
    OBVIOUS
  <2> QED BY ParentTyped, AppendProperties DEF Onto
<1>3. PICK g \in [S -> S] :
        g[<< >>] = << >> /\ \A t \in S, e \in E : g[Append(t, e)] = step[<<g[t], e>>]
  <2> DEFINE base == << >>
  <2>1. base \in S
    BY <1>1
  <2> HIDE DEF step, base
  <2>2. PICK g : Carries(g, E, S, base, step)
    BY <1>2, <2>1, CarriedAlong
  <2> QED BY <2>2 DEF Carries, base
<1>4. ASSUME NEW t \in S PROVE g[t] = Body(g, t)
  <2>1. CASE t = << >>
    BY <1>3, <2>1
  <2>2. CASE t # << >>
    <3>1. PICK s \in S, e \in E : t = Append(s, e)
      BY <2>2, SequenceEmptyOrAppend
    <3>2. Front(t) = s /\ Last(t) = e
      BY <3>1, TakenApart
    <3>3. g[s] \in S /\ g[t] = step[<<g[s], e>>]
      BY <1>3, <3>1
    <3>4. g[t] = Onto(g[s], e)
      BY <3>3
    <3> QED BY <2>2, <3>2, <3>4 DEF Onto
  <2> QED BY <2>1, <2>2
<1>5. g = [t \in S |-> Body(g, t)]
  BY <1>3, <1>4
<1>6. Cleaner = [t \in S |-> Body(Cleaner, t)]
  BY <1>5 DEF Cleaner
<1>7. \A t : Clean(t) = Cleaner[t]
  BY DEF Clean, Cleaner
<1>8. ASSUME NEW t \in S, NEW e \in E PROVE Clean(Append(t, e)) = Onto(Clean(t), e)
  <2>1. /\ Append(t, e) \in S /\ Append(t, e) # << >>
        /\ Front(Append(t, e)) = t /\ Last(Append(t, e)) = e
    BY TakenApart
  <2>2. Cleaner[Append(t, e)] = Body(Cleaner, Append(t, e))
    BY <1>6, <2>1
  <2> QED BY <1>7, <2>1, <2>2 DEF Onto
<1> QED BY <1>1, <1>6, <1>7, <1>8

Spreader(piece) ==
  CHOOSE f : f = [t \in Seq(DOMAIN piece) |->
                    IF t = << >> THEN << >> ELSE f[Front(t)] \o piece[Last(t)]]

LEMMA SpreadStep ==
  ASSUME NEW E, NEW S, NEW piece \in [E -> Seq(S)]
  PROVE  /\ Spread(<< >>, piece) = << >>
         /\ \A t \in Seq(E) : Spread(t, piece) \in Seq(S)
         /\ \A t \in Seq(E), e \in E :
              Spread(Append(t, e), piece) = Spread(t, piece) \o piece[e]
<1> DEFINE Body(f, t) == IF t = << >> THEN << >> ELSE f[Front(t)] \o piece[Last(t)]
           step == [x \in Seq(S) \X E |-> x[1] \o piece[x[2]]]
<1>1. << >> \in Seq(S) /\ << >> \in Seq(E)
  BY EmptySeq
<1>2. step \in [Seq(S) \X E -> Seq(S)]
  <2> SUFFICES ASSUME NEW s \in Seq(S), NEW e \in E PROVE s \o piece[e] \in Seq(S)
    OBVIOUS
  <2> QED BY ConcatProperties
<1>3. PICK g \in [Seq(E) -> Seq(S)] :
        g[<< >>] = << >> /\ \A t \in Seq(E), e \in E : g[Append(t, e)] = step[<<g[t], e>>]
  <2> DEFINE base == << >>
             T == Seq(S)
  <2>1. base \in T /\ step \in [T \X E -> T]
    BY <1>1, <1>2
  <2> HIDE DEF step, base, T
  <2>2. PICK g : Carries(g, E, T, base, step)
    BY <2>1, CarriedAlong
  <2> QED BY <2>2 DEF Carries, base, T
<1>4. ASSUME NEW t \in Seq(E) PROVE g[t] = Body(g, t)
  <2>1. CASE t = << >>
    BY <1>3, <2>1
  <2>2. CASE t # << >>
    <3>1. PICK s \in Seq(E), e \in E : t = Append(s, e)
      BY <2>2, SequenceEmptyOrAppend
    <3>2. Front(t) = s /\ Last(t) = e
      BY <3>1, TakenApart
    <3>3. g[s] \in Seq(S) /\ g[t] = step[<<g[s], e>>]
      BY <1>3, <3>1
    <3>4. g[t] = g[s] \o piece[e]
      BY <3>3
    <3> QED BY <2>2, <3>2, <3>4
  <2> QED BY <2>1, <2>2
<1>5. g = [t \in Seq(E) |-> Body(g, t)]
  BY <1>3, <1>4
<1>6. DOMAIN piece = E
  OBVIOUS
<1>7. Spreader(piece) = [t \in Seq(E) |-> Body(Spreader(piece), t)]
  BY <1>5, <1>6 DEF Spreader
<1>8. \A t : Spread(t, piece) = Spreader(piece)[t]
  BY DEF Spread, Spreader
<1>9. ASSUME NEW t \in Seq(E), NEW e \in E
      PROVE  Spread(Append(t, e), piece) = Spread(t, piece) \o piece[e]
  <2>1. /\ Append(t, e) \in Seq(E) /\ Append(t, e) # << >>
        /\ Front(Append(t, e)) = t /\ Last(Append(t, e)) = e
    BY TakenApart
  <2>2. Spreader(piece)[Append(t, e)] = Body(Spreader(piece), Append(t, e))
    BY <1>7, <2>1
  <2> QED BY <1>8, <2>1, <2>2
<1>10. Spread(<< >>, piece) = << >>
  BY <1>1, <1>7, <1>8
<1>11. \A t \in Seq(E) : Spread(t, piece) \in Seq(S)
  <2> DEFINE G == {t \in Seq(E) : Spread(t, piece) \in Seq(S)}
  <2>1. << >> \in G
    BY <1>1, <1>10
  <2>2. ASSUME NEW t \in Seq(E), NEW e \in E, t \in G PROVE Append(t, e) \in G
    <3>1. Append(t, e) \in Seq(E)
      BY AppendProperties
    <3>2. Spread(t, piece) \in Seq(S) /\ piece[e] \in Seq(S)
      BY <2>2
    <3>3. Spread(t, piece) \o piece[e] \in Seq(S)
      BY <3>2, ConcatProperties
    <3> QED BY <1>9, <3>1, <3>3
  <2> HIDE DEF G
  <2>3. \A t \in Seq(E) : t \in G
    BY <2>1, <2>2, TextInduction
  <2> QED BY <2>3 DEF G
<1> QED BY <1>9, <1>10, <1>11

-----------------------------------------------------------------------------
(* What Clean and Kept make of a text. *)
Proper == Elements \ (Noise \cup {".."})

LEMMA AppendConcat ==
  ASSUME NEW E, NEW s \in Seq(E), NEW t \in Seq(E), NEW e \in E
  PROVE  s \o Append(t, e) = Append(s \o t, e)
<1>1. s \o t \in Seq(E) /\ <<e>> \in Seq(E)
  BY ConcatProperties
<1>2. Append(t, e) = t \o <<e>> /\ Append(s \o t, e) = (s \o t) \o <<e>>
  BY <1>1, AppendIsConcat
<1> QED BY <1>1, <1>2, ConcatAssociative

LEMMA ToSetAppend ==
  ASSUME NEW E, NEW t \in Seq(E), NEW e \in E
  PROVE  ToSet(Append(t, e)) = ToSet(t) \cup {e}
<1>1. /\ Len(t) \in Nat /\ DOMAIN t = 1 .. Len(t) /\ DOMAIN Append(t, e) = 1 .. Len(t) + 1
      /\ Append(t, e)[Len(t) + 1] = e /\ \A i \in 1 .. Len(t) : Append(t, e)[i] = t[i]
  BY AppendProperties, LenProperties
<1>2. 1 .. Len(t) + 1 = (1 .. Len(t)) \cup {Len(t) + 1}
  BY <1>1
<1> QED BY <1>1, <1>2 DEF ToSet

LEMMA ToSetTyped ==
  ASSUME NEW E, NEW t \in Seq(E), NEW S, ToSet(t) \subseteq S
  PROVE  t \in Seq(S)
<1>1. Len(t) \in Nat /\ t \in [1 .. Len(t) -> E] /\ DOMAIN t = 1 .. Len(t)
  BY LenProperties
<1>2. \A i \in 1 .. Len(t) : t[i] \in S
  BY <1>1 DEF ToSet
<1> QED BY <1>1, <1>2, SeqDef

LEMMA CleanTyped ==
  ASSUME NEW t \in Seq(Elements)
  PROVE  Clean(t) \in Seq(Proper) /\ ToSet(Clean(t)) \subseteq ToSet(t)
<1> DEFINE G == {s \in Seq(Elements) :
                   Clean(s) \in Seq(Proper) /\ ToSet(Clean(s)) \subseteq ToSet(s)}
<1>1. << >> \in G
  BY CleanStep, EmptySeq
<1>2. ASSUME NEW s \in Seq(Elements), NEW e \in Elements, s \in G
      PROVE  Append(s, e) \in G
  <2> DEFINE c == Clean(s)
  <2>1. c \in Seq(Proper) /\ ToSet(c) \subseteq ToSet(s)
    BY <1>2
  <2>2. Append(s, e) \in Seq(Elements) /\ ToSet(Append(s, e)) = ToSet(s) \cup {e}
    BY AppendProperties, ToSetAppend
  <2>3. Clean(Append(s, e)) = Onto(c, e)
    BY CleanStep
  <2> HIDE DEF c
  <2>4. CASE e \in Noise
    BY <2>1, <2>2, <2>3, <2>4 DEF Onto
  <2>5. CASE e = ".." /\ e \notin Noise
    <3>1. CASE c = << >>
      BY <2>1, <2>2, <2>3, <2>5, <3>1 DEF Onto, Parent
    <3>2. CASE c # << >>
      <4>1. PICK d \in Seq(Proper), x \in Proper : c = Append(d, x)
        BY <2>1, <3>2, SequenceEmptyOrAppend
      <4>2. Front(c) = d
        BY <4>1, TakenApart
      <4>3. ToSet(d) \subseteq ToSet(c)
        BY <4>1, ToSetAppend
      <4> QED BY <2>1, <2>2, <2>3, <2>5, <3>2, <4>2, <4>3 DEF Onto, Parent
    <3> QED BY <3>1, <3>2
  <2>6. CASE e \notin Noise \cup {".."}
    <3>1. e \in Proper
      BY <2>6 DEF Proper
    <3>2. Append(c, e) \in Seq(Proper) /\ ToSet(Append(c, e)) = ToSet(c) \cup {e}
      BY <2>1, <3>1, AppendProperties, ToSetAppend
    <3> QED BY <2>1, <2>2, <2>3, <2>6, <3>2 DEF Onto
  <2> QED BY <2>4, <2>5, <2>6
<1> HIDE DEF G
<1>3. \A s \in Seq(Elements) : s \in G
  BY <1>1, <1>2, TextInduction
<1> QED BY <1>3 DEF G

LEMMA CleanProper ==
  ASSUME NEW t \in Seq(Proper)
  PROVE  Clean(t) = t
<1> DEFINE G == {s \in Seq(Proper) : Clean(s) = s}
<1>1. << >> \in G
  BY CleanStep, EmptySeq
<1>2. ASSUME NEW s \in Seq(Proper), NEW e \in Proper, s \in G
      PROVE  Append(s, e) \in G
  <2>1. s \in Seq(Elements) /\ e \in Elements
    BY SeqMonotonic DEF Proper
  <2>2. Append(s, e) \in Seq(Proper) /\ Clean(Append(s, e)) = Onto(Clean(s), e)
    BY <2>1, CleanStep, AppendProperties
  <2> QED BY <1>2, <2>2 DEF Onto, Proper
<1> HIDE DEF G
<1>3. \A s \in Seq(Proper) : s \in G
  BY <1>1, <1>2, TextInduction
<1> QED BY <1>3 DEF G

LEMMA KeptStep ==
  /\ Kept(<< >>) = << >>
  /\ \A t \in Seq(Elements) : Kept(t) \in Seq(Elements)
  /\ \A t \in Seq(Elements), e \in Elements :
       Kept(Append(t, e)) = IF e \in Noise THEN Kept(t) ELSE Append(Kept(t), e)
<1> DEFINE piece == [e \in Elements |-> IF e \in Noise THEN << >> ELSE <<e>>]
<1>1. piece \in [Elements -> Seq(Elements)]
  OBVIOUS
<1>2. /\ Spread(<< >>, piece) = << >>
      /\ \A t \in Seq(Elements) : Spread(t, piece) \in Seq(Elements)
      /\ \A t \in Seq(Elements), e \in Elements :
           Spread(Append(t, e), piece) = Spread(t, piece) \o piece[e]
  <2> HIDE DEF piece
  <2> QED BY <1>1, SpreadStep
<1>3. \A t : Kept(t) = Spread(t, piece)
  BY DEF Kept
<1>4. ASSUME NEW t \in Seq(Elements), NEW e \in Elements
      PROVE  Kept(Append(t, e)) = IF e \in Noise THEN Kept(t) ELSE Append(Kept(t), e)
  <2> DEFINE k == Spread(t, piece)
  <2>1. k \in Seq(Elements) /\ Kept(Append(t, e)) = k \o piece[e] /\ Kept(t) = k
    BY <1>2, <1>3
  <2>2. piece[e] = IF e \in Noise THEN << >> ELSE <<e>>
    OBVIOUS
  <2> HIDE DEF k, piece
  <2>3. k \o << >> = k /\ Append(k, e) = k \o <<e>>
    BY <2>1, ConcatEmptySeq, AppendIsConcat
  <2> QED BY <2>1, <2>2, <2>3
<1> HIDE DEF piece
<1> QED BY <1>2, <1>3, <1>4

LEMMA KeptConcat ==
  ASSUME NEW s \in Seq(Elements), NEW t \in Seq(Elements)
  PROVE  Kept(s \o t) = Kept(s) \o Kept(t)
<1> DEFINE G == {u \in Seq(Elements) : Kept(s \o u) = Kept(s) \o Kept(u)}
<1>1. << >> \in G
  BY KeptStep, EmptySeq, ConcatEmptySeq
<1>2. ASSUME NEW u \in Seq(Elements), NEW e \in Elements, u \in G
      PROVE  Append(u, e) \in G
  <2>1. s \o u \in Seq(Elements) /\ Append(u, e) \in Seq(Elements)
    BY ConcatProperties, AppendProperties
  <2>2. s \o Append(u, e) = Append(s \o u, e)
    BY AppendConcat
  <2>3. /\ Kept(s) \in Seq(Elements) /\ Kept(u) \in Seq(Elements)
        /\ Kept(Append(u, e)) = IF e \in Noise THEN Kept(u) ELSE Append(Kept(u), e)
        /\ Kept(Append(s \o u, e)) = IF e \in Noise THEN Kept(s \o u) ELSE Append(Kept(s \o u), e)
    BY <2>1, KeptStep
  <2>4. Kept(s) \o Append(Kept(u), e) = Append(Kept(s) \o Kept(u), e)
    BY <2>3, AppendConcat
  <2> QED BY <1>2, <2>1, <2>2, <2>3, <2>4
<1> HIDE DEF G
<1>3. \A u \in Seq(Elements) : u \in G
  BY <1>1, <1>2, TextInduction
<1> QED BY <1>3 DEF G

(* Without "..", Clean only drops what Kept drops. *)
LEMMA CleanIsKept ==
  ASSUME NEW t \in Seq(Elements), ".." \notin ToSet(t)
  PROVE  Clean(t) = Kept(t)
<1> DEFINE S == Elements \ {".."}
           G == {s \in Seq(S) : Clean(s) = Kept(s)}
<1>1. << >> \in G
  BY CleanStep, KeptStep, EmptySeq
<1>2. ASSUME NEW s \in Seq(S), NEW e \in S, s \in G
      PROVE  Append(s, e) \in G
  <2>1. s \in Seq(Elements) /\ e \in Elements /\ e # ".."
    BY SeqMonotonic
  <2>2. /\ Append(s, e) \in Seq(S) /\ Clean(Append(s, e)) = Onto(Clean(s), e)
        /\ Kept(Append(s, e)) = IF e \in Noise THEN Kept(s) ELSE Append(Kept(s), e)
    BY <2>1, CleanStep, KeptStep, AppendProperties
  <2> QED BY <1>2, <2>1, <2>2 DEF Onto
<1>3. \A s \in Seq(S) : s \in G
  <2> HIDE DEF G, S
  <2> QED BY <1>1, <1>2, TextInduction
<1>4. ToSet(t) \subseteq S
  BY LenProperties DEF ToSet
<1>5. t \in Seq(S)
  <2> HIDE DEF S
  <2> QED BY <1>4, ToSetTyped
<1> QED BY <1>3, <1>5

-----------------------------------------------------------------------------
(* Walks: the recurrence of Walk is met by the function it names.  A walk   *)
(* ends where its last place is, and to prove that there is such a function *)
(* it takes only the set of the places a walk comes through.                *)
Ended(f, w) == End(f, w) # "none"

LEMMA ParentStands ==
  ASSUME NEW f, IsTree(f), NEW p \in DOMAIN f
  PROVE  /\ Parent(p) \in DOMAIN f
         /\ f[p].kind # "link" => f[Parent(p)].kind # "link"
BY DEF IsTree, Parent, Dir

LEMMA OnwardTyped ==
  ASSUME NEW f, IsTree(f), NEW w \in Walkers(f), ~Ended(f, w)
  PROVE  /\ Onward(f, w) \in Walkers(f)
         /\ \/ Onward(f, w).hops = w.hops /\ Len(Onward(f, w).todo) = Len(w.todo) - 1
            \/ Onward(f, w).hops = w.hops - 1
         /\ f[w.at].kind # "link" => f[Onward(f, w).at].kind # "link"
<1> DEFINE e == Head(w.todo)
           rest == Tail(w.todo)
           u == Under(w)
<1>1. /\ w.at \in DOMAIN f /\ w.todo \in Seq(Elements) /\ w.hops \in 0 .. Hops
      /\ w = [at |-> w.at, todo |-> w.todo, hops |-> w.hops]
  BY DEF Walkers
<1>2. /\ w.todo # << >> /\ f[w.at] = Dir
      /\ e \notin Noise \cup {".."} => u \in DOMAIN f /\ ~(f[u].kind = "link" /\ w.hops = 0)
  BY DEF Ended, End
<1>3. rest \in Seq(Elements) /\ Len(rest) = Len(w.todo) - 1
  BY <1>1, <1>2, HeadTailProperties
<1>4. << >> \in DOMAIN f /\ f[<< >>].kind # "link"
  BY DEF IsTree, Dir
<1> HIDE DEF e, rest, u
<1>5. CASE e \in Noise
  <2>1. Onward(f, w) = [w EXCEPT !.todo = rest]
    BY <1>5 DEF Onward, e, rest
  <2> QED BY <1>1, <1>3, <2>1 DEF Walkers
<1>6. CASE e = ".." /\ e \notin Noise
  <2>1. Onward(f, w) = [w EXCEPT !.at = Parent(w.at), !.todo = rest]
    BY <1>6 DEF Onward, e, rest
  <2>2. Parent(w.at) \in DOMAIN f /\ (f[w.at].kind # "link" => f[Parent(w.at)].kind # "link")
    BY <1>1, ParentStands
  <2> QED BY <1>1, <1>3, <2>1, <2>2 DEF Walkers
<1>7. CASE e \notin Noise \cup {".."} /\ f[u].kind # "link"
  <2>1. Onward(f, w) = [w EXCEPT !.at = u, !.todo = rest]
    BY <1>7 DEF Onward, e, rest, u
  <2> QED BY <1>1, <1>2, <1>3, <1>7, <2>1 DEF Walkers
<1>8. CASE e \notin Noise \cup {".."} /\ f[u].kind = "link"
  <2> DEFINE target == f[u].target
  <2>1. Onward(f, w) = [at |-> IF Head(target) = "" THEN << >> ELSE w.at,
                        todo |-> target \o rest, hops |-> w.hops - 1]
    BY <1>8 DEF Onward, e, rest, u
  <2>2. target \in Seq(Elements) /\ target \o rest \in Seq(Elements)
    <3>1. target \in Seq(Elements)
      BY <1>2, <1>8 DEF IsTree
    <3> QED BY <1>3, <3>1, ConcatProperties
  <2>3. w.hops - 1 \in 0 .. Hops
    BY <1>1, <1>2, <1>8, HopsAssumption
  <2> DEFINE at == IF Head(target) = "" THEN << >> ELSE w.at
  <2>4. at \in DOMAIN f /\ (f[w.at].kind # "link" => f[at].kind # "link")
    <3>1. CASE at = << >>
      BY <1>4, <3>1, Zenon
    <3>2. CASE at = w.at
      BY <1>1, <3>2, Zenon
    <3> QED BY <3>1, <3>2
  <2> HIDE DEF target, at
  <2>5. Onward(f, w) = [at |-> at, todo |-> target \o rest, hops |-> w.hops - 1]
    BY <2>1 DEF at
  <2> QED BY <2>2, <2>3, <2>4, <2>5 DEF Walkers
<1> QED BY <1>5, <1>6, <1>7, <1>8

Walking(f) ==
  CHOOSE g : g = [w \in Walkers(f) |-> IF End(f, w) # "none" THEN w ELSE g[Onward(f, w)]]

LEMMA WalkStep ==
  ASSUME NEW f, IsTree(f), NEW w \in Walkers(f)
  PROVE  Walk(f, w) = IF Ended(f, w) THEN w ELSE Walk(f, Onward(f, w))
<1> DEFINE S == Walkers(f)
           Closed(C) == \A x \in C : ~Ended(f, x) => Onward(f, x) \in C
           Reach(x) == {y \in S : \A C \in SUBSET S : x \in C /\ Closed(C) => y \in C}
           Ends(x) == {y \in Reach(x) : Ended(f, y)}
           g == [x \in S |-> CHOOSE y : y \in Ends(x)]
<1>1. \A x \in S : ~Ended(f, x) => Onward(f, x) \in S
  BY OnwardTyped
<1>2. ASSUME NEW x \in S PROVE x \in Reach(x) /\ Closed(Reach(x))
  BY <1>1
<1>3. ASSUME NEW x \in S, Ended(f, x) PROVE Ends(x) = {x}
  <2>1. Closed({x})
    BY <1>3
  <2> HIDE DEF Closed
  <2> QED BY <1>2, <1>3, <2>1
<1>4. ASSUME NEW x \in S, ~Ended(f, x) PROVE Ends(x) = Ends(Onward(f, x))
  <2> DEFINE o == Onward(f, x)
  <2>1. o \in S
    BY <1>1, <1>4
  <2>2. Reach(o) \subseteq Reach(x)
    <3> SUFFICES ASSUME NEW y \in Reach(o), NEW C \in SUBSET S, x \in C, Closed(C)
                 PROVE  y \in C
      OBVIOUS
    <3>1. o \in C
      BY <1>4
    <3> HIDE DEF Closed, o
    <3> QED BY <3>1
  <2>3. Reach(x) \subseteq {x} \cup Reach(o)
    <3> DEFINE C == {x} \cup Reach(o)
    <3>1. o \in Reach(o) /\ Closed(Reach(o))
      BY <1>2, <2>1
    <3>2. Closed(C)
      <4> HIDE DEF Reach
      <4> QED BY <1>4, <3>1
    <3>3. C \in SUBSET S /\ x \in C
      OBVIOUS
    <3> HIDE DEF C, Closed
    <3> QED BY <3>2, <3>3 DEF C
  <2> HIDE DEF Reach
  <2> QED BY <1>4, <2>2, <2>3
<1> HIDE DEF Ends
<1>5. ASSUME NEW x \in S PROVE g[x] = IF End(f, x) # "none" THEN x ELSE g[Onward(f, x)]
  <2>1. CASE Ended(f, x)
    BY <1>3, <2>1 DEF Ended
  <2>2. CASE ~Ended(f, x)
    BY <1>1, <1>4, <2>2 DEF Ended
  <2> QED BY <2>1, <2>2
<1>6. g = [x \in S |-> IF End(f, x) # "none" THEN x ELSE g[Onward(f, x)]]
  <2> HIDE DEF S
  <2> DEFINE h == [x \in S |-> IF End(f, x) # "none" THEN x ELSE g[Onward(f, x)]]
  <2>1. \A x \in S : g[x] = h[x]
    BY <1>5
  <2> QED BY <2>1
<1>7. Walking(f) = [x \in S |-> IF End(f, x) # "none" THEN x ELSE Walking(f)[Onward(f, x)]]
  <2> HIDE DEF g
  <2> QED BY <1>6 DEF Walking
<1>8. \A x : Walk(f, x) = Walking(f)[x]
  BY DEF Walk, Walking
<1> QED BY <1>7, <1>8 DEF Ended

(* Induction over walks, from their ends: links are followed only so often, *)
(* and between two of them the text becomes shorter.                        *)
LEMMA WalkInduction ==
  ASSUME NEW f, IsTree(f), NEW G,
         \A w \in Walkers(f) : Ended(f, w) => w \in G,
         \A w \in Walkers(f) : ~Ended(f, w) /\ Onward(f, w) \in G => w \in G
  PROVE  \A w \in Walkers(f) : w \in G
<1> DEFINE B == {w \in Walkers(f) : w \notin G}
           H == {w.hops : w \in B}
<1> SUFFICES ASSUME B # {} PROVE FALSE
  OBVIOUS
<1>1. \A w \in B : w.hops \in Nat /\ Len(w.todo) \in Nat
  BY HopsAssumption, LenProperties DEF Walkers
<1>2. H \subseteq Nat /\ H # {}
  BY <1>1
<1>3. PICK h \in H : \A l \in H : h <= l
  <2> HIDE DEF H
  <2> QED BY <1>2, LeastIn
<1> DEFINE L == {Len(w.todo) : w \in {v \in B : v.hops = h}}
<1>4. L \subseteq Nat /\ L # {}
  BY <1>1
<1>5. PICK l \in L : \A k \in L : l <= k
  <2> HIDE DEF L
  <2> QED BY <1>4, LeastIn
<1>6. PICK w \in B : w.hops = h /\ Len(w.todo) = l
  OBVIOUS
<1>7. ~Ended(f, w) /\ Onward(f, w) \in B
  <2>1. ~Ended(f, w)
    OBVIOUS
  <2> QED BY <2>1, OnwardTyped
<1>8. \/ Onward(f, w).hops = h /\ Len(Onward(f, w).todo) = l - 1
      \/ Onward(f, w).hops = h - 1
  BY <1>6, <1>7, OnwardTyped
<1>9. h \in Nat /\ l \in Nat
  BY <1>1, <1>6
<1>10. Onward(f, w).hops \in H
  BY <1>7
<1>11. CASE Onward(f, w).hops = h /\ Len(Onward(f, w).todo) = l - 1
  <2>1. l - 1 \in L
    BY <1>7, <1>11
  <2> HIDE DEF L
  <2> QED BY <1>5, <1>9, <2>1
<1>12. CASE Onward(f, w).hops = h - 1
  <2> HIDE DEF H
  <2> QED BY <1>3, <1>9, <1>10, <1>12
<1> QED BY <1>8, <1>11, <1>12

-----------------------------------------------------------------------------
(* Where walks lead. *)
At(p, text, hops) == [at |-> p, todo |-> text, hops |-> hops]

LEMMA WalkEnds ==
  ASSUME NEW f, IsTree(f), NEW w \in Walkers(f)
  PROVE  LET u == Walk(f, w) IN
         /\ u \in Walkers(f) /\ Ended(f, u) /\ u.hops <= w.hops
         /\ f[w.at].kind # "link" => f[u.at].kind # "link"
<1> DEFINE Good(v) == LET u == Walk(f, v) IN
             /\ u \in Walkers(f) /\ Ended(f, u) /\ u.hops <= v.hops
             /\ f[v.at].kind # "link" => f[u.at].kind # "link"
           G == {v \in Walkers(f) : Good(v)}
<1>1. ASSUME NEW v \in Walkers(f), Ended(f, v) PROVE v \in G
  <2>1. Walk(f, v) = v
    BY <1>1, WalkStep
  <2>2. v.hops <= v.hops
    BY HopsAssumption DEF Walkers
  <2> QED BY <1>1, <2>1, <2>2
<1>2. ASSUME NEW v \in Walkers(f), ~Ended(f, v), Onward(f, v) \in G PROVE v \in G
  <2> DEFINE o == Onward(f, v)
             u == Walk(f, o)
  <2>1. Walk(f, v) = u
    BY <1>2, WalkStep
  <2>2. /\ o.hops = v.hops \/ o.hops = v.hops - 1
        /\ f[v.at].kind # "link" => f[o.at].kind # "link"
    BY <1>2, OnwardTyped
  <2>3. /\ u \in Walkers(f) /\ Ended(f, u) /\ u.hops <= o.hops
        /\ f[o.at].kind # "link" => f[u.at].kind # "link"
    BY <1>2
  <2>4. u.hops \in Nat /\ v.hops \in Nat
    BY <2>3, HopsAssumption DEF Walkers
  <2> HIDE DEF o, u
  <2>5. u.hops <= v.hops
    BY <2>2, <2>3, <2>4
  <2> QED BY <2>1, <2>2, <2>3, <2>5
<1> HIDE DEF G
<1>3. \A v \in Walkers(f) : v \in G
  BY <1>1, <1>2, WalkInduction
<1> QED BY <1>3 DEF G

(* A walk with more to read behind its text. *)
Longer(w, t) == At(w.at, w.todo \o t, w.hops)

LEMMA LongerTyped ==
  ASSUME NEW f, NEW w \in Walkers(f), NEW t \in Seq(Elements)
  PROVE  /\ Longer(w, t) \in Walkers(f)
         /\ Longer(w, t).at = w.at /\ Longer(w, t).todo = w.todo \o t
         /\ Longer(w, t).hops = w.hops
<1>1. w.todo \o t \in Seq(Elements)
  BY ConcatProperties DEF Walkers
<1> QED BY <1>1 DEF Walkers, Longer, At

LEMMA LongerAt ==
  ASSUME NEW p, NEW s, NEW h, NEW t
  PROVE  Longer(At(p, s, h), t) = At(p, s \o t, h)
BY DEF Longer, At

LEMMA LongerFromHere ==
  ASSUME NEW p, NEW h, NEW E, NEW t \in Seq(E)
  PROVE  Longer(At(p, << >>, h), t) = At(p, t, h)
<1>1. << >> \o t = t
  BY ConcatEmptySeq
<1>2. At(p, << >>, h).at = p /\ At(p, << >>, h).todo = << >> /\ At(p, << >>, h).hops = h
  BY DEF At
<1> QED BY <1>1, <1>2, Zenon DEF Longer

LEMMA WalkerAt ==
  ASSUME NEW f, NEW w \in Walkers(f)
  PROVE  \E p \in DOMAIN f, s \in Seq(Elements), h \in 0 .. Hops : w = At(p, s, h)
BY DEF Walkers, At

LEMMA HeadTailConcat ==
  ASSUME NEW E, NEW s \in Seq(E), NEW t \in Seq(E), s # << >>
  PROVE  s \o t # << >> /\ Head(s \o t) = Head(s) /\ Tail(s \o t) = Tail(s) \o t
<1> DEFINE c == s \o t
           x == Tail(c)
           y == Tail(s) \o t
<1>1. /\ Len(s) \in Nat \ {0} /\ Len(t) \in Nat
      /\ Head(s) = s[1] /\ Tail(s) \in Seq(E) /\ Len(Tail(s)) = Len(s) - 1
      /\ \A i \in 1 .. Len(s) - 1 : Tail(s)[i] = s[i + 1]
  BY EmptySeq, HeadTailProperties, LenProperties
<1>2. /\ c \in Seq(E) /\ Len(c) = Len(s) + Len(t)
      /\ \A i \in 1 .. Len(s) + Len(t) :
           c[i] = IF i <= Len(s) THEN s[i] ELSE t[i - Len(s)]
  BY ConcatProperties
<1> HIDE DEF c
<1>3. c # << >> /\ Head(c) = s[1]
  <2>1. c # << >>
    BY <1>1, <1>2, EmptySeq
  <2>2. 1 \in 1 .. Len(s) + Len(t) /\ 1 <= Len(s)
    BY <1>1
  <2> QED BY <1>2, <2>1, <2>2
<1>4. /\ x \in Seq(E) /\ Len(x) = Len(s) + Len(t) - 1
      /\ \A i \in 1 .. Len(s) + Len(t) - 1 : x[i] = c[i + 1]
  BY <1>1, <1>2, <1>3, HeadTailProperties
<1>5. /\ y \in Seq(E) /\ Len(y) = Len(s) - 1 + Len(t)
      /\ \A i \in 1 .. Len(s) - 1 + Len(t) :
           y[i] = IF i <= Len(s) - 1 THEN Tail(s)[i] ELSE t[i - (Len(s) - 1)]
  BY <1>1, ConcatProperties
<1> HIDE DEF x, y
<1>6. ASSUME NEW i \in 1 .. Len(s) + Len(t) - 1 PROVE x[i] = y[i]
  <2>1. /\ i + 1 \in 1 .. Len(s) + Len(t) /\ i \in 1 .. Len(s) - 1 + Len(t)
        /\ i + 1 <= Len(s) <=> i <= Len(s) - 1
        /\ i <= Len(s) - 1 => i \in 1 .. Len(s) - 1
        /\ (i + 1) - Len(s) = i - (Len(s) - 1)
    BY <1>1
  <2>2. x[i] = c[i + 1] /\ c[i + 1] = IF i + 1 <= Len(s) THEN s[i + 1] ELSE t[(i + 1) - Len(s)]
    BY <1>2, <1>4, <2>1
  <2>3. y[i] = IF i <= Len(s) - 1 THEN Tail(s)[i] ELSE t[i - (Len(s) - 1)]
    BY <1>5, <2>1
  <2>4. i <= Len(s) - 1 => Tail(s)[i] = s[i + 1]
    BY <1>1, <2>1
  <2> QED BY <2>1, <2>2, <2>3, <2>4
<1>7. Len(x) = Len(y)
  BY <1>1, <1>4, <1>5
<1>8. x = y
  BY <1>4, <1>5, <1>6, <1>7, SeqEqual
<1> QED BY <1>1, <1>3, <1>8 DEF c, x, y

LEMMA LongerStep ==
  ASSUME NEW f, IsTree(f), NEW w \in Walkers(f), w.todo # << >>, NEW t \in Seq(Elements)
  PROVE  /\ End(f, Longer(w, t)) = End(f, w)
         /\ ~Ended(f, w) => Onward(f, Longer(w, t)) = Longer(Onward(f, w), t)
<1> DEFINE l == Longer(w, t)
           rest == Tail(w.todo)
<1>1. PICK p \in DOMAIN f, s \in Seq(Elements), h \in 0 .. Hops : w = At(p, s, h)
  BY WalkerAt
<1>2. w.at = p /\ w.todo = s /\ w.hops = h /\ l = At(p, s \o t, h)
  <2>1. w.at = p /\ w.todo = s /\ w.hops = h
    BY <1>1 DEF At
  <2> QED BY <2>1 DEF Longer
<1>3. /\ s \o t # << >> /\ Head(s \o t) = Head(s) /\ Tail(s \o t) = rest \o t
      /\ rest \in Seq(Elements)
  BY <1>2, HeadTailProperties, HeadTailConcat
<1>4. Under(l) = Under(w) /\ l.at = p /\ l.hops = h /\ l.todo = s \o t
  BY <1>2, <1>3 DEF Under, At
<1> HIDE DEF l, rest
<1>5. End(f, l) = End(f, w)
  BY <1>2, <1>3, <1>4 DEF End
<1>6. ASSUME ~Ended(f, w) PROVE Onward(f, l) = Longer(Onward(f, w), t)
  <2>1. CASE Head(s) \in Noise
    <3>1. Onward(f, w) = At(p, rest, h) /\ Onward(f, l) = At(p, rest \o t, h)
      BY <1>1, <1>2, <1>3, <1>4, <2>1 DEF Onward, At, rest
    <3> QED BY <3>1, LongerAt
  <2>2. CASE Head(s) = ".." /\ Head(s) \notin Noise
    <3>1. /\ Onward(f, w) = At(Parent(p), rest, h)
          /\ Onward(f, l) = At(Parent(p), rest \o t, h)
      BY <1>1, <1>2, <1>3, <1>4, <2>2 DEF Onward, At, rest
    <3> QED BY <3>1, LongerAt
  <2>3. CASE Head(s) \notin Noise \cup {".."} /\ f[Under(w)].kind # "link"
    <3>1. /\ Onward(f, w) = At(Under(w), rest, h)
          /\ Onward(f, l) = At(Under(w), rest \o t, h)
      BY <1>1, <1>2, <1>3, <1>4, <2>3 DEF Onward, At, rest
    <3> QED BY <3>1, LongerAt
  <2>4. CASE Head(s) \notin Noise \cup {".."} /\ f[Under(w)].kind = "link"
    <3> DEFINE target == f[Under(w)].target
               at == IF Head(target) = "" THEN << >> ELSE p
    <3>1. /\ Onward(f, w) = At(at, target \o rest, h - 1)
          /\ Onward(f, l) = At(at, target \o (rest \o t), h - 1)
      BY <1>1, <1>2, <1>3, <1>4, <2>4 DEF Onward, At, rest
    <3>2. target \in Seq(Elements)
      BY <1>2, <1>6, <2>4, Zenon DEF Ended, End, IsTree
    <3> HIDE DEF target, at
    <3>3. rest \in Seq(Elements)
      BY <1>3
    <3>4. target \o (rest \o t) = (target \o rest) \o t
      BY <3>2, <3>3, ConcatAssociative, SMTT(30)
    <3> QED BY <3>1, <3>4, LongerAt
  <2> QED BY <2>1, <2>2, <2>3, <2>4
<1> QED BY <1>5, <1>6 DEF l

(* To read a text and another one behind it is to read the other one from   *)
(* where the first has led.                                                 *)
LEMMA OneAfterTheOther ==
  ASSUME NEW f, IsTree(f), NEW w \in Walkers(f), NEW t \in Seq(Elements)
  PROVE  LET u == Walk(f, w) IN
         /\ Walk(f, Longer(w, t)) = Walk(f, Longer(u, t))
         /\ u.todo # << >> =>
              Walk(f, Longer(w, t)) = Longer(u, t) /\ End(f, Longer(u, t)) = End(f, u)
<1> DEFINE G == {v \in Walkers(f) : Walk(f, Longer(v, t)) = Walk(f, Longer(Walk(f, v), t))}
<1>1. ASSUME NEW v \in Walkers(f), Ended(f, v) PROVE v \in G
  BY <1>1, WalkStep
<1>2. ASSUME NEW v \in Walkers(f), ~Ended(f, v), Onward(f, v) \in G PROVE v \in G
  <2>1. v.todo # << >>
    BY <1>2 DEF Ended, End
  <2>2. ~Ended(f, Longer(v, t)) /\ Onward(f, Longer(v, t)) = Longer(Onward(f, v), t)
    BY <1>2, <2>1, LongerStep DEF Ended
  <2>3. Walk(f, Longer(v, t)) = Walk(f, Longer(Onward(f, v), t))
    BY <2>2, LongerTyped, WalkStep
  <2>4. Walk(f, v) = Walk(f, Onward(f, v))
    BY <1>2, WalkStep
  <2> QED BY <1>2, <2>3, <2>4
<1> HIDE DEF G
<1>3. \A v \in Walkers(f) : v \in G
  BY <1>1, <1>2, WalkInduction
<1> DEFINE u == Walk(f, w)
<1>4. u \in Walkers(f) /\ Ended(f, u)
  BY WalkEnds
<1>5. Walk(f, Longer(w, t)) = Walk(f, Longer(u, t))
  BY <1>3 DEF G
<1>6. ASSUME u.todo # << >>
      PROVE  Walk(f, Longer(u, t)) = Longer(u, t) /\ End(f, Longer(u, t)) = End(f, u)
  <2> HIDE DEF u
  <2>1. End(f, Longer(u, t)) = End(f, u) /\ Longer(u, t) \in Walkers(f)
    BY <1>4, <1>6, LongerStep, LongerTyped
  <2> QED BY <1>4, <2>1, WalkStep DEF Ended
<1> QED BY <1>5, <1>6

(* A walk that may follow more links comes as far, and no further. *)
More(w, k) == At(w.at, w.todo, w.hops + k)

LEMMA MoreStep ==
  ASSUME NEW f, IsTree(f), NEW k \in Nat, NEW w \in Walkers(f), w.hops + k \in 0 .. Hops
  PROVE  /\ More(w, k) \in Walkers(f)
         /\ Ended(f, w) /\ End(f, w) # "error" => End(f, More(w, k)) = End(f, w)
         /\ ~Ended(f, w) =>
              ~Ended(f, More(w, k)) /\ Onward(f, More(w, k)) = More(Onward(f, w), k)
<1> DEFINE m == More(w, k)
           rest == Tail(w.todo)
<1>1. w.at \in DOMAIN f /\ w.todo \in Seq(Elements) /\ w.hops \in Nat
  BY HopsAssumption DEF Walkers
<1>2. /\ m \in Walkers(f) /\ m.at = w.at /\ m.todo = w.todo /\ m.hops = w.hops + k
      /\ Under(m) = Under(w)
  BY <1>1 DEF More, At, Walkers, Under
<1> HIDE DEF m, rest
<1>3. ASSUME Ended(f, w), End(f, w) # "error" PROVE End(f, m) = End(f, w)
  BY <1>2, <1>3 DEF Ended, End
<1>4. ASSUME ~Ended(f, w) PROVE ~Ended(f, m) /\ Onward(f, m) = More(Onward(f, w), k)
  <2>1. ~Ended(f, m)
    BY <1>1, <1>2, <1>4 DEF Ended, End
  <2>2. PICK p \in DOMAIN f, s \in Seq(Elements), h \in 0 .. Hops : w = At(p, s, h)
    BY WalkerAt
  <2>3. w.at = p /\ w.todo = s /\ w.hops = h /\ h \in Nat
    BY <1>1, <2>2 DEF At
  <2>4. m = At(p, s, h + k)
    BY <2>3 DEF m, More
  <2>5. \A x, y, z : More(At(x, y, z), k) = At(x, y, z + k)
    BY DEF More, At
  <2>6. CASE Head(s) \in Noise
    <3>1. Onward(f, w) = At(p, Tail(s), h) /\ Onward(f, m) = At(p, Tail(s), h + k)
      BY <2>2, <2>4, <2>6 DEF Onward, At
    <3> QED BY <2>1, <2>5, <3>1
  <2>7. CASE Head(s) = ".." /\ Head(s) \notin Noise
    <3>1. /\ Onward(f, w) = At(Parent(p), Tail(s), h)
          /\ Onward(f, m) = At(Parent(p), Tail(s), h + k)
      BY <2>2, <2>4, <2>7 DEF Onward, At
    <3> QED BY <2>1, <2>5, <3>1
  <2>8. CASE Head(s) \notin Noise \cup {".."} /\ f[Under(w)].kind # "link"
    <3>1. /\ Onward(f, w) = At(Under(w), Tail(s), h)
          /\ Onward(f, m) = At(Under(w), Tail(s), h + k)
      BY <1>2, <2>2, <2>4, <2>8 DEF Onward, At
    <3> QED BY <2>1, <2>5, <3>1
  <2>9. CASE Head(s) \notin Noise \cup {".."} /\ f[Under(w)].kind = "link"
    <3> DEFINE target == f[Under(w)].target
               at == IF Head(target) = "" THEN << >> ELSE p
    <3>1. /\ Onward(f, w) = At(at, target \o Tail(s), h - 1)
          /\ Onward(f, m) = At(at, target \o Tail(s), h + k - 1)
      <4>1. Onward(f, w) = At(at, target \o Tail(s), h - 1)
        BY <2>3, <2>9 DEF Onward, At
      <4>2. m.at = p /\ m.todo = s /\ m.hops = h + k /\ Under(m) = Under(w)
        BY <1>2, <2>3
      <4>3. Onward(f, m) = At(at, target \o Tail(s), m.hops - 1)
        BY <4>2, <2>9 DEF Onward, At
      <4> HIDE DEF at, target
      <4> QED BY <4>1, <4>2, <4>3
    <3>2. h + k - 1 = h - 1 + k
      BY <2>3
    <3> HIDE DEF at, target
    <3> QED BY <2>1, <2>5, <3>1, <3>2
  <2> QED BY <2>1, <2>6, <2>7, <2>8, <2>9
<1> QED BY <1>2, <1>3, <1>4 DEF m

LEMMA MoreHops ==
  ASSUME NEW f, IsTree(f), NEW k \in Nat, NEW w \in Walkers(f), w.hops + k \in 0 .. Hops,
         End(f, Walk(f, w)) # "error"
  PROVE  LET u == Walk(f, w) IN
         Walk(f, More(w, k)) = More(u, k) /\ End(f, More(u, k)) = End(f, u)
<1> DEFINE Good(v) ==
             v.hops + k \in 0 .. Hops /\ End(f, Walk(f, v)) # "error" =>
               /\ Walk(f, More(v, k)) = More(Walk(f, v), k)
               /\ End(f, More(Walk(f, v), k)) = End(f, Walk(f, v))
           G == {v \in Walkers(f) : Good(v)}
<1>1. ASSUME NEW v \in Walkers(f), Ended(f, v) PROVE v \in G
  <2> SUFFICES ASSUME v.hops + k \in 0 .. Hops, End(f, Walk(f, v)) # "error" PROVE Good(v)
    OBVIOUS
  <2>1. Walk(f, v) = v
    BY <1>1, WalkStep
  <2>2. More(v, k) \in Walkers(f) /\ End(f, More(v, k)) = End(f, v)
    BY <1>1, <2>1, MoreStep
  <2>3. Walk(f, More(v, k)) = More(v, k)
    BY <1>1, <2>2, WalkStep DEF Ended
  <2> QED BY <2>1, <2>2, <2>3
<1>2. ASSUME NEW v \in Walkers(f), ~Ended(f, v), Onward(f, v) \in G PROVE v \in G
  <2> SUFFICES ASSUME v.hops + k \in 0 .. Hops, End(f, Walk(f, v)) # "error" PROVE Good(v)
    OBVIOUS
  <2> DEFINE o == Onward(f, v)
  <2>1. Walk(f, v) = Walk(f, o)
    BY <1>2, WalkStep
  <2>2. /\ More(v, k) \in Walkers(f) /\ ~Ended(f, More(v, k))
        /\ Onward(f, More(v, k)) = More(o, k)
    BY <1>2, MoreStep
  <2>3. Walk(f, More(v, k)) = Walk(f, More(o, k))
    BY <2>2, WalkStep
  <2>4. o \in Walkers(f) /\ (o.hops = v.hops \/ o.hops = v.hops - 1)
    BY <1>2, OnwardTyped
  <2>5. v.hops \in 0 .. Hops /\ o.hops \in 0 .. Hops
    BY <2>4 DEF Walkers
  <2>6. o.hops + k \in 0 .. Hops
    BY <2>4, <2>5, HopsAssumption
  <2> HIDE DEF o
  <2>7. Good(o)
    BY <1>2 DEF o
  <2> QED BY <2>1, <2>3, <2>6, <2>7
<1> HIDE DEF G
<1>3. \A v \in Walkers(f) : v \in G
  BY <1>1, <1>2, WalkInduction
<1> QED BY <1>3 DEF G

-----------------------------------------------------------------------------
(* Paths, from the root. *)
Start(text) == At(<< >>, text, Hops)
Missing(f, p, e) == End(f, Walk(f, At(p, <<e>>, Hops))) = "missing"

LEMMA EndKinds ==
  ASSUME NEW f, NEW w
  PROVE  /\ End(f, w) = "found" <=> w.todo = << >>
         /\ End(f, w) \in {"found", "missing", "error", "none"}
BY DEF End

LEMMA EvalTyped ==
  ASSUME NEW f, IsTree(f), NEW text \in Seq(Elements)
  PROVE  /\ Start(text) \in Walkers(f) /\ EvalSymlinks(f, text) = Walk(f, Start(text))
         /\ EvalSymlinks(f, text) \in Walkers(f) /\ Ended(f, EvalSymlinks(f, text))
         /\ f[EvalSymlinks(f, text).at].kind # "link"
<1>1. << >> \in DOMAIN f /\ f[<< >>].kind # "link"
  BY DEF IsTree, Dir
<1>2. Start(text) \in Walkers(f) /\ Start(text).at = << >>
  BY <1>1, HopsAssumption DEF Start, At, Walkers
<1>3. EvalSymlinks(f, text) = Walk(f, Start(text))
  BY DEF EvalSymlinks, Start, At
<1> QED BY <1>1, <1>2, <1>3, WalkEnds

LEMMA EvalConcat ==
  ASSUME NEW f, IsTree(f), NEW s \in Seq(Elements), NEW t \in Seq(Elements)
  PROVE  LET u == EvalSymlinks(f, s) IN
         /\ EvalSymlinks(f, s \o t) = Walk(f, Longer(u, t))
         /\ u.todo # << >> =>
              EvalSymlinks(f, s \o t) = Longer(u, t) /\ End(f, Longer(u, t)) = End(f, u)
<1>1. s \o t \in Seq(Elements)
  BY ConcatProperties
<1>2. Longer(Start(s), t) = Start(s \o t)
  BY LongerAt DEF Start
<1>3. Start(s) \in Walkers(f) /\ EvalSymlinks(f, s) = Walk(f, Start(s))
  BY EvalTyped
<1>4. EvalSymlinks(f, s \o t) = Walk(f, Start(s \o t))
  BY <1>1, EvalTyped
<1> DEFINE w == Start(s)
           u == Walk(f, w)
<1> HIDE DEF w
<1>5. /\ Walk(f, Longer(w, t)) = Walk(f, Longer(u, t))
      /\ u.todo # << >> =>
           Walk(f, Longer(w, t)) = Longer(u, t) /\ End(f, Longer(u, t)) = End(f, u)
  <2>1. w \in Walkers(f)
    BY <1>3 DEF w
  <2> QED BY <2>1, OneAfterTheOther
<1> QED BY <1>2, <1>3, <1>4, <1>5 DEF w

(* One name further. *)
LEMMA OneName ==
  ASSUME NEW f, IsTree(f), NEW p \in DOMAIN f, NEW e \in Elements, NEW h \in 0 .. Hops
  PROVE  LET w == At(p, <<e>>, h)
             u == Walk(f, w) IN
         /\ w \in Walkers(f) /\ w.todo # << >> /\ Under(w) = Append(p, e)
         /\ f[p] # Dir => End(f, u) = "error"
         /\ f[p] = Dir /\ e \in Noise => u = At(p, << >>, h)
         /\ f[p] = Dir /\ e \in Proper /\ Append(p, e) \notin DOMAIN f
              => u = w /\ End(f, u) = "missing"
         /\ f[p] = Dir /\ e \in Proper /\ Append(p, e) \in DOMAIN f
              /\ f[Append(p, e)].kind # "link" => u = At(Append(p, e), << >>, h)
<1> DEFINE w == At(p, <<e>>, h)
           u == Walk(f, w)
           next == Append(p, e)
<1>1. /\ w \in Walkers(f) /\ w.todo # << >> /\ Under(w) = next
      /\ Head(w.todo) = e /\ Tail(w.todo) = << >> /\ w.at = p /\ w.hops = h
  BY DEF At, Walkers, Under
<1>2. u = IF Ended(f, w) THEN w ELSE Walk(f, Onward(f, w))
  BY <1>1, WalkStep
<1>3. ASSUME NEW q \in DOMAIN f PROVE Walk(f, At(q, << >>, h)) = At(q, << >>, h)
  <2>1. At(q, << >>, h) \in Walkers(f) /\ Ended(f, At(q, << >>, h))
    BY DEF At, Walkers, Ended, End
  <2> QED BY <2>1, WalkStep
<1> HIDE DEF w, u, next
<1>4. ASSUME f[p] # Dir PROVE End(f, u) = "error"
  BY <1>1, <1>2, <1>4 DEF Ended, End
<1>5. ASSUME f[p] = Dir, e \in Noise PROVE u = At(p, << >>, h)
  <2>1. ~Ended(f, w)
    BY <1>1, <1>5 DEF Ended, End
  <2>2. Onward(f, w) = At(p, << >>, h)
    BY <1>1, <1>5 DEF Onward, w, At
  <2> QED BY <1>2, <1>3, <2>1, <2>2
<1>6. ASSUME f[p] = Dir, e \in Proper, next \notin DOMAIN f
      PROVE  u = w /\ End(f, u) = "missing"
  <2>1. End(f, w) = "missing"
    BY <1>1, <1>6 DEF End, Proper
  <2> QED BY <1>2, <2>1 DEF Ended
<1>7. ASSUME f[p] = Dir, e \in Proper, next \in DOMAIN f, f[next].kind # "link"
      PROVE  u = At(next, << >>, h)
  <2>1. ~Ended(f, w)
    BY <1>1, <1>7 DEF Ended, End, Proper
  <2>2. Onward(f, w) = At(next, << >>, h)
    <3>1. e \notin Noise /\ e # ".."
      BY <1>7 DEF Proper
    <3> QED BY <1>1, <1>7, <3>1 DEF Onward, w, At
  <2> QED BY <1>2, <1>3, <1>7, <2>1, <2>2
<1> QED BY <1>1, <1>4, <1>5, <1>6, <1>7 DEF w, u, next

(* What is there and is no link is found under its own path. *)
LEMMA StandsThere ==
  ASSUME NEW f, IsTree(f), NEW p \in DOMAIN f, f[p].kind # "link"
  PROVE  p \in Seq(Proper) /\ EvalSymlinks(f, p) = At(p, << >>, Hops)
<1> DEFINE G == {q \in Seq(Elements) : q \in DOMAIN f /\ f[q].kind # "link" =>
                   q \in Seq(Proper) /\ EvalSymlinks(f, q) = At(q, << >>, Hops)}
<1>1. << >> \in G
  <2>1. << >> \in Seq(Elements) /\ << >> \in Seq(Proper)
    BY EmptySeq
  <2>2. Start(<< >>) \in Walkers(f) /\ EvalSymlinks(f, << >>) = Walk(f, Start(<< >>))
    BY <2>1, EvalTyped
  <2>3. Ended(f, Start(<< >>))
    BY DEF Ended, End, Start, At
  <2>4. EvalSymlinks(f, << >>) = At(<< >>, << >>, Hops)
    BY <2>2, <2>3, WalkStep DEF Start
  <2> QED BY <2>1, <2>4
<1>2. ASSUME NEW q \in Seq(Elements), NEW e \in Elements, q \in G
      PROVE  Append(q, e) \in G
  <2> DEFINE a == Append(q, e)
  <2>1. a \in Seq(Elements) /\ a # << >> /\ Front(a) = q /\ Last(a) = e /\ a = q \o <<e>>
    BY TakenApart, AppendIsConcat
  <2> SUFFICES ASSUME a \in DOMAIN f, f[a].kind # "link"
               PROVE  a \in Seq(Proper) /\ EvalSymlinks(f, a) = At(a, << >>, Hops)
    BY <2>1
  <2>2. q \in DOMAIN f /\ f[q] = Dir /\ e \in Proper
    BY <2>1 DEF IsTree, Proper
  <2>3. f[q].kind # "link"
    BY <2>2 DEF Dir
  <2>4. q \in Seq(Proper) /\ EvalSymlinks(f, q) = At(q, << >>, Hops)
    BY <1>2, <2>2, <2>3
  <2>5. a \in Seq(Proper)
    BY <2>2, <2>4, AppendProperties
  <2>6. Longer(At(q, << >>, Hops), <<e>>) = At(q, <<e>>, Hops)
    <3>1. <<e>> \in Seq(Elements)
      OBVIOUS
    <3> QED BY <3>1, LongerFromHere
  <2>7. EvalSymlinks(f, a) = Walk(f, At(q, <<e>>, Hops))
    <3>1. <<e>> \in Seq(Elements)
      OBVIOUS
    <3>2. EvalSymlinks(f, q \o <<e>>) = Walk(f, Longer(EvalSymlinks(f, q), <<e>>))
      BY <3>1, EvalConcat
    <3> HIDE DEF a
    <3> QED BY <2>1, <2>4, <2>6, <3>2
  <2>8. Hops \in 0 .. Hops
    BY HopsAssumption
  <2>9. Walk(f, At(q, <<e>>, Hops)) = At(a, << >>, Hops)
    BY <2>2, <2>8, OneName
  <2> QED BY <2>5, <2>7, <2>9
<1> HIDE DEF G
<1>3. \A q \in Seq(Elements) : q \in G
  BY <1>1, <1>2, TextInduction
<1>4. p \in Seq(Elements)
  BY DEF IsTree
<1> QED BY <1>3, <1>4 DEF G

(* From what is there, the rest is read. *)
LEMMA ReadFromThere ==
  ASSUME NEW f, IsTree(f), NEW p \in DOMAIN f, f[p].kind # "link", NEW t \in Seq(Elements)
  PROVE  EvalSymlinks(f, p \o t) = Walk(f, At(p, t, Hops)) /\ At(p, t, Hops) \in Walkers(f)
<1>1. p \in Seq(Elements)
  BY DEF IsTree
<1>2. EvalSymlinks(f, p \o t) = Walk(f, Longer(At(p, << >>, Hops), t))
  BY <1>1, StandsThere, EvalConcat
<1>3. Longer(At(p, << >>, Hops), t) = At(p, t, Hops)
  BY LongerFromHere
<1>4. At(p, t, Hops) \in Walkers(f)
  BY HopsAssumption DEF At, Walkers
<1> QED BY <1>2, <1>3, <1>4

(* Repeated slashes and dots do not matter to a walk that does not fail. *)
LEMMA NoiseAside ==
  ASSUME NEW f, IsTree(f), NEW text \in Seq(Elements), End(f, EvalSymlinks(f, text)) # "error"
  PROVE  LET u == EvalSymlinks(f, text)
             v == EvalSymlinks(f, Kept(text)) IN
         v.at = u.at /\ v.hops = u.hops /\ End(f, v) = End(f, u) /\ Kept(v.todo) = Kept(u.todo)
<1> DEFINE Same(u, v) ==
             v.at = u.at /\ v.hops = u.hops /\ End(f, v) = End(f, u) /\ Kept(v.todo) = Kept(u.todo)
           G == {t \in Seq(Elements) : End(f, EvalSymlinks(f, t)) # "error" =>
                   Same(EvalSymlinks(f, t), EvalSymlinks(f, Kept(t)))}
<1>1. << >> \in G
  BY KeptStep, EmptySeq
<1>2. ASSUME NEW t \in Seq(Elements), NEW e \in Elements, t \in G
      PROVE  Append(t, e) \in G
  <2> DEFINE a == Append(t, e)
             k == Kept(t)
             u == EvalSymlinks(f, t)
             v == EvalSymlinks(f, k)
  <2>1. <<e>> \in Seq(Elements)
    OBVIOUS
  <2>2. a \in Seq(Elements) /\ a = t \o <<e>> /\ k \in Seq(Elements)
    BY KeptStep, AppendProperties, AppendIsConcat
  <2>3. Kept(a) = IF e \in Noise THEN k ELSE k \o <<e>>
    <3>1. Kept(a) = IF e \in Noise THEN k ELSE Append(k, e)
      BY KeptStep
    <3> QED BY <2>2, <3>1, AppendIsConcat
  <2>4. /\ u \in Walkers(f) /\ Ended(f, u) /\ v \in Walkers(f) /\ Ended(f, v)
        /\ f[u.at].kind # "link"
    BY <2>2, EvalTyped
  <2> SUFFICES ASSUME End(f, EvalSymlinks(f, a)) # "error"
               PROVE  Same(EvalSymlinks(f, a), EvalSymlinks(f, Kept(a)))
    BY <2>2
  <2>5. /\ EvalSymlinks(f, a) = Walk(f, Longer(u, <<e>>))
        /\ u.todo # << >> => EvalSymlinks(f, a) = Longer(u, <<e>>)
                             /\ End(f, Longer(u, <<e>>)) = End(f, u)
    <3>1. EvalSymlinks(f, t \o <<e>>) = Walk(f, Longer(u, <<e>>))
      BY <2>1, EvalConcat
    <3>2. u.todo # << >> => EvalSymlinks(f, t \o <<e>>) = Longer(u, <<e>>)
                            /\ End(f, Longer(u, <<e>>)) = End(f, u)
      BY <2>1, EvalConcat
    <3> HIDE DEF a, u
    <3> QED BY <2>2, <3>1, <3>2
  <2>6. /\ EvalSymlinks(f, k \o <<e>>) = Walk(f, Longer(v, <<e>>))
        /\ v.todo # << >> => EvalSymlinks(f, k \o <<e>>) = Longer(v, <<e>>)
                             /\ End(f, Longer(v, <<e>>)) = End(f, v)
    <3> HIDE DEF k
    <3>1. k \in Seq(Elements)
      BY <2>2
    <3> QED BY <2>1, <3>1, EvalConcat
  <2>7. Same(u, v)
    <3>1. End(f, u) # "error"
      <4>1. CASE u.todo = << >>
        BY <4>1, EndKinds
      <4>2. CASE u.todo # << >>
        <5> HIDE DEF u, a
        <5> QED BY <2>5, <4>2
      <4> QED BY <4>1, <4>2
    <3> QED BY <1>2, <3>1
  <2>8. /\ Longer(u, <<e>>) = At(u.at, u.todo \o <<e>>, u.hops)
        /\ Longer(v, <<e>>) = At(v.at, v.todo \o <<e>>, v.hops)
        /\ u.todo \in Seq(Elements) /\ v.todo \in Seq(Elements)
    BY <2>4 DEF Longer, Walkers
  <2>9. u.todo = << >> <=> v.todo = << >>
    <3> HIDE DEF u, v
    <3>1. End(f, u) = End(f, v)
      BY <2>7
    <3> QED BY <3>1, EndKinds
  <2> HIDE DEF u, v, k, a
  <2>10. CASE u.todo = << >>
    <3>1. v = u
      BY <2>4, <2>7, <2>9, <2>10 DEF Walkers
    <3>2. CASE e \notin Noise
      BY <2>3, <2>5, <2>6, <3>1, <3>2
    <3>3. CASE e \in Noise
      <4>1. Longer(u, <<e>>) = At(u.at, <<e>>, u.hops)
        <5>1. u.todo \o <<e>> = <<e>>
          BY <2>1, <2>10, ConcatEmptySeq
        <5> QED BY <2>8, <5>1
      <4>2. EvalSymlinks(f, a) = At(u.at, << >>, u.hops)
        <5>1. u.at \in DOMAIN f /\ u.hops \in 0 .. Hops
          BY <2>4 DEF Walkers
        <5>2. EvalSymlinks(f, a) = Walk(f, At(u.at, <<e>>, u.hops))
          BY <2>5, <4>1
        <5> QED BY <3>3, <5>1, <5>2, OneName
      <4>3. u = At(u.at, << >>, u.hops)
        BY <2>4, <2>10 DEF At, Walkers
      <4> QED BY <2>3, <2>7, <3>1, <3>3, <4>2, <4>3 DEF v
    <3> QED BY <3>2, <3>3
  <2>11. CASE u.todo # << >>
    <3>1. /\ EvalSymlinks(f, a) = Longer(u, <<e>>) /\ End(f, Longer(u, <<e>>)) = End(f, u)
          /\ EvalSymlinks(f, k \o <<e>>) = Longer(v, <<e>>)
          /\ End(f, Longer(v, <<e>>)) = End(f, v)
      BY <2>5, <2>6, <2>9, <2>11
    <3>2. /\ u.todo \o <<e>> = Append(u.todo, e) /\ v.todo \o <<e>> = Append(v.todo, e)
      BY <2>8, AppendIsConcat
    <3>3. /\ Kept(u.todo \o <<e>>) = IF e \in Noise THEN Kept(u.todo) ELSE Append(Kept(u.todo), e)
          /\ Kept(v.todo \o <<e>>) = IF e \in Noise THEN Kept(v.todo) ELSE Append(Kept(v.todo), e)
      BY <2>8, <3>2, KeptStep
    <3>4. /\ Longer(u, <<e>>).at = u.at /\ Longer(u, <<e>>).hops = u.hops
          /\ Longer(u, <<e>>).todo = u.todo \o <<e>>
          /\ Longer(v, <<e>>).at = v.at /\ Longer(v, <<e>>).hops = v.hops
          /\ Longer(v, <<e>>).todo = v.todo \o <<e>>
      BY <2>1, <2>4, LongerTyped
    <3>5. CASE e \in Noise
      <4>1. EvalSymlinks(f, Kept(a)) = v
        BY <2>3, <3>5 DEF v
      <4> QED BY <2>7, <3>1, <3>3, <3>4, <3>5, <4>1
    <3>6. CASE e \notin Noise
      <4>1. EvalSymlinks(f, Kept(a)) = Longer(v, <<e>>)
        BY <2>3, <3>1, <3>6
      <4> QED BY <2>7, <3>1, <3>3, <3>4, <3>6, <4>1
    <3> QED BY <3>5, <3>6
  <2> QED BY <2>10, <2>11
<1> HIDE DEF G
<1>3. \A t \in Seq(Elements) : t \in G
  BY <1>1, <1>2, TextInduction
<1> QED BY <1>3 DEF G

-----------------------------------------------------------------------------
(* A path that can be read on from something that is there: rest is still   *)
(* to be read, and the next name in it leads to nothing.                    *)
Settles(f, path, rest) ==
  \E p \in DOMAIN f, r \in Seq(Proper) :
    /\ f[p].kind # "link" /\ path = p \o r
    /\ r \o rest # << >> => Missing(f, p, Head(r \o rest))
Settled(f, path) == Settles(f, path, << >>)

LEMMA ProperElements ==
  ASSUME NEW t \in Seq(Proper)
  PROVE  t \in Seq(Elements) /\ ".." \notin ToSet(t)
<1>1. \A i \in DOMAIN t : t[i] \in Proper
  BY LenProperties, ElementOfSeq
<1> QED BY <1>1, SeqMonotonic DEF Proper, ToSet

LEMMA HeadAgain ==
  ASSUME NEW E, NEW t \in Seq(E), t # << >>
  PROVE  Head(t) \in E /\ Tail(t) \in Seq(E) /\ t = <<Head(t)>> \o Tail(t)
<1>1. Head(t) \in E /\ Tail(t) \in Seq(E) /\ Head(t) = t[1]
  BY HeadTailProperties
<1>2. Len(t) \in Nat /\ Len(t) # 0
  BY EmptySeq
<1>3. SubSeq(t, 1, Len(t)) = <<t[1]>> \o SubSeq(t, 2, Len(t))
  <2>1. 1 \in 1 .. Len(t) /\ Len(t) \in 1 .. Len(t) /\ 1 + 1 = 2
    BY <1>2
  <2> QED BY <2>1, SubSeqRecursiveFirst
<1> QED BY <1>1, <1>3, SubSeqFull, TailIsSubSeq

(* Nothing is found behind a name that leads to nothing. *)
LEMMA NothingBehind ==
  ASSUME NEW f, IsTree(f), NEW p \in DOMAIN f, f[p].kind # "link",
         NEW t \in Seq(Elements), t # << >>, Missing(f, p, Head(t))
  PROVE  /\ End(f, EvalSymlinks(f, p \o t)) = "missing"
         /\ Walk(f, At(p, <<Head(t)>>, Hops)) = At(p, <<Head(t)>>, Hops)
              => EvalSymlinks(f, p \o t) = At(p, t, Hops)
<1> DEFINE e == Head(t)
           w == At(p, <<e>>, Hops)
           u == Walk(f, w)
<1>1. e \in Elements /\ Tail(t) \in Seq(Elements) /\ t = <<e>> \o Tail(t)
  BY HeadAgain
<1>2. w \in Walkers(f) /\ Longer(w, Tail(t)) = At(p, t, Hops)
  <2>1. Longer(w, Tail(t)) = At(p, <<e>> \o Tail(t), Hops)
    BY LongerAt
  <2>2. w \in Walkers(f)
    BY <1>1, HopsAssumption DEF At, Walkers
  <2> HIDE DEF e, w
  <2> QED BY <1>1, <2>1, <2>2
<1>3. End(f, u) = "missing" /\ u.todo # << >>
  <2>1. End(f, u) = "missing"
    BY DEF Missing
  <2> HIDE DEF u
  <2> QED BY <2>1, EndKinds
<1>4. EvalSymlinks(f, p \o t) = Walk(f, At(p, t, Hops))
  BY ReadFromThere
<1> HIDE DEF e, w
<1>5. Walk(f, Longer(w, Tail(t))) = Longer(u, Tail(t)) /\ End(f, Longer(u, Tail(t))) = End(f, u)
  BY <1>1, <1>2, <1>3, OneAfterTheOther
<1>6. EvalSymlinks(f, p \o t) = Longer(u, Tail(t))
  BY <1>2, <1>4, <1>5
<1>7. End(f, EvalSymlinks(f, p \o t)) = "missing"
  BY <1>3, <1>5, <1>6
<1>8. u = w => EvalSymlinks(f, p \o t) = At(p, t, Hops)
  BY <1>2, <1>6
<1> QED BY <1>7, <1>8 DEF w, e

(* Where no link leads to nothing, a settled path is its own place. *)
LEMMA SettledIsPlace ==
  ASSUME NEW f, IsTree(f), NEW path, Settled(f, path), ~Dangles(f)
  PROVE  Place(f, path) = Path(path)
<1>1. PICK p \in DOMAIN f, r \in Seq(Proper) :
        /\ f[p].kind # "link" /\ path = p \o r
        /\ r \o << >> # << >> => Missing(f, p, Head(r \o << >>))
  BY DEF Settled, Settles
<1>2. r \in Seq(Elements) /\ r \o << >> = r /\ p \in Seq(Elements)
  BY ProperElements, ConcatEmptySeq DEF IsTree
<1>3. Kept(r) = r
  BY <1>2, ProperElements, CleanIsKept, CleanProper
<1>4. EvalSymlinks(f, path) = At(p, r, Hops) /\ End(f, At(p, r, Hops)) # "error"
  <2>1. CASE r = << >>
    <3>1. path = p
      BY <1>1, <1>2, <2>1, ConcatEmptySeq
    <3>2. EvalSymlinks(f, p) = At(p, << >>, Hops)
      BY <1>1, StandsThere
    <3>3. End(f, At(p, << >>, Hops)) = "found"
      BY DEF At, End
    <3> QED BY <2>1, <3>1, <3>2, <3>3
  <2>2. CASE r # << >>
    <3> DEFINE e == Head(r)
               w == At(p, <<e>>, Hops)
               next == Append(p, e)
    <3>1. e \in Proper /\ e \in Elements /\ Missing(f, p, e)
      BY <1>1, <1>2, <2>2, HeadTailProperties DEF Proper
    <3>2. Hops \in 0 .. Hops
      BY HopsAssumption
    <3>3. f[p] = Dir
      BY <3>1, <3>2, OneName DEF Missing
    <3>4. next \notin DOMAIN f
      <4> SUFFICES ASSUME next \in DOMAIN f PROVE FALSE
        OBVIOUS
      <4>1. CASE f[next].kind # "link"
        <5>1. Walk(f, w) = At(next, << >>, Hops)
          BY <3>1, <3>2, <3>3, <4>1, OneName
        <5>2. End(f, At(next, << >>, Hops)) = "found"
          BY DEF At, End
        <5> QED BY <3>1, <5>1, <5>2 DEF Missing
      <4>2. CASE f[next].kind = "link"
        <5>1. next = p \o <<e>>
          BY <1>2, <3>1, AppendIsConcat
        <5>2. EvalSymlinks(f, p \o <<e>>) = Walk(f, w)
          <6> HIDE DEF e
          <6>1. <<e>> \in Seq(Elements)
            BY <3>1
          <6> QED BY <1>1, <6>1, ReadFromThere DEF w
        <5>3. End(f, EvalSymlinks(f, next)) = "missing"
          <6> HIDE DEF next, w
          <6> QED BY <3>1, <5>1, <5>2 DEF Missing, w
        <5> QED BY <4>2, <5>3 DEF Dangles
      <4> QED BY <4>1, <4>2
    <3>5. Walk(f, w) = w
      BY <3>1, <3>2, <3>3, <3>4, OneName
    <3>6. EvalSymlinks(f, p \o r) = At(p, r, Hops) /\ End(f, EvalSymlinks(f, p \o r)) = "missing"
      <4> HIDE DEF next
      <4> QED BY <1>1, <1>2, <2>2, <3>1, <3>5, NothingBehind
    <3> QED BY <1>1, <3>6
  <2> QED BY <2>1, <2>2
<1>5. At(p, r, Hops).at = p /\ At(p, r, Hops).todo = r
  BY DEF At
<1> QED BY <1>1, <1>3, <1>4, <1>5 DEF Place

(* What an iteration of resolveSymlinks returns: the path was found, and    *)
(* with the next name there is nothing.                                     *)
LEMMA Returned ==
  ASSUME NEW f, IsTree(f), NEW path \in Seq(Proper), NEW rest \in Seq(Proper),
         End(f, EvalSymlinks(f, path)) = "found",
         rest # << >> =>
           End(f, EvalSymlinks(f, Append(path, Head(rest)))) = "missing"
  PROVE  LET r == EvalSymlinks(f, path).at \o rest IN
         /\ r \in Seq(Proper) /\ Settled(f, r)
         /\ Place(f, path \o rest) # Error
              => Place(f, r) = Place(f, path \o rest)
<1> DEFINE w == EvalSymlinks(f, path)
           r == w.at \o rest
           k == Hops - w.hops
<1>1. path \in Seq(Elements) /\ rest \in Seq(Elements)
  BY ProperElements
<1>2. w \in Walkers(f) /\ f[w.at].kind # "link"
  BY <1>1, EvalTyped
<1>3. w.at \in DOMAIN f /\ w.hops \in 0 .. Hops /\ w.todo = << >> /\ w = At(w.at, << >>, w.hops)
  BY <1>2, EndKinds DEF Walkers, At
<1>4. k \in Nat /\ w.hops + k = Hops
  BY <1>3, HopsAssumption
<1>5. w.at \in Seq(Proper) /\ r \in Seq(Proper)
  <2>1. w.at \in Seq(Proper)
    BY <1>2, <1>3, StandsThere
  <2> HIDE DEF w
  <2> QED BY <2>1, ConcatProperties
<1> HIDE DEF w, k
<1>6. ASSUME NEW t \in Seq(Elements)
      PROVE  /\ EvalSymlinks(f, path \o t) = Walk(f, At(w.at, t, w.hops))
             /\ At(w.at, t, w.hops) \in Walkers(f)
             /\ More(At(w.at, t, w.hops), k) = At(w.at, t, Hops)
             /\ At(w.at, t, w.hops).hops = w.hops
  <2>1. EvalSymlinks(f, path \o t) = Walk(f, Longer(w, t))
    BY <1>1, EvalConcat DEF w
  <2>2. Longer(At(w.at, << >>, w.hops), t) = At(w.at, t, w.hops)
    BY LongerFromHere
  <2>3. Longer(w, t) = At(w.at, t, w.hops)
    BY <1>3, <2>2
  <2> QED BY <1>3, <1>4, <2>1, <2>3 DEF At, More, Walkers
<1>7. ASSUME NEW t \in Seq(Elements), End(f, EvalSymlinks(f, path \o t)) # "error"
      PROVE  LET u == EvalSymlinks(f, path \o t) IN
             /\ Walk(f, At(w.at, t, Hops)) = More(u, k)
             /\ End(f, More(u, k)) = End(f, u)
  <2> DEFINE v == At(w.at, t, w.hops)
  <2>1. v \in Walkers(f) /\ v.hops + k \in 0 .. Hops
    BY <1>4, <1>6, HopsAssumption
  <2>2. EvalSymlinks(f, path \o t) = Walk(f, v) /\ More(v, k) = At(w.at, t, Hops)
    BY <1>6
  <2> HIDE DEF v
  <2>3. End(f, Walk(f, v)) # "error"
    BY <1>7, <2>2
  <2>4. Walk(f, More(v, k)) = More(Walk(f, v), k) /\ End(f, More(Walk(f, v), k)) = End(f, Walk(f, v))
    BY <1>4, <2>1, <2>3, MoreHops
  <2> QED BY <2>2, <2>4
<1>8. Settled(f, r)
  <2>1. rest \o << >> = rest
    BY ConcatEmptySeq
  <2>2. ASSUME rest # << >> PROVE Missing(f, w.at, Head(rest))
    <3> DEFINE e == Head(rest)
    <3>1. e \in Elements /\ <<e>> \in Seq(Elements)
      BY <1>1, <2>2, HeadTailProperties
    <3>2. Append(path, e) = path \o <<e>>
      BY <1>1, <3>1, AppendIsConcat
    <3> HIDE DEF e
    <3>3. End(f, EvalSymlinks(f, path \o <<e>>)) = "missing"
      BY <2>2, <3>2 DEF e
    <3>4. End(f, Walk(f, At(w.at, <<e>>, Hops))) = "missing"
      BY <1>7, <3>1, <3>3
    <3> QED BY <3>4 DEF Missing, e
  <2> QED BY <1>2, <1>3, <2>1, <2>2 DEF Settled, Settles
<1>9. ASSUME Place(f, path \o rest) # Error
      PROVE  Place(f, r) = Place(f, path \o rest)
  <2> DEFINE u == EvalSymlinks(f, path \o rest)
  <2>1. End(f, u) # "error"
    BY <1>9 DEF Place
  <2>2. Walk(f, At(w.at, rest, Hops)) = More(u, k) /\ End(f, More(u, k)) = End(f, u)
    BY <1>1, <1>7, <2>1
  <2>3. EvalSymlinks(f, r) = More(u, k)
    BY <1>1, <1>2, <1>3, <2>2, ReadFromThere
  <2> HIDE DEF u, r
  <2>4. More(u, k).at = u.at /\ More(u, k).todo = u.todo
    BY DEF More, At
  <2>5. Place(f, r) = Path(u.at \o Kept(u.todo))
    BY <2>1, <2>2, <2>3, <2>4 DEF Place
  <2> QED BY <2>1, <2>5 DEF Place, u
<1> QED BY <1>5, <1>8, <1>9 DEF w
-----------------------------------------------------------------------------
(* A result, given to Path again. *)
LEMMA RootedText ==
  ASSUME NEW d \in Elements, d \in Noise, NEW p \in Seq(Proper)
  PROVE  LET t == <<d>> \o (IF p = << >> THEN <<d>> ELSE p) IN
         /\ t \in Seq(Elements) /\ Clean(t) = p
         /\ Head(t) = d /\ Len(t) > 1 /\ ".." \notin ToSet(t)
<1> DEFINE one == <<d>>
           rest == IF p = << >> THEN one ELSE p
           t == one \o rest
<1>1. d # ".."
  BY DEF Noise
<1>2. one \in Seq(Elements) /\ Len(one) = 1 /\ one[1] = d /\ ToSet(one) = {d}
  BY DEF ToSet
<1>3. p \in Seq(Elements) /\ ".." \notin ToSet(p) /\ Kept(p) = p
  BY ProperElements, CleanIsKept, CleanProper
<1>4. Kept(one) = << >>
  <2>1. << >> \in Seq(Elements) /\ Append(<< >>, d) = <<d>>
    BY EmptySeq
  <2> QED BY <2>1, KeptStep
<1> HIDE DEF one
<1>5. /\ rest \in Seq(Elements) /\ ".." \notin ToSet(rest) /\ Kept(rest) = p
      /\ Len(rest) \in Nat \ {0}
  <2>1. CASE p = << >>
    <3>1. rest = one
      BY <2>1
    <3> HIDE DEF rest
    <3>2. ".." \notin {d} /\ Len(one) \in Nat \ {0}
      BY <1>1, <1>2
    <3> QED BY <1>2, <1>4, <2>1, <3>1, <3>2, Zenon
  <2>2. CASE p # << >>
    <3>1. rest = p
      BY <2>2
    <3>2. Len(p) \in Nat \ {0}
      BY <1>3, <2>2, EmptySeq, LenProperties
    <3> HIDE DEF rest
    <3> QED BY <1>3, <3>1, <3>2, Zenon
  <2> QED BY <2>1, <2>2
<1> HIDE DEF rest
<1>6. /\ t \in Seq(Elements) /\ Len(t) = Len(one) + Len(rest)
      /\ \A i \in 1 .. Len(one) + Len(rest) :
           t[i] = IF i <= Len(one) THEN one[i] ELSE rest[i - Len(one)]
  BY <1>2, <1>5, ConcatProperties
<1> HIDE DEF t
<1>7. /\ Len(t) = 1 + Len(rest) /\ DOMAIN t = 1 .. 1 + Len(rest)
      /\ t[1] = d /\ \A i \in 2 .. 1 + Len(rest) : t[i] = rest[i - 1]
  <2>1. Len(t) = 1 + Len(rest) /\ DOMAIN t = 1 .. Len(t)
    BY <1>2, <1>6, LenProperties
  <2> QED BY <1>2, <1>5, <1>6, <2>1
<1>8. Head(t) = d /\ Len(t) > 1
  <2>1. t # << >>
    BY <1>5, <1>7, EmptySeq
  <2> QED BY <1>5, <1>6, <1>7, <2>1, HeadTailProperties
<1>9. ".." \notin ToSet(t)
  <2> SUFFICES ASSUME NEW i \in 1 .. 1 + Len(rest), t[i] = ".." PROVE FALSE
    BY <1>7 DEF ToSet
  <2>1. i # 1
    BY <1>1, <1>7
  <2>2. i \in 2 .. 1 + Len(rest) /\ i - 1 \in 1 .. Len(rest)
    BY <1>5, <2>1
  <2>3. rest[i - 1] = ".." /\ DOMAIN rest = 1 .. Len(rest)
    BY <1>5, <1>7, <2>2, LenProperties
  <2> QED BY <1>5, <2>2, <2>3 DEF ToSet
<1>10. Clean(t) = p
  <2>1. Clean(t) = Kept(t)
    BY <1>6, <1>9, CleanIsKept
  <2>2. Kept(t) = Kept(one) \o Kept(rest)
    BY <1>2, <1>5, KeptConcat DEF t
  <2>3. << >> \o p = p
    BY ConcatEmptySeq
  <2> QED BY <1>4, <1>5, <2>1, <2>2, <2>3
<1> QED BY <1>6, <1>8, <1>9, <1>10 DEF t, rest, one

LEMMA SpelledText ==
  ASSUME NEW p \in Seq(Proper)
  PROVE  LET t == <<"">> \o Spelled(p) IN
         /\ t \in Seq(Elements) /\ Clean(t) = p
         /\ Head(t) = "" /\ Len(t) > 1 /\ t # <<"">> /\ ".." \notin ToSet(t)
<1> DEFINE d == ""
           t == <<d>> \o (IF p = << >> THEN <<d>> ELSE p)
<1>1. d \in Elements /\ d \in Noise
  BY SpellingAssumption DEF Noise
<1>2. t = <<"">> \o Spelled(p)
  BY DEF Spelled
<1>3. Len(<<d>>) = 1
  <2> HIDE DEF d
  <2> QED OBVIOUS
<1> HIDE DEF d
<1>4. t \in Seq(Elements) /\ Clean(t) = p /\ Head(t) = d /\ Len(t) > 1 /\ ".." \notin ToSet(t)
  BY <1>1, RootedText
<1> HIDE DEF t
<1>5. t # <<d>>
  BY <1>3, <1>4
<1> QED BY <1>2, <1>4, <1>5 DEF d

(* What can be read on from something that is there is found as it stands,  *)
(* or else the name cut off it is among those that lead to nothing.         *)
LEMMA SettledStep ==
  ASSUME NEW f, IsTree(f), NEW path, NEW rest \in Seq(Proper), Settles(f, path, rest)
  PROVE  LET w == EvalSymlinks(f, path) IN
         /\ End(f, w) \in {"found", "missing"}
         /\ End(f, w) = "found" => w.at = path
         /\ End(f, w) = "missing" => Settles(f, Front(path), <<Last(path)>> \o rest)
<1>1. PICK p \in DOMAIN f, r \in Seq(Proper) :
        /\ f[p].kind # "link" /\ path = p \o r
        /\ r \o rest # << >> => Missing(f, p, Head(r \o rest))
  BY DEF Settles
<1>2. p \in Seq(Proper)
  BY <1>1, StandsThere
<1>3. CASE r = << >>
  <2>1. path = p
    BY <1>1, <1>2, <1>3, ConcatEmptySeq
  <2>2. EvalSymlinks(f, path) = At(path, << >>, Hops)
    BY <1>1, <2>1, StandsThere
  <2> QED BY <2>2 DEF At, End
<1>4. CASE r # << >>
  <2>1. r \o rest # << >> /\ Head(r \o rest) = Head(r)
    BY <1>4, HeadTailConcat
  <2>2. End(f, EvalSymlinks(f, path)) = "missing"
    BY <1>1, <1>4, <2>1, ProperElements, NothingBehind
  <2>3. PICK s \in Seq(Proper), x \in Proper : r = Append(s, x)
    BY <1>4, SequenceEmptyOrAppend
  <2>4. path = Append(p \o s, x) /\ p \o s \in Seq(Proper)
    BY <1>1, <1>2, <2>3, AppendConcat, ConcatProperties
  <2>5. Front(path) = p \o s /\ Last(path) = x
    BY <2>4, TakenApart
  <2>6. s \o (<<x>> \o rest) = r \o rest
    <3>1. <<x>> \in Seq(Proper) /\ r = s \o <<x>>
      BY <2>3, AppendIsConcat
    <3> QED BY <3>1, ConcatAssociative
  <2>7. Settles(f, Front(path), <<Last(path)>> \o rest)
    BY <1>1, <2>5, <2>6 DEF Settles
  <2> QED BY <2>2, <2>7
<1> QED BY <1>3, <1>4
-----------------------------------------------------------------------------
(* The invariant behind PathMeans and CanonIdempotent: while resolveSymlinks*)
(* climbs, what it tries and what it has cut off are the cleaned text, and  *)
(* with the first name cut off there is nothing; what it answers is settled *)
(* and means what the text means; and a result that is canonicalised again  *)
(* stays settled all the way.                                               *)
TypeOK ==
  /\ fs \in FileSystems /\ again \in BOOLEAN
  /\ input.form \in {"path", "uri", "url"} /\ input.text \in Seq(Elements)
  /\ input.form = "url" => input.scheme \in DOMAIN Lower /\ input.authority \in DOMAIN Lower

Climbing ==
  result.kind = "resolving" =>
    /\ input.form # "url" /\ Acceptable(PathText(input))
    /\ current \in Seq(Proper) /\ remainder \in Seq(Proper)
    /\ current \o remainder = Clean(PathText(input))
    /\ remainder # << >> =>
         End(fs, EvalSymlinks(fs, Append(current, Head(remainder)))) = "missing"

Answered ==
  \/ result \in {Idle, Resolving, Error}
  \/ /\ result.path \in Seq(Proper) /\ result = Path(result.path)
     /\ input.form # "url" /\ Settled(fs, result.path) /\ PathMeans
  \/ input.form = "url" /\ result = URL(input)

Repeated ==
  again =>
    /\ input.form = "path"
    /\ \E p \in Seq(Proper) : input.text = <<"">> \o Spelled(p) /\ Settled(fs, p)
    /\ result.kind = "resolving" => Settles(fs, current, remainder)
    /\ result.kind = "path" => result = Path(Clean(input.text))
    /\ result.kind = "error" => ToSet(input.text) \cap Broken # {}

IndInv == TypeOK /\ Climbing /\ Answered /\ Repeated

LEMMA Kinds ==
  /\ Idle.kind = "idle" /\ Resolving.kind = "resolving" /\ Error.kind = "error"
  /\ \A p : Path(p).kind = "path" /\ Path(p).path = p /\ Path(p) # Error
  /\ \A u : URL(u).kind \in {"error", "url"} /\ (URL(u).kind = "error" => URL(u) = Error)
BY DEF Idle, Resolving, Error, Path, URL

LEMMA DecodeTyped ==
  ASSUME NEW t \in Seq(Elements)
  PROVE  Decode(t) \in Seq({e \in Elements : Decoded[e] = <<e>>}) /\ Decode(t) \in Seq(Elements)
<1> DEFINE S == {e \in Elements : Decoded[e] = <<e>>}
<1>1. Decoded \in [Elements -> Seq(S)]
  BY SpellingAssumption
<1>2. S \subseteq Elements
  OBVIOUS
<1> HIDE DEF S
<1>3. Decode(t) \in Seq(S)
  BY <1>1, SpreadStep DEF Decode
<1>4. Decode(t) \in Seq(Elements)
  BY <1>2, <1>3, SeqMonotonic
<1> QED BY <1>3, <1>4 DEF S

LEMMA PathTextTyped ==
  ASSUME TypeOK
  PROVE  PathText(input) \in Seq(Elements)
BY DecodeTyped DEF TypeOK, PathText

LEMMA InitIndInv == Init => IndInv
<1> SUFFICES ASSUME Init PROVE IndInv
  OBVIOUS
<1>1. TypeOK
  BY InputsAssumption DEF Init, TypeOK
<1>2. Climbing /\ Answered /\ Repeated
  BY Kinds DEF Init, Climbing, Answered, Repeated
<1> QED BY <1>1, <1>2 DEF IndInv

(* Where the kernel takes a text does not depend on its slashes and dots. *)
LEMMA PlaceOfClean ==
  ASSUME NEW f, IsTree(f), NEW t \in Seq(Elements), ".." \notin ToSet(t), Place(f, t) # Error
  PROVE  Place(f, Clean(t)) = Place(f, t)
<1>1. Clean(t) = Kept(t)
  BY CleanIsKept
<1>2. End(f, EvalSymlinks(f, t)) # "error"
  BY DEF Place
<1>3. LET u == EvalSymlinks(f, t)
          v == EvalSymlinks(f, Kept(t)) IN
      v.at = u.at /\ End(f, v) = End(f, u) /\ Kept(v.todo) = Kept(u.todo)
  BY <1>2, NoiseAside
<1> QED BY <1>1, <1>2, <1>3 DEF Place

LEMMA RejectKeeps == IndInv /\ Reject => IndInv'
<1> SUFFICES ASSUME IndInv, Reject PROVE IndInv'
  OBVIOUS
<1> USE Kinds DEF IndInv
<1>1. /\ result' = Error /\ UNCHANGED <<fs, input, again>>
  BY DEF Reject
<1>2. TypeOK'
  BY <1>1 DEF TypeOK
<1>3. Climbing' /\ Answered'
  BY <1>1 DEF Climbing, Answered
<1>4. ASSUME again PROVE ToSet(input.text) \cap Broken # {}
  <2>1. input.form = "path" /\ ~Acceptable(input.text)
    BY <1>4 DEF Repeated, Reject, Local, PathText
  <2>2. PICK p \in Seq(Proper) : input.text = <<"">> \o Spelled(p)
    BY <1>4 DEF Repeated
  <2>3. /\ Head(input.text) = "" /\ Len(input.text) > 1 /\ input.text # <<"">>
        /\ ".." \notin ToSet(input.text)
    BY <2>2, SpelledText
  <2> QED BY <2>1, <2>3 DEF Acceptable, HasTraversal
<1>5. Repeated'
  BY <1>1, <1>4 DEF Repeated
<1> QED BY <1>2, <1>3, <1>5

LEMMA EnterKeeps == IndInv /\ Enter => IndInv'
<1> SUFFICES ASSUME IndInv, Enter PROVE IndInv'
  OBVIOUS
<1> USE Kinds DEF IndInv
<1> DEFINE t == PathText(input)
<1>1. /\ result' = Resolving /\ UNCHANGED <<fs, input, again>> /\ current' = Clean(t)
      /\ remainder' = << >> /\ input.form # "url" /\ Acceptable(t)
  BY DEF Enter
<1>2. TypeOK'
  BY <1>1 DEF TypeOK
<1>3. t \in Seq(Elements) /\ PathText(input)' = t
  BY <1>1, PathTextTyped DEF PathText
<1>4. Clean(t) \in Seq(Proper) /\ << >> \in Seq(Proper) /\ Clean(t) \o << >> = Clean(t)
  BY <1>3, CleanTyped, ConcatEmptySeq, EmptySeq
<1>5. Climbing'
  BY <1>1, <1>3, <1>4 DEF Climbing
<1>6. Answered'
  BY <1>1 DEF Answered
<1>7. ASSUME again PROVE Settles(fs, Clean(t), << >>)
  <2>1. PICK p \in Seq(Proper) : input.text = <<"">> \o Spelled(p) /\ Settled(fs, p)
    BY <1>7 DEF Repeated
  <2>2. Clean(input.text) = p
    BY <2>1, SpelledText
  <2>3. t = input.text
    BY <1>7 DEF Repeated, PathText
  <2> QED BY <2>1, <2>2, <2>3 DEF Settled
<1> HIDE DEF t
<1>8. Repeated'
  BY <1>1, <1>7 DEF Repeated
<1> QED BY <1>2, <1>5, <1>6, <1>8

LEMMA ResolveKeeps == IndInv /\ Resolve => IndInv'
<1> SUFFICES ASSUME IndInv, Resolve PROVE IndInv'
  OBVIOUS
<1> USE Kinds DEF IndInv
<1> DEFINE t == PathText(input)
           w == EvalSymlinks(fs, current)
           r == w.at \o remainder
<1>1. /\ result.kind = "resolving" /\ End(fs, w) = "found"
      /\ result' = Path(r) /\ UNCHANGED <<fs, input, again, current, remainder>>
  BY DEF Resolve
<1>2. TypeOK'
  BY <1>1 DEF TypeOK
<1>3. IsTree(fs) /\ t \in Seq(Elements)
  BY PathTextTyped, TreesAssumption DEF TypeOK
<1>4. /\ input.form # "url" /\ Acceptable(t)
      /\ current \in Seq(Proper) /\ remainder \in Seq(Proper)
      /\ current \o remainder = Clean(t)
      /\ remainder # << >> =>
           End(fs, EvalSymlinks(fs, Append(current, Head(remainder)))) = "missing"
  BY <1>1 DEF Climbing
<1>5. /\ r \in Seq(Proper) /\ Settled(fs, r)
      /\ Place(fs, Clean(t)) # Error => Place(fs, r) = Place(fs, Clean(t))
  <2> HIDE DEF t
  <2>1. /\ w.at \o remainder \in Seq(Proper) /\ Settled(fs, w.at \o remainder)
        /\ Place(fs, current \o remainder) # Error
             => Place(fs, w.at \o remainder) = Place(fs, current \o remainder)
    BY <1>1, <1>3, <1>4, Returned
  <2> HIDE DEF w
  <2> QED BY <1>4, <2>1
<1>6. ASSUME Place(fs, t) # Error
      PROVE  Place(fs, r) = Place(fs, t) /\ (~Dangles(fs) => Path(r) = Place(fs, t))
  <2> HIDE DEF t, r
  <2>1. ".." \notin ToSet(t)
    BY <1>4 DEF Acceptable, HasTraversal
  <2>2. Place(fs, r) = Place(fs, t)
    BY <1>3, <1>5, <1>6, <2>1, PlaceOfClean
  <2>3. ~Dangles(fs) => Place(fs, r) = Path(r)
    BY <1>3, <1>5, SettledIsPlace
  <2> QED BY <2>2, <2>3
<1>7. ASSUME again PROVE r = Clean(input.text)
  <2>1. Settles(fs, current, remainder) /\ t = input.text
    BY <1>1, <1>7 DEF Repeated, PathText
  <2> HIDE DEF t
  <2>2. w.at = current
    BY <1>1, <1>3, <1>4, <2>1, SettledStep
  <2> QED BY <1>4, <2>1, <2>2
<1>8. t' = t
  BY <1>1 DEF PathText
<1> HIDE DEF t, r
<1>9. /\ result'.kind = "path" /\ result'.path = r /\ fs' = fs
      /\ PathText(input)' = t
  BY <1>1, <1>8 DEF t
<1>10. PathMeans'
  BY <1>1, <1>6, <1>9 DEF PathMeans, t
<1>11. Climbing' /\ Answered'
  BY <1>1, <1>4, <1>5, <1>9, <1>10 DEF Climbing, Answered
<1>12. Repeated'
  BY <1>1, <1>7, <1>9 DEF Repeated
<1> QED BY <1>2, <1>11, <1>12
LEMMA UnresolvableKeeps == IndInv /\ Unresolvable => IndInv'
<1> SUFFICES ASSUME IndInv, Unresolvable PROVE IndInv'
  OBVIOUS
<1> USE Kinds DEF IndInv
<1>1. /\ result.kind = "resolving" /\ End(fs, EvalSymlinks(fs, current)) = "error"
      /\ result' = Error /\ UNCHANGED <<fs, input, again, current, remainder>>
  BY DEF Unresolvable
<1>2. TypeOK' /\ Climbing' /\ Answered'
  BY <1>1 DEF TypeOK, Climbing, Answered
<1>3. ASSUME again PROVE FALSE
  <2>1. IsTree(fs) /\ remainder \in Seq(Proper) /\ Settles(fs, current, remainder)
    BY <1>1, <1>3, TreesAssumption DEF TypeOK, Climbing, Repeated
  <2>2. End(fs, EvalSymlinks(fs, current)) \in {"found", "missing"}
    BY <2>1, SettledStep
  <2> QED BY <1>1, <2>2
<1>4. Repeated'
  BY <1>1, <1>3 DEF Repeated
<1> QED BY <1>2, <1>4

LEMMA ClimbKeeps == IndInv /\ Climb => IndInv'
<1> SUFFICES ASSUME IndInv, Climb PROVE IndInv'
  OBVIOUS
<1> USE Kinds DEF IndInv
<1> DEFINE c == Front(current)
           e == Last(current)
           r == <<e>> \o remainder
<1>1. /\ result.kind = "resolving" /\ End(fs, EvalSymlinks(fs, current)) = "missing"
      /\ current' = c /\ remainder' = r /\ UNCHANGED <<fs, input, again, result>>
  BY DEF Climb
<1>2. TypeOK' /\ IsTree(fs)
  BY <1>1, TreesAssumption DEF TypeOK
<1>3. /\ input.form # "url" /\ Acceptable(PathText(input))
      /\ current \in Seq(Proper) /\ remainder \in Seq(Proper)
      /\ current \o remainder = Clean(PathText(input))
  BY <1>1 DEF Climbing
<1>4. current # << >>
  <2> SUFFICES ASSUME current = << >> PROVE FALSE
    OBVIOUS
  <2>1. << >> \in DOMAIN fs /\ fs[<< >>].kind # "link"
    BY <1>2 DEF IsTree, Dir
  <2>2. EvalSymlinks(fs, << >>) = At(<< >>, << >>, Hops)
    BY <1>2, <2>1, StandsThere
  <2>3. End(fs, At(<< >>, << >>, Hops)) = "found"
    BY DEF At, End
  <2> QED BY <1>1, <2>2, <2>3
<1>5. PICK s \in Seq(Proper), x \in Proper : current = Append(s, x)
  BY <1>3, <1>4, SequenceEmptyOrAppend
<1>6. c = s /\ e = x
  BY <1>5, TakenApart
<1>7. <<x>> \in Seq(Proper) /\ current = s \o <<x>>
  BY <1>5, AppendIsConcat
<1> HIDE DEF c, e
<1>8. r \in Seq(Proper) /\ Head(r) = x
  <2>1. <<x>> # << >> /\ Head(<<x>>) = x
    OBVIOUS
  <2> QED BY <1>3, <1>6, <1>7, <2>1, ConcatProperties, HeadTailConcat
<1>9. c \o r = current \o remainder
  <2>1. s \o (<<x>> \o remainder) = (s \o <<x>>) \o remainder
    BY <1>3, <1>5, <1>7, ConcatAssociative
  <2> QED BY <1>6, <1>7, <2>1
<1>10. ASSUME again PROVE Settles(fs, c, r)
  <2>1. Settles(fs, current, remainder)
    BY <1>1, <1>10 DEF Repeated
  <2> QED BY <1>1, <1>2, <1>3, <2>1, SettledStep DEF c, e
<1> HIDE DEF r
<1>11. Climbing'
  <2>1. PathText(input)' = PathText(input)
    BY <1>1 DEF PathText
  <2>2. End(fs, EvalSymlinks(fs, Append(c, Head(r)))) = "missing"
    BY <1>1, <1>5, <1>6, <1>8
  <2> QED BY <1>1, <1>3, <1>5, <1>6, <1>8, <1>9, <2>1, <2>2 DEF Climbing
<1>12. Answered'
  BY <1>1 DEF Answered, Resolving
<1>13. Repeated'
  BY <1>1, <1>10 DEF Repeated
<1> QED BY <1>2, <1>11, <1>12, <1>13

LEMMA RepeatKeeps == IndInv /\ Repeat => IndInv'
<1> SUFFICES ASSUME IndInv, Repeat PROVE IndInv'
  OBVIOUS
<1> USE Kinds DEF IndInv
<1> DEFINE p == result.path
           t == <<"">> \o Spelled(p)
<1>1. /\ result.kind = "path" /\ again' = TRUE /\ input' = [form |-> "path", text |-> t]
      /\ result' = Idle /\ UNCHANGED <<fs, current, remainder>>
  BY DEF Repeat
<1>2. p \in Seq(Proper) /\ Settled(fs, p)
  BY <1>1 DEF Answered
<1>3. t \in Seq(Elements)
  BY <1>2, SpelledText
<1>4. TypeOK'
  <2> HIDE DEF t
  <2> QED BY <1>1, <1>3 DEF TypeOK
<1>5. Climbing' /\ Answered'
  BY <1>1 DEF Climbing, Answered
<1>6. Repeated'
  <2>1. /\ input'.form = "path" /\ input'.text = t /\ fs' = fs
        /\ result'.kind = "idle"
    BY <1>1
  <2>2. (\E q \in Seq(Proper) : input.text = <<"">> \o Spelled(q) /\ Settled(fs, q))'
    <3> HIDE DEF p
    <3> QED BY <1>2, <2>1
  <2> QED BY <2>1, <2>2 DEF Repeated
<1> QED BY <1>4, <1>5, <1>6

LEMMA CanonicalizeURLKeeps == IndInv /\ CanonicalizeURL => IndInv'
<1> SUFFICES ASSUME IndInv, CanonicalizeURL PROVE IndInv'
  OBVIOUS
<1> USE Kinds DEF IndInv
<1>1. /\ input.form = "url" /\ result' = URL(input)
      /\ UNCHANGED <<fs, input, again, current, remainder>>
  BY DEF CanonicalizeURL
<1>2. TypeOK' /\ Climbing' /\ Answered'
  BY <1>1 DEF TypeOK, Climbing, Answered
<1>3. Repeated'
  BY <1>1 DEF Repeated
<1> QED BY <1>2, <1>3

LEMMA NextIndInv == IndInv /\ [Next]_vars => IndInv'
<1>1. IndInv /\ UNCHANGED vars => IndInv'
  <2> SUFFICES ASSUME IndInv, UNCHANGED vars PROVE IndInv'
    OBVIOUS
  <2>1. UNCHANGED <<fs, input, again, current, remainder, result>>
    BY DEF vars
  <2>2. TypeOK' /\ Climbing' /\ Repeated'
    BY <2>1 DEF IndInv, TypeOK, Climbing, Repeated
  <2>3. Answered'
    BY <2>1 DEF IndInv, Answered, PathMeans
  <2> QED BY <2>2, <2>3 DEF IndInv
<1> QED
  BY <1>1, RejectKeeps, EnterKeeps, ResolveKeeps, UnresolvableKeeps, ClimbKeeps, RepeatKeeps,
     CanonicalizeURLKeeps DEF Next

LEMMA Invariance == Spec => []IndInv
BY InitIndInv, NextIndInv, PTL DEF Spec

(* What is compared is what is opened: whatever the file system, the place  *)
(* the kernel reaches from a canonical path is the place it reaches from    *)
(* the text (Path, resolveSymlinks), and without dangling links it is the   *)
(* canonical path itself.                                                   *)
THEOREM PathMeansTheorem == Spec => []PathMeans
<1>1. IndInv => PathMeans
  <2> SUFFICES ASSUME IndInv PROVE PathMeans
    OBVIOUS
  <2> QED BY Kinds DEF IndInv, Answered, PathMeans
<1> QED BY <1>1, Invariance, PTL

(* Path gives back what it has given, however many links, dots and absent   *)
(* names were in the text it was first given.                               *)
THEOREM Idempotence == Spec => []CanonIdempotent
<1>1. IndInv => CanonIdempotent
  <2> SUFFICES ASSUME IndInv, again, result \notin {Idle, Resolving},
                      ToSet(input.text) \cap Broken = {}
               PROVE  result = Path(Clean(input.text))
    BY DEF CanonIdempotent
  <2> USE Kinds DEF IndInv
  <2>1. input.form = "path" /\ result.kind # "error"
    BY DEF Repeated
  <2>2. result.kind = "path"
    BY <2>1 DEF Answered
  <2> QED BY <2>2 DEF Repeated
<1> QED BY <1>1, Invariance, PTL

-----------------------------------------------------------------------------
(* URLs *)
LEMMA DecodePlain ==
  ASSUME NEW t \in Seq({e \in Elements : Decoded[e] = <<e>>})
  PROVE  Decode(t) = t
<1> DEFINE S == {e \in Elements : Decoded[e] = <<e>>}
           G == {s \in Seq(S) : Decode(s) = s}
<1>1. Decoded \in [Elements -> Seq(S)]
  BY SpellingAssumption
<1>2. \A e \in S : e \in Elements /\ Decoded[e] = <<e>>
  OBVIOUS
<1> HIDE DEF S
<1>3. /\ Decode(<< >>) = << >>
      /\ \A s \in Seq(Elements), e \in Elements : Decode(Append(s, e)) = Decode(s) \o Decoded[e]
  BY <1>1, SpreadStep DEF Decode
<1>4. << >> \in G
  BY <1>3, EmptySeq
<1>5. ASSUME NEW s \in Seq(S), NEW e \in S, s \in G PROVE Append(s, e) \in G
  <2>1. s \in Seq(Elements) /\ e \in Elements /\ Decoded[e] = <<e>>
    BY <1>2, SeqMonotonic
  <2>2. Decode(Append(s, e)) = Decode(s) \o Decoded[e]
    BY <1>3, <2>1
  <2>3. Append(s, e) \in Seq(S) /\ Append(s, e) = s \o <<e>>
    BY AppendProperties, AppendIsConcat
  <2> QED BY <1>5, <2>1, <2>2, <2>3
<1> HIDE DEF G
<1>6. \A s \in Seq(S) : s \in G
  BY <1>4, <1>5, TextInduction
<1> QED BY <1>6 DEF G, S

(* What PathOf writes is decoded and clean, or as it was spelled. *)
LEMMA PathOfAgain ==
  ASSUME NEW u, u.text \in Seq(Elements), ~HasTraversal(Decode(u.text)),
         NEW v, v.text = PathOf(u)
  PROVE  ~HasTraversal(Decode(v.text)) /\ PathOf(v) = v.text
<1> DEFINE S == {e \in Elements : Decoded[e] = <<e>>}
           d == Decode(u.text)
           c == Clean(d)
           text == Spelled(c)
<1>1. PathOf(u) = IF text = d THEN u.text ELSE text
  BY DEF PathOf
<1>2. d \in Seq(S) /\ d \in Seq(Elements) /\ ".." \notin ToSet(d)
  BY DecodeTyped DEF HasTraversal
<1>3. CASE text = d
  <2>1. v.text = u.text
    BY <1>1, <1>3
  <2> QED BY <1>1, <1>3, <2>1 DEF PathOf
<1>4. CASE text # d
  <2> HIDE DEF d
  <2>1. c \in Seq(Proper) /\ ToSet(c) \subseteq ToSet(d)
    BY <1>2, CleanTyped
  <2>2. \A x \in ToSet(d) : x \in S
    BY <1>2, LenProperties, ElementOfSeq DEF ToSet
  <2>3. c \in Seq(S) /\ Clean(c) = c /\ ".." \notin ToSet(c)
    <3>1. ToSet(c) \subseteq S
      BY <2>1, <2>2
    <3> HIDE DEF c, S
    <3> QED BY <2>1, <3>1, ToSetTyped, CleanProper, ProperElements
  <2>4. v.text = text
    BY <1>1, <1>4
  <2>5. text \in Seq(S) /\ Spelled(Clean(text)) = text /\ ".." \notin ToSet(text)
    <3>1. CASE c = << >>
      <4> DEFINE e == ""
      <4>1. text = <<e>>
        BY <3>1 DEF Spelled
      <4>2. e \in S /\ e \in Elements /\ e \in Noise /\ e # ".."
        BY SpellingAssumption DEF Noise
      <4> HIDE DEF e, S
      <4>3. <<e>> \in Seq(S) /\ ToSet(<<e>>) = {e} /\ Append(<< >>, e) = <<e>>
        BY <4>2 DEF ToSet
      <4>4. Clean(<<e>>) = << >>
        <5>1. << >> \in Seq(Elements)
          BY EmptySeq
        <5> QED BY <4>2, <4>3, <5>1, CleanStep DEF Onto
      <4>5. Spelled(<< >>) = <<e>>
        BY DEF Spelled, e
      <4> QED BY <4>1, <4>2, <4>3, <4>4, <4>5
    <3>2. CASE c # << >>
      BY <2>3, <3>2 DEF Spelled
    <3> QED BY <3>1, <3>2
  <2>6. Decode(text) = text
    <3> HIDE DEF text
    <3> QED BY <2>5, DecodePlain
  <2> HIDE DEF text
  <2> QED BY <2>4, <2>5, <2>6 DEF PathOf, HasTraversal
<1> QED BY <1>3, <1>4

(* An authority that is kept, or an ordinary one that has lost its port, is *)
(* canonical: it stays as it is.                                            *)
LEMMA AuthorityAgain ==
  ASSUME NEW u, NEW v, u.authority \in DOMAIN Split \ {""},
         Lower[v.scheme] = Lower[u.scheme], v.authority = AuthorityOf(u),
         Ordinary(Lower[u.authority]) \/ AuthorityOf(u) = Lower[u.authority]
  PROVE  v.authority \in DOMAIN Split \ {""} /\ AuthorityOf(v) = v.authority
<1> DEFINE a == Lower[u.authority]
<1>1. a \in DOMAIN Split /\ a # "" /\ Lower[a] = a
  BY AuthoritiesAssumption, SpellingAssumption
<1>2. Split[a].host = Lower[Split[a].host]
  BY <1>1, AuthoritiesAssumption
<1>3. CASE AuthorityOf(u) = a
  BY <1>1, <1>3 DEF AuthorityOf
<1>4. CASE AuthorityOf(u) # a /\ Ordinary(a)
  <2> DEFINE h == Split[a].host
  <2>1. v.authority = h
    BY <1>4 DEF AuthorityOf
  <2>2. h \in DOMAIN Split \ {""} /\ Split[h].port = ""
    <3>1. h \in DOMAIN Split \ {""} /\ Split[h] = [host |-> h, port |-> "", bracketed |-> FALSE]
      BY <1>4, Zenon DEF Ordinary
    <3> HIDE DEF h
    <3>2. [host |-> h, port |-> "", bracketed |-> FALSE].port = ""
      OBVIOUS
    <3> QED BY <3>1, <3>2, Zenon
  <2>3. ~Default(Lower[v.scheme], Split[h].port)
    <3>1. DOMAIN DefaultPort = {"https", "http"}
          /\ DefaultPort["https"] = "443" /\ DefaultPort["http"] = "80"
      BY DEF DefaultPort
    <3>2. \A x \in DOMAIN DefaultPort : DefaultPort[x] # ""
      BY <3>1
    <3> QED BY <2>2, <3>2 DEF Default
  <2> QED BY <1>2, <2>1, <2>2, <2>3 DEF AuthorityOf
<1> QED BY <1>3, <1>4

(* Two ordinary authorities of one origin become one. *)
LEMMA AuthoritiesAgree ==
  ASSUME NEW u, NEW v, u.authority \in DOMAIN Split, v.authority \in DOMAIN Split,
         SameOrigin(u, v), Ordinary(Lower[u.authority]), Ordinary(Lower[v.authority])
  PROVE  AuthorityOf(u) = AuthorityOf(v)
<1> DEFINE a == Lower[u.authority]
           b == Lower[v.authority]
           s == Lower[u.scheme]
<1>1. /\ a \in DOMAIN Split /\ b \in DOMAIN Split
      /\ ~Split[a].bracketed /\ ~Split[b].bracketed
      /\ Split[a].port = "" => a = Split[a].host
      /\ Split[b].port = "" => b = Split[b].host
  BY AuthoritiesAssumption DEF Ordinary
<1>2. s = Lower[v.scheme] /\ Split[a].host = Split[b].host
  BY DEF SameOrigin
<1>3. CASE Split[a].port = Split[b].port
  <2>1. a = b
    BY <1>1, <1>2, <1>3, AuthoritiesAssumption
  <2> QED BY <1>2, <2>1 DEF AuthorityOf
<1>4. CASE Split[a].port # Split[b].port
  <2>1. s \in DOMAIN DefaultPort /\ {Split[a].port, Split[b].port} \subseteq {"", DefaultPort[s]}
    BY <1>4 DEF SameOrigin
  <2>2. AuthorityOf(u) = Split[a].host
    BY <1>1, <2>1 DEF AuthorityOf, Default
  <2>3. AuthorityOf(v) = Split[b].host
    BY <1>1, <1>2, <2>1 DEF AuthorityOf, Default
  <2> QED BY <1>2, <2>2, <2>3
<1> QED BY <1>3, <1>4

LEMMA PlainText ==
  ASSUME NEW u, u.text \in Seq(Elements), Plain(u)
  PROVE  Decode(u.text) = u.text /\ PathOf(u) = Spelled(Clean(u.text))
<1> DEFINE S == {e \in Elements : Decoded[e] = <<e>>}
<1>1. ToSet(u.text) \subseteq S
  <2>1. \A i \in DOMAIN u.text : u.text[i] \in Elements
    BY LenProperties, ElementOfSeq
  <2> QED BY <2>1 DEF Plain, ToSet
<1>2. u.text \in Seq(S)
  <2> HIDE DEF S
  <2> QED BY <1>1, ToSetTyped
<1>3. Decode(u.text) = u.text
  BY <1>2, DecodePlain
<1> QED BY <1>3 DEF PathOf

LEMMA UrlsOfInvariant == IndInv => UrlsAgree
<1> SUFFICES ASSUME IndInv, result.kind = "url" PROVE UrlsAgree
  BY DEF UrlsAgree
<1>1. /\ result = URL(input) /\ input.form = "url" /\ input.text \in Seq(Elements)
      /\ input.scheme \in DOMAIN Lower /\ input.authority \in DOMAIN Lower
  BY Kinds DEF IndInv, TypeOK, Answered
<1> DEFINE made(u) ==
             [kind |-> "url",
              url |-> [form |-> "url", scheme |-> Lower[u.scheme], authority |-> AuthorityOf(u),
                       text |-> PathOf(u)]]
<1>2. /\ \A u : Parses(u) /\ ~HasTraversal(Decode(u.text)) => URL(u) = made(u)
      /\ Parses(input) /\ ~HasTraversal(Decode(input.text))
  BY <1>1, Kinds DEF URL
<1>3. ASSUME Ordinary(Lower[input.authority]) \/ result.url.authority = Lower[input.authority]
      PROVE  URL(result.url) = result
  <2> DEFINE v == made(input).url
  <2>1. result = made(input) /\ result.url = v
    BY <1>1, <1>2
  <2>2. /\ v.scheme = Lower[input.scheme] /\ v.authority = AuthorityOf(input)
        /\ v.text = PathOf(input)
    OBVIOUS
  <2>3. Lower[v.scheme] = v.scheme /\ v.scheme # ""
    BY <1>1, <1>2, <2>2, SpellingAssumption DEF Parses
  <2>4. v.authority \in DOMAIN Split \ {""} /\ AuthorityOf(v) = v.authority
    <3> HIDE DEF v
    <3>1. Ordinary(Lower[input.authority]) \/ AuthorityOf(input) = Lower[input.authority]
      BY <1>3, <2>1, <2>2
    <3>2. input.authority \in DOMAIN Split \ {""}
      BY <1>2 DEF Parses
    <3>3. Lower[v.scheme] = Lower[input.scheme]
      BY <2>2, <2>3
    <3> QED BY <2>2, <3>1, <3>2, <3>3, AuthorityAgain
  <2> HIDE DEF v
  <2>5. ~HasTraversal(Decode(v.text)) /\ PathOf(v) = v.text
    BY <1>1, <1>2, <2>2, PathOfAgain
  <2>6. URL(v) = made(v)
    BY <1>2, <2>3, <2>4, <2>5 DEF Parses
  <2>7. made(v) = made(input)
    BY <2>2, <2>3, <2>4, <2>5
  <2> HIDE DEF made
  <2> QED BY <2>1, <2>6, <2>7
<1>4. ASSUME NEW u \in Inputs, u.form = "url", Parses(u), SameOrigin(u, input),
             Ordinary(Lower[u.authority]), Ordinary(Lower[input.authority]),
             Plain(u), Plain(input), Clean(u.text) = Clean(input.text), ~HasTraversal(u.text)
      PROVE  URL(u) = result
  <2>1. u.text \in Seq(Elements)
    BY <1>4, InputsAssumption
  <2>2. /\ Decode(u.text) = u.text /\ PathOf(u) = Spelled(Clean(u.text))
        /\ PathOf(input) = Spelled(Clean(input.text))
    BY <1>1, <1>4, <2>1, PlainText
  <2>3. AuthorityOf(u) = AuthorityOf(input)
    <3>1. u.authority \in DOMAIN Split /\ input.authority \in DOMAIN Split
      BY <1>2, <1>4 DEF Parses
    <3> QED BY <1>4, <3>1, AuthoritiesAgree
  <2>4. Lower[u.scheme] = Lower[input.scheme]
    BY <1>4 DEF SameOrigin
  <2>5. URL(u) = made(u) /\ URL(input) = made(input)
    BY <1>2, <1>4, <2>2
  <2>6. made(u) = made(input)
    BY <1>4, <2>2, <2>3, <2>4
  <2> QED BY <1>1, <2>5, <2>6
<1> QED BY <1>3, <1>4 DEF UrlsAgree

(* Ordinary URLs that differ in the case of scheme and host, in the default *)
(* port and in slashes and dots have one canonical form, and a canonical    *)
(* form is its own unless an authority that is not ordinary has lost its    *)
(* port (URL).                                                              *)
THEOREM UrlsAgreeTheorem == Spec => []UrlsAgree
BY UrlsOfInvariant, Invariance, PTL
=============================================================================
