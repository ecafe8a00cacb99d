----------------------------- MODULE StdioProofs -----------------------------
(***************************************************************************)
(* Theorems about StdioProxy, for any number of messages, any capacity of   *)
(* the pipes, either kind of AgentIn, and servers with and without heirs:   *)
(* the safety properties do not rest on the bounds of the runs.             *)
(*                                                                         *)
(* IndInv follows a message along the session.  Going up, it is in the      *)
(* agent's stream, in the pump's hand or judged, and these three never      *)
(* overlap or overtake; once forwarded it is in the hand, in the pipe or    *)
(* read.  Coming back, an answer is in the pipe, in the other pump's hand   *)
(* or with the agent.                                                       *)
(***************************************************************************)
EXTENDS StdioProxy, SequenceTheorems, TLAPS

Members(s) == {s[i] : i \in DOMAIN s}
Distinct(s) == \A i, j \in DOMAIN s : s[i] = s[j] => i = j
Ordered(s) ==
  \A i, j \in DOMAIN s : i < j /\ s[i] # Garbage /\ s[j] # Garbage => s[i] < s[j]

Judged == {m \in 1 .. N : verdict[m] # "none"}

(* What the pump to the server holds, and what it has judged by then. *)
UpOK ==
  /\ up.pc \in {"judging", "refusing", "forwarding"} <=> up.msg # 0
  /\ up.pc = "judging" => \A m \in Judged : m < up.msg
  /\ up.pc = "refusing" => verdict[up.msg] = "refuse"
  /\ up.pc = "forwarding" => verdict[up.msg] = "forward"
  /\ up.pc \in {"refusing", "forwarding"} => \A m \in Judged : m <= up.msg

(* What the agent has yet to be read of comes after all that was read. *)
InputAhead ==
  /\ Ordered(input)
  /\ up.msg <= sent /\ \A m \in Judged : m <= sent
  /\ \A x \in Members(input) :
       x <= sent /\ (x # Garbage => up.msg < x /\ \A m \in Judged : m < x)

(* A forwarded message is with the server, in the pump's hand, or the last  *)
(* one, dropped when the write failed because nobody read any more.         *)
ReachedOK ==
  /\ Ordered(Reached)
  /\ Members(Reached) \subseteq Forwarded
  /\ up.pc = "forwarding" => up.msg \notin Members(Reached)
  /\ \A m \in Forwarded :
       \/ m \in Members(Reached)
       \/ up.pc = "forwarding" /\ up.msg = m
       \/ /\ ~Reading /\ up.pc \in {"closing", "done"}
          /\ \A n \in Forwarded : n <= m

(* What the proxy has taken of what the server wrote; the pipe holds the    *)
(* rest.                                                                    *)
Taken == Len(written) - Len(stdout)

StdoutOK ==
  /\ Taken \in Nat
  /\ \A k \in 1 .. Len(stdout) : stdout[k] = written[Taken + k]

(* An answer the server wrote is in one place at a time. *)
AnswersOK ==
  /\ Answered \subseteq Members(served) \cup {Garbage}
  /\ Distinct(stdout) /\ Members(stdout) \subseteq Answered
  /\ down.pc = "writing" <=> down.msg # 0
  /\ down.pc = "writing" => down.msg \in Answered \ Members(stdout)

(* What the agent has received is no longer on its way. *)
GotOK ==
  /\ AnsweredOnce
  /\ \A g \in Members(got) :
       /\ g.kind = "refusal" => verdict[g.msg] = "refuse" /\ up # [pc |-> "refusing", msg |-> g.msg]
       /\ g.kind = "response" =>
            /\ g.msg \in Answered \ Members(stdout)
            /\ down # [pc |-> "writing", msg |-> g.msg]

(* While the agent can be written to, nothing owed to it is dropped. *)
OwedOK ==
  OutputOk =>
    /\ \A m \in 1 .. N : verdict[m] = "refuse" =>
         Refusal(m) \in Members(got) \/ up = [pc |-> "refusing", msg |-> m]
    /\ \A i \in 1 .. Taken : written[i] # Garbage =>
         Response(written[i]) \in Members(got) \/ down = [pc |-> "writing", msg |-> written[i]]
    /\ down.pc \in {"cancelling", "done"} =>
         \/ Taken = Len(written) /\ ~stdoutOpen
         \/ \E i \in 1 .. Taken : written[i] = Garbage

EndOK ==
  /\ agentOpen => OutputOk
  /\ ~ServerAlive => ~stdoutOpen
  /\ Returned =>
       /\ up.pc = "done" /\ down.pc = "done" /\ child # "running"
       /\ run = "nil" <=> child = "ok"

IndInv ==
  TypeOK /\ UpOK /\ InputAhead /\ ReachedOK /\ StdoutOK /\ AnswersOK /\ GotOK /\ OwedOK /\ EndOK

-----------------------------------------------------------------------------
(* Sequences *)

LEMMA Appended ==
  ASSUME NEW S, NEW s \in Seq(S), NEW x \in S
  PROVE  /\ Members(Append(s, x)) = Members(s) \cup {x}
         /\ Distinct(s) /\ x \notin Members(s) => Distinct(Append(s, x))
<1>1. /\ DOMAIN s = 1 .. Len(s) /\ Len(s) \in Nat
      /\ DOMAIN Append(s, x) = 1 .. Len(s) + 1
      /\ \A i \in 1 .. Len(s) : Append(s, x)[i] = s[i]
      /\ Append(s, x)[Len(s) + 1] = x
  BY AppendProperties
<1> QED BY <1>1 DEF Members, Distinct

LEMMA Removed ==
  ASSUME NEW S, NEW s \in Seq(S), s # << >>
  PROVE  /\ Members(s) = {Head(s)} \cup Members(Tail(s))
         /\ Distinct(s) => Distinct(Tail(s)) /\ Head(s) \notin Members(Tail(s))
<1>1. /\ DOMAIN s = 1 .. Len(s) /\ Len(s) \in Nat \ {0}
      /\ DOMAIN Tail(s) = 1 .. Len(s) - 1
      /\ \A i \in 1 .. Len(s) - 1 : Tail(s)[i] = s[i + 1]
      /\ Head(s) = s[1]
  BY HeadTailProperties, EmptySeq
<1>2. ASSUME NEW i \in 2 .. Len(s)
      PROVE  i - 1 \in DOMAIN Tail(s) /\ s[i] = Tail(s)[i - 1]
  BY <1>1
<1>3. Members(s) \subseteq {Head(s)} \cup Members(Tail(s))
  <2> SUFFICES ASSUME NEW i \in 1 .. Len(s)
               PROVE  s[i] = Head(s) \/ s[i] \in Members(Tail(s))
    BY <1>1 DEF Members
  <2>1. CASE i = 1
    BY <2>1, <1>1
  <2>2. CASE i \in 2 .. Len(s)
    BY <2>2, <1>2 DEF Members
  <2> QED BY <2>1, <2>2, <1>1
<1>4. Head(s) \in Members(s) /\ Members(Tail(s)) \subseteq Members(s)
  BY <1>1 DEF Members
<1>5. ASSUME Distinct(s)
      PROVE  Distinct(Tail(s)) /\ Head(s) \notin Members(Tail(s))
  BY <1>1, <1>5 DEF Members, Distinct
<1> QED BY <1>3, <1>4, <1>5

LEMMA MembersTyped ==
  ASSUME NEW S, NEW s \in Seq(S)
  PROVE  Members(s) \subseteq S
BY ElementOfSeq, LenProperties DEF Members

LEMMA FirstMembers ==
  ASSUME NEW S, NEW s \in Seq(S), NEW t \in Seq(S)
  PROVE  Members(s) \subseteq Members(s \o t)
<1>1. /\ DOMAIN s = 1 .. Len(s) /\ Len(s) \in Nat /\ Len(t) \in Nat
      /\ DOMAIN (s \o t) = 1 .. Len(s) + Len(t)
      /\ \A i \in 1 .. Len(s) + Len(t) : i <= Len(s) => (s \o t)[i] = s[i]
  BY ConcatProperties, LenProperties
<1> QED BY <1>1 DEF Members

LEMMA OrderedAppended ==
  ASSUME NEW S \in SUBSET Nat, NEW s \in Seq(S), NEW x \in S, Ordered(s),
         x # Garbage => \A y \in Members(s) : y # Garbage => y < x
  PROVE  Ordered(Append(s, x))
<1>1. /\ DOMAIN s = 1 .. Len(s) /\ Len(s) \in Nat
      /\ DOMAIN Append(s, x) = 1 .. Len(s) + 1
      /\ \A i \in 1 .. Len(s) : Append(s, x)[i] = s[i]
      /\ Append(s, x)[Len(s) + 1] = x
  BY AppendProperties
<1> QED BY <1>1 DEF Members, Ordered

LEMMA OrderedRemoved ==
  ASSUME NEW s \in Seq(Frames), s # << >>, Ordered(s)
  PROVE  /\ Ordered(Tail(s))
         /\ Head(s) # Garbage => \A y \in Members(Tail(s)) : y # Garbage => Head(s) < y
<1>1. /\ DOMAIN s = 1 .. Len(s) /\ Len(s) \in Nat \ {0}
      /\ DOMAIN Tail(s) = 1 .. Len(s) - 1
      /\ \A i \in 1 .. Len(s) - 1 : Tail(s)[i] = s[i + 1]
      /\ Head(s) = s[1]
  BY HeadTailProperties, EmptySeq
<1> QED BY <1>1 DEF Members, Ordered

(* The child's read moves a frame from the pipe to what was served. *)
LEMMA MovedAcross ==
  ASSUME NEW S, NEW s \in Seq(S), NEW t \in Seq(S), t # << >>
  PROVE  Append(s, Head(t)) \o Tail(t) = s \o t
<1>1. /\ Head(t) \in S /\ Tail(t) \in Seq(S) /\ Len(Tail(t)) = Len(t) - 1
      /\ \A i \in 1 .. Len(t) - 1 : Tail(t)[i] = t[i + 1]
      /\ Head(t) = t[1] /\ Len(t) \in Nat \ {0} /\ Len(s) \in Nat
  BY HeadTailProperties, EmptySeq
<1>2. /\ Append(s, Head(t)) \in Seq(S) /\ Len(Append(s, Head(t))) = Len(s) + 1
      /\ \A i \in 1 .. Len(s) : Append(s, Head(t))[i] = s[i]
      /\ Append(s, Head(t))[Len(s) + 1] = Head(t)
  BY <1>1, AppendProperties
<1> DEFINE l == Append(s, Head(t)) \o Tail(t)
           r == s \o t
<1>3. /\ l \in Seq(S) /\ Len(l) = Len(s) + Len(t)
      /\ \A i \in 1 .. Len(s) + Len(t) :
           l[i] = IF i <= Len(s) + 1 THEN Append(s, Head(t))[i] ELSE Tail(t)[i - (Len(s) + 1)]
  <2> HIDE DEF l
  <2>1. Len(s) + 1 + (Len(t) - 1) = Len(s) + Len(t)
    BY <1>1
  <2> QED BY <1>1, <1>2, <2>1, ConcatProperties DEF l
<1>4. /\ r \in Seq(S) /\ Len(r) = Len(s) + Len(t)
      /\ \A i \in 1 .. Len(s) + Len(t) : r[i] = IF i <= Len(s) THEN s[i] ELSE t[i - Len(s)]
  BY ConcatProperties
<1>5. ASSUME NEW i \in 1 .. Len(s) + Len(t) PROVE l[i] = r[i]
  <2> HIDE DEF l, r
  <2>1. CASE i <= Len(s)
    BY <2>1, <1>1, <1>2, <1>3, <1>4
  <2>2. CASE i = Len(s) + 1
    BY <2>2, <1>1, <1>2, <1>3, <1>4
  <2>3. CASE i > Len(s) + 1
    <3>1. Tail(t)[i - (Len(s) + 1)] = t[i - Len(s)]
      BY <2>3, <1>1
    <3>2. ~(i <= Len(s) + 1) /\ ~(i <= Len(s))
      BY <2>3, <1>1
    <3>3. l[i] = Tail(t)[i - (Len(s) + 1)]
      BY <3>2, <1>3
    <3>4. r[i] = t[i - Len(s)]
      BY <3>2, <1>4
    <3> QED BY <3>1, <3>3, <3>4
  <2>4. i <= Len(s) \/ i = Len(s) + 1 \/ i > Len(s) + 1
    BY <1>1
  <2> QED BY <2>1, <2>2, <2>3, <2>4
<1> HIDE DEF l, r
<1>6. l = r
  BY <1>3, <1>4, <1>5, SeqEqual
<1> QED BY <1>6 DEF l, r

(* The pump's write adds a frame at the end of what has reached the child. *)
LEMMA AddedAtEnd ==
  ASSUME NEW S, NEW s \in Seq(S), NEW t \in Seq(S), NEW x \in S
  PROVE  s \o Append(t, x) = Append(s \o t, x)
<1>1. /\ Append(t, x) \in Seq(S) /\ Len(Append(t, x)) = Len(t) + 1
      /\ \A i \in 1 .. Len(t) : Append(t, x)[i] = t[i]
      /\ Append(t, x)[Len(t) + 1] = x /\ Len(t) \in Nat /\ Len(s) \in Nat
  BY AppendProperties
<1>2. /\ s \o Append(t, x) \in Seq(S)
      /\ Len(s \o Append(t, x)) = Len(s) + (Len(t) + 1)
      /\ \A i \in 1 .. Len(s) + (Len(t) + 1) :
           (s \o Append(t, x))[i] = IF i <= Len(s) THEN s[i] ELSE Append(t, x)[i - Len(s)]
  BY <1>1, ConcatProperties
<1>3. /\ s \o t \in Seq(S) /\ Len(s \o t) = Len(s) + Len(t)
      /\ \A i \in 1 .. Len(s) + Len(t) : (s \o t)[i] = IF i <= Len(s) THEN s[i] ELSE t[i - Len(s)]
  BY ConcatProperties
<1>4. /\ Append(s \o t, x) \in Seq(S) /\ Len(Append(s \o t, x)) = Len(s) + Len(t) + 1
      /\ \A i \in 1 .. Len(s) + Len(t) : Append(s \o t, x)[i] = (s \o t)[i]
      /\ Append(s \o t, x)[Len(s) + Len(t) + 1] = x
  BY <1>3, AppendProperties
<1>5. ASSUME NEW i \in 1 .. Len(s) + (Len(t) + 1)
      PROVE  (s \o Append(t, x))[i] = Append(s \o t, x)[i]
  <2>1. CASE i <= Len(s)
    <3>1. i \in 1 .. Len(s) + Len(t)
      BY <2>1, <1>1
    <3> QED BY <2>1, <3>1, <1>2, <1>3, <1>4
  <2>2. CASE i > Len(s) /\ i <= Len(s) + Len(t)
    <3>1. i - Len(s) \in 1 .. Len(t) /\ i \in 1 .. Len(s) + Len(t) /\ ~(i <= Len(s))
      BY <2>2, <1>1
    <3>2. (s \o Append(t, x))[i] = Append(t, x)[i - Len(s)] /\ (s \o t)[i] = t[i - Len(s)]
      BY <3>1, <1>2, <1>3
    <3> QED BY <3>1, <3>2, <1>1, <1>4
  <2>3. CASE i = Len(s) + Len(t) + 1
    <3>1. i - Len(s) = Len(t) + 1 /\ ~(i <= Len(s))
      BY <2>3, <1>1
    <3> QED BY <2>3, <3>1, <1>1, <1>2, <1>4
  <2> QED BY <2>1, <2>2, <2>3, <1>1
<1>6. Len(s \o Append(t, x)) = Len(Append(s \o t, x))
  BY <1>1, <1>2, <1>4
<1> QED BY <1>2, <1>4, <1>5, <1>6, SeqEqual

-----------------------------------------------------------------------------
(* The start, and the types *)

LEMMA EmptyTaken ==
  ASSUME written = << >>, stdout = << >>
  PROVE  Taken = 0 /\ Answered = {} /\ StdoutOK /\ Len(written) = 0
<1>1. Len(<< >>) = 0 /\ DOMAIN << >> = {}
  BY EmptySeq
<1> QED BY <1>1 DEF Taken, Answered, StdoutOK

LEMMA InitIndInv == Init => IndInv
<1> SUFFICES ASSUME Init PROVE IndInv
  OBVIOUS
<1> USE BoundsAssumption DEF Init
<1>1. Len(<< >>) = 0 /\ \A S : << >> \in Seq(S)
  BY EmptySeq
<1>2. TypeOK
  <2>1. up \in [pc : {"next"}, msg : Frames] /\ down \in [pc : {"reading"}, msg : Frames]
    BY DEF Frames
  <2>2. verdict \in [1 .. N -> {"none", "forward", "refuse"}]
    OBVIOUS
  <2>3. /\ input \in Seq(Frames) /\ stdin \in Seq(1 .. N) /\ stdout \in Seq(Frames)
        /\ served \in Seq(1 .. N) /\ written \in Seq(Frames)
        /\ got \in Seq([msg : 1 .. N, kind : {"refusal", "response"}])
    BY <1>1
  <2>4. Len(stdin) <= PipeCapacity /\ Len(stdout) <= PipeCapacity /\ sent \in 0 .. N
    BY <1>1
  <2> QED BY <2>1, <2>2, <2>3, <2>4 DEF TypeOK
<1>3. Judged = {} /\ Forwarded = {} /\ Members(<< >>) = {}
  BY DEF Judged, Forwarded, Members
<1>4. Reached = << >>
  BY <1>1, ConcatEmptySeq DEF Reached
<1>5. Ordered(<< >>) /\ Distinct(<< >>)
  BY DEF Ordered, Distinct
<1>6. OutputOk /\ ServerAlive
  BY DEF OutputOk, ServerAlive
<1>7. Taken = 0 /\ Answered = {} /\ StdoutOK
  BY EmptyTaken
<1>8. UpOK /\ InputAhead /\ ReachedOK
  BY <1>3, <1>4, <1>5 DEF UpOK, InputAhead, ReachedOK
<1>9. AnswersOK /\ GotOK /\ OwedOK /\ EndOK
  BY <1>3, <1>5, <1>6, <1>7 DEF AnswersOK, GotOK, OwedOK, EndOK, AnsweredOnce, Returned
<1> QED BY <1>2, <1>7, <1>8, <1>9 DEF IndInv

LEMMA HeadTyped ==
  ASSUME NEW S, NEW s \in Seq(S), s # << >>
  PROVE  Head(s) \in S /\ Tail(s) \in Seq(S) /\ Len(Tail(s)) = Len(s) - 1 /\ Len(s) \in Nat
BY HeadTailProperties, LenProperties

LEMMA DecodedTyped ==
  ASSUME TypeOK, Decoded
  PROVE  /\ input' \in Seq(Frames)
         /\ up' \in [pc : {"closing", "judging"}, msg : Frames]
BY HeadTyped, BoundsAssumption DEF TypeOK, Decoded, UpTo, Frames

Answers == [msg : 1 .. N, kind : {"refusal", "response"}]

LEMMA AnswerTyped ==
  ASSUME NEW m \in 1 .. N
  PROVE  Refusal(m) \in Answers /\ Response(m) \in Answers
BY DEF Answers, Refusal, Response

LEMMA EndsTyped ==
  ASSUME TypeOK, NEW st \in {"ok", "failed", "killed"}, ChildEnds(st)
  PROVE  /\ child' \in {"running", "ok", "failed", "killed"}
         /\ heir' \in BOOLEAN /\ stdoutOpen' \in BOOLEAN
<1>1. heir' \in BOOLEAN
  BY WorldAssumption DEF ChildEnds
<1>2. stdoutOpen' \in BOOLEAN
  BY Zenon DEF ChildEnds
<1> QED BY <1>1, <1>2 DEF ChildEnds

(* Every action keeps the types.  The two writes need to know that a pump   *)
(* that writes holds a message, and never garbage.                          *)
LEMMA NextTyped == TypeOK /\ UpOK /\ AnswersOK /\ [Next]_vars => TypeOK'
<1> SUFFICES ASSUME TypeOK, UpOK, AnswersOK, [Next]_vars
             PROVE  TypeOK'
  OBVIOUS
<1> USE BoundsAssumption
<1>1. CASE Agent
  <2>1. CASE AgentSends
    <3>1. PICK frame \in {sent + 1, Garbage} : input' = Append(input, frame)
      BY <2>1 DEF AgentSends
    <3>2. frame \in Frames /\ sent' \in 0 .. N
      BY <2>1 DEF AgentSends, TypeOK, Frames, Garbage
    <3>3. input' \in Seq(Frames)
      BY <3>1, <3>2, AppendProperties DEF TypeOK
    <3> QED BY <2>1, <3>2, <3>3 DEF AgentSends, TypeOK, streamVars, childVars, endVars
  <2>2. CASE AgentCloses
    <3>1. agentOpen' \in BOOLEAN /\ output' \in {"read", "full", "broken"}
      BY <2>2 DEF AgentCloses, TypeOK
    <3> QED BY <2>2, <3>1 DEF AgentCloses, TypeOK, streamVars, childVars, endVars
  <2>3. CASE AgentStalls
    BY <2>3 DEF AgentStalls, TypeOK, streamVars, childVars, endVars
  <2> QED BY <1>1, <2>1, <2>2, <2>3 DEF Agent
<1>2. CASE Up
  <2>1. CASE UpNext \/ UpDecoded
    <3>1. \/ Decoded
          \/ up' \in [pc : {"reading", "closing"}, msg : Frames] /\ UNCHANGED input
      BY <2>1 DEF UpNext, UpDecoded, UpTo, Frames
    <3>2. input' \in Seq(Frames) /\ up' \in [pc : {"reading", "judging", "closing"}, msg : Frames]
      BY <3>1, DecodedTyped DEF TypeOK
    <3> QED
      BY <2>1, <3>2 DEF UpNext, UpDecoded, TypeOK, agentVars, streamVars, childVars, endVars
  <2>2. CASE UpReadFails \/ UpCloses
    <3>1. up' \in [pc : {"closing", "done"}, msg : Frames]
      BY <2>2 DEF UpReadFails, UpCloses, UpTo, Frames
    <3>2. stdinOpen' \in BOOLEAN
      BY <2>2 DEF UpReadFails, UpCloses, TypeOK, streamVars
    <3> QED
      BY <2>2, <3>1, <3>2 DEF UpReadFails, UpCloses, TypeOK, agentVars, streamVars, childVars, endVars
  <2>3. CASE UpJudged
    <3>1. verdict' \in [1 .. N -> {"none", "forward", "refuse"}]
      BY <2>3 DEF UpJudged, TypeOK
    <3>2. up' \in [pc : {"forwarding", "refusing"}, msg : Frames] /\ ctx' \in {"live", "done"}
      BY <2>3 DEF UpJudged, UpTo, TypeOK
    <3> QED
      BY <2>3, <3>1, <3>2 DEF UpJudged, TypeOK, agentVars, streamVars, childVars, endVars
  <2>4. CASE UpRefuses
    <3>1. up.msg \in 1 .. N
      BY <2>4 DEF UpRefuses, UpOK, TypeOK, Frames
    <3>2. got' \in Seq(Answers)
      <4>1. got \in Seq(Answers)
        BY DEF TypeOK, Answers
      <4>2. got' = Append(got, Refusal(up.msg)) \/ got' = got
        BY <2>4 DEF UpRefuses
      <4> QED BY <3>1, <4>1, <4>2, AnswerTyped, AppendProperties
    <3> QED
      BY <2>4, <3>1, <3>2
      DEF UpRefuses, UpTo, TypeOK, Answers, Frames, agentVars, streamVars, childVars, endVars
  <2>5. CASE UpForwards
    <3>1. up.msg \in 1 .. N
      BY <2>5 DEF UpForwards, UpOK, TypeOK, Frames
    <3>2. stdin' \in Seq(1 .. N) /\ Len(stdin') <= PipeCapacity
      <4>1. \/ Len(stdin) < PipeCapacity /\ stdin' = Append(stdin, up.msg)
            \/ stdin' = stdin
        BY <2>5 DEF UpForwards
      <4>2. /\ stdin \in Seq(1 .. N) /\ Len(stdin) \in Nat /\ Len(stdin) <= PipeCapacity
            /\ Append(stdin, up.msg) \in Seq(1 .. N)
            /\ Len(Append(stdin, up.msg)) = Len(stdin) + 1
        BY <3>1, AppendProperties, LenProperties DEF TypeOK
      <4> QED BY <4>1, <4>2
    <3> QED
      BY <2>5, <3>1, <3>2 DEF UpForwards, UpTo, TypeOK, Frames, agentVars, childVars, endVars
  <2> QED BY <1>2, <2>1, <2>2, <2>3, <2>4, <2>5 DEF Up
<1>3. CASE Down
  <2>1. CASE DownReads
    <3>1. stdout' \in Seq(Frames) /\ Len(stdout') <= PipeCapacity
      <4>1. stdout' = stdout \/ (stdout # << >> /\ stdout' = Tail(stdout))
        BY <2>1 DEF DownReads
      <4>2. stdout \in Seq(Frames) /\ Len(stdout) <= PipeCapacity
        BY DEF TypeOK
      <4>3. ASSUME stdout # << >>
            PROVE  Tail(stdout) \in Seq(Frames) /\ Len(Tail(stdout)) <= PipeCapacity
        <5>1. Tail(stdout) \in Seq(Frames) /\ Len(Tail(stdout)) = Len(stdout) - 1 /\ Len(stdout) \in Nat
          BY <4>2, <4>3, HeadTyped
        <5> QED BY <4>2, <5>1
      <4> QED BY <4>1, <4>2, <4>3
    <3>2. down' \in [pc : {"cancelling", "writing"}, msg : Frames]
      BY <2>1, HeadTyped DEF DownReads, DownTo, TypeOK, Frames
    <3> QED
      BY <2>1, <3>1, <3>2 DEF DownReads, TypeOK, agentVars, childVars, endVars
  <2>2. CASE DownWrites
    <3>1. down.msg \in 1 .. N
      BY <2>2 DEF DownWrites, StdoutOK, AnswersOK, TypeOK, Frames
    <3>2. got' \in Seq(Answers)
      <4>1. got \in Seq(Answers)
        BY DEF TypeOK, Answers
      <4>2. got' = Append(got, Response(down.msg)) \/ got' = got
        BY <2>2 DEF DownWrites
      <4> QED BY <3>1, <4>1, <4>2, AnswerTyped, AppendProperties
    <3> QED
      BY <2>2, <3>1, <3>2
      DEF DownWrites, DownTo, TypeOK, Answers, Frames, agentVars, streamVars, childVars, endVars
  <2>3. CASE DownCancels
    BY <2>3 DEF DownCancels, DownTo, TypeOK, Frames, agentVars, streamVars, childVars, endVars
  <2> QED BY <1>3, <2>1, <2>2, <2>3 DEF Down
<1>4. CASE Child
  <2>1. CASE ChildReads
    <3>1. Head(stdin) \in 1 .. N /\ stdin' \in Seq(1 .. N) /\ Len(stdin') <= PipeCapacity
      BY <2>1, HeadTyped DEF ChildReads, TypeOK
    <3>2. served' \in Seq(1 .. N)
      BY <2>1, <3>1, AppendProperties DEF ChildReads, TypeOK
    <3> QED BY <2>1, <3>1, <3>2 DEF ChildReads, TypeOK, agentVars, endVars
  <2>2. CASE ChildWrites
    <3>1. PICK m \in ({served[n] : n \in DOMAIN served} \cup {Garbage}) \ Answered :
            stdout' = Append(stdout, m) /\ written' = Append(written, m)
      BY <2>2 DEF ChildWrites
    <3>2. m \in Frames
      BY ElementOfSeq, LenProperties DEF TypeOK, Frames, Garbage
    <3>3. /\ stdout' \in Seq(Frames) /\ Len(stdout') <= PipeCapacity
          /\ written' \in Seq(Frames)
      BY <2>2, <3>1, <3>2, AppendProperties, LenProperties DEF ChildWrites, TypeOK
    <3> QED BY <2>2, <3>1, <3>2, <3>3 DEF ChildWrites, TypeOK, agentVars, endVars
  <2>3. CASE ChildClosesStdin \/ ChildClosesStdout \/ HeirEnds
    <3>1. /\ stdinKept' \in BOOLEAN /\ stdoutOpen' \in BOOLEAN /\ heir' \in BOOLEAN
          /\ UNCHANGED <<agentVars, input, inputClosed, got, verdict, up, down, stdin, stdinOpen,
                         stdout, served, written, child, ctx, endVars>>
      BY <2>3 DEF ChildClosesStdin, ChildClosesStdout, HeirEnds, TypeOK, childVars
    <3> QED BY <3>1 DEF TypeOK, agentVars, endVars
  <2>4. CASE ChildExits
    <3>1. PICK st \in {"ok", "failed"} : ChildEnds(st)
      BY <2>4 DEF ChildExits
    <3>2. child' \in {"running", "ok", "failed", "killed"} /\ heir' \in BOOLEAN /\ stdoutOpen' \in BOOLEAN
      BY <3>1, EndsTyped
    <3>3. UNCHANGED <<served, written, stdin, stdinOpen, stdinKept, stdout, agentVars, input,
                      inputClosed, got, verdict, up, down, ctx, endVars>>
      BY <2>4 DEF ChildExits, ChildEnds
    <3> QED BY <3>2, <3>3 DEF TypeOK, agentVars, endVars
  <2> QED BY <1>4, <2>1, <2>2, <2>3, <2>4 DEF Child
<1>5. CASE Cancelled \/ CloseInput \/ Reap
  <2>1. /\ ctx' \in {"live", "done"} /\ inputClosed' \in BOOLEAN
        /\ run' \in {"pumping", "nil", "error"} /\ signalled' \in BOOLEAN
    BY <1>5 DEF Cancelled, CloseInput, Reap, TypeOK, endVars
  <2>2. UNCHANGED <<agentVars, input, got, verdict, up, down, streamVars, childVars>>
    BY <1>5 DEF Cancelled, CloseInput, Reap
  <2> QED BY <2>1, <2>2 DEF TypeOK, agentVars, streamVars, childVars
<1>6. CASE Kill
  <2>1. /\ signalled' \in BOOLEAN /\ stdoutOpen' \in BOOLEAN /\ heir' \in BOOLEAN
        /\ child' \in {"running", "ok", "failed", "killed"}
    BY <1>6, EndsTyped DEF Kill, TypeOK, streamVars, childVars
  <2>2. UNCHANGED <<served, written, stdin, stdinOpen, stdinKept, stdout, agentVars, input,
                    inputClosed, got, verdict, up, down, ctx, run>>
    BY <1>6 DEF Kill, ChildEnds, streamVars, childVars
  <2> QED BY <2>1, <2>2 DEF TypeOK, agentVars
<1>7. CASE UNCHANGED vars
  BY <1>7 DEF vars, TypeOK, agentVars, streamVars, childVars, endVars
<1> QED BY <1>1, <1>2, <1>3, <1>4, <1>5, <1>6, <1>7 DEF Next

LEMMA InputTyped == TypeOK => \A x \in Members(input) : x \in Nat
<1> SUFFICES ASSUME TypeOK PROVE \A x \in Members(input) : x \in Nat
  OBVIOUS
<1>1. input \in Seq(Frames)
  BY DEF TypeOK
<1>2. Members(input) \subseteq Frames
  BY <1>1, MembersTyped
<1> QED BY <1>2, BoundsAssumption DEF Frames

LEMMA GotTyped ==
  TypeOK => \A g \in Members(got) : g.msg \in 1 .. N /\ g.kind \in {"refusal", "response"}
<1> SUFFICES ASSUME TypeOK, NEW g \in Members(got)
             PROVE  g.msg \in 1 .. N /\ g.kind \in {"refusal", "response"}
  OBVIOUS
<1>1. got \in Seq(Answers)
  BY DEF TypeOK, Answers
<1>2. g \in Answers
  BY <1>1, MembersTyped
<1> QED BY <1>2 DEF Answers

(* What the steps that leave the server and AgentOut alone do not change.   *)
LEMMA Unmoved ==
  ASSUME UNCHANGED <<output, stdout, stdinKept, served, written, child, heir>>
  PROVE  /\ OutputOk' = OutputOk /\ Answered' = Answered /\ Taken' = Taken
         /\ Reading' = Reading /\ ServerAlive' = ServerAlive
BY DEF OutputOk, Answered, Taken, Reading, ServerAlive

-----------------------------------------------------------------------------
(* The agent *)

LEMMA AgentSendsIndInv == ASSUME IndInv, TypeOK', AgentSends PROVE IndInv'
<1> USE DEF AgentSends, agentVars, streamVars, childVars, endVars
<1>0. /\ OutputOk' = OutputOk /\ Answered' = Answered /\ Taken' = Taken
      /\ Reading' = Reading /\ ServerAlive' = ServerAlive
  BY Unmoved
<1> USE <1>0
<1>1. PICK frame \in {sent + 1, Garbage} : input' = Append(input, frame)
  OBVIOUS
<1>2. /\ sent \in Nat /\ frame \in Frames /\ input \in Seq(Frames)
      /\ \A x \in Members(input) : x <= sent
      /\ Ordered(input)
      /\ up.msg <= sent /\ \A m \in Judged : m <= sent /\ m \in Nat
      /\ Judged' = Judged /\ Members(input) \subseteq Frames /\ sent' = sent + 1
  BY BoundsAssumption, ElementOfSeq, LenProperties
  DEF IndInv, TypeOK, InputAhead, Frames, Garbage, Judged, Members
<1>3. Members(input') = Members(input) \cup {frame}
  BY <1>1, <1>2, Appended
<1>4. Ordered(input')
  BY <1>1, <1>2, OrderedAppended, BoundsAssumption DEF Frames, Garbage
<1>5. InputAhead'
  BY <1>2, <1>3, <1>4, BoundsAssumption
  DEF IndInv, InputAhead, TypeOK, Frames, Garbage
<1>6. UpOK' /\ ReachedOK' /\ StdoutOK' /\ AnswersOK'
  BY DEF IndInv, UpOK, Judged, ReachedOK, Reached, Forwarded, StdoutOK, AnswersOK
<1>7. GotOK' /\ OwedOK' /\ EndOK'
  BY DEF IndInv, GotOK, AnsweredOnce, OwedOK, EndOK, Returned
<1> QED BY <1>5, <1>6, <1>7 DEF IndInv

LEMMA AgentClosesIndInv == ASSUME IndInv, TypeOK', AgentCloses PROVE IndInv'
<1> USE DEF AgentCloses, agentVars, streamVars, childVars, endVars
<1>1. Answered' = Answered /\ Taken' = Taken /\ Reading' = Reading /\ ServerAlive' = ServerAlive
  BY DEF Answered, Taken, Reading, ServerAlive
<1>2. UpOK' /\ InputAhead' /\ ReachedOK' /\ StdoutOK' /\ AnswersOK' /\ GotOK'
  BY <1>1 DEF IndInv, UpOK, Judged, InputAhead, ReachedOK, Reached, Forwarded, StdoutOK,
              AnswersOK, GotOK, AnsweredOnce
<1>3. OutputOk
  BY DEF IndInv, EndOK
<1>4. OwedOK' /\ EndOK'
  BY <1>1, <1>3 DEF IndInv, OwedOK, EndOK, Returned
<1> QED BY <1>2, <1>4 DEF IndInv

-----------------------------------------------------------------------------
(* The pump to the server *)

(* A step that takes no message and holds none. *)
LEMMA UpIdlesIndInv ==
  ASSUME IndInv, TypeOK', NEW pc \in {"reading", "closing", "done"}, UpTo(pc, 0),
         up.pc \in {"next", "reading", "closing"},
         up.pc = "closing" => pc = "done",
         UNCHANGED <<agentVars, input, got, verdict, down, stdin, stdinKept, stdout,
                     stdoutOpen, childVars, run>>
  PROVE  IndInv'
<1> USE DEF UpTo, agentVars, childVars
<1>0. /\ OutputOk' = OutputOk /\ Answered' = Answered /\ Taken' = Taken
      /\ Reading' = Reading /\ ServerAlive' = ServerAlive
  BY Unmoved
<1> USE <1>0
<1>1. Judged' = Judged /\ Reached' = Reached /\ Forwarded' = Forwarded
  BY DEF Judged, Reached, Forwarded
<1>2. up.msg = 0 /\ up.pc \notin {"judging", "refusing", "forwarding"}
  BY DEF IndInv, UpOK
<1>3. UpOK' /\ InputAhead'
  BY <1>1, <1>2 DEF IndInv, UpOK, InputAhead
<1>4. ReachedOK'
  BY <1>1, <1>2 DEF IndInv, ReachedOK
<1>5. StdoutOK' /\ AnswersOK' /\ EndOK'
  BY <1>2 DEF IndInv, StdoutOK, AnswersOK, EndOK, Returned
<1>6. GotOK' /\ OwedOK'
  BY <1>2 DEF IndInv, GotOK, AnsweredOnce, OwedOK
<1> QED BY <1>3, <1>4, <1>5, <1>6 DEF IndInv

LEMMA DecodedIndInv ==
  ASSUME IndInv, TypeOK', Decoded, up.pc \in {"next", "reading"},
         UNCHANGED <<agentVars, got, verdict, down, streamVars, childVars, run>>
  PROVE  IndInv'
<1> USE DEF Decoded, UpTo, agentVars, streamVars, childVars
<1>0. /\ OutputOk' = OutputOk /\ Answered' = Answered /\ Taken' = Taken
      /\ Reading' = Reading /\ ServerAlive' = ServerAlive
  BY Unmoved
<1> USE <1>0
<1>1. Judged' = Judged /\ Reached' = Reached /\ Forwarded' = Forwarded
  BY DEF Judged, Reached, Forwarded
<1>2. up.msg = 0 /\ up.pc \notin {"judging", "refusing", "forwarding"}
  BY DEF IndInv, UpOK
<1>3. /\ input \in Seq(Frames) /\ input # << >> /\ Head(input) \in Frames
      /\ Members(input) = {Head(input)} \cup Members(Tail(input))
      /\ Ordered(Tail(input))
      /\ Head(input) # Garbage =>
           \A x \in Members(Tail(input)) : x # Garbage => Head(input) < x
  BY Removed, OrderedRemoved, HeadTyped DEF IndInv, TypeOK, InputAhead
<1>4. /\ up'.pc \in {"closing", "judging"}
      /\ up'.msg = Head(input)
      /\ up'.pc = "closing" <=> Head(input) = Garbage
  BY DEF Garbage
<1>5. UpOK'
  BY <1>1, <1>3, <1>4 DEF IndInv, UpOK, InputAhead, Garbage
<1>6. InputAhead'
  <2>1. \A x \in Members(Tail(input)) : x \in Members(input) /\ x \in Nat
    BY <1>3, MembersTyped, BoundsAssumption DEF Frames
  <2>2. Head(input) <= sent /\ sent' = sent
    BY <1>3 DEF IndInv, InputAhead
  <2>3. \A x \in Members(Tail(input)) :
          x <= sent /\ (x # Garbage => Head(input) < x /\ \A m \in Judged : m < x)
    BY <1>3, <2>1 DEF IndInv, InputAhead, Garbage
  <2> QED BY <1>1, <1>3, <1>4, <2>2, <2>3 DEF IndInv, InputAhead
<1>7. ReachedOK'
  BY <1>1, <1>2, <1>4 DEF IndInv, ReachedOK
<1>8. StdoutOK' /\ AnswersOK' /\ EndOK'
  BY <1>2 DEF IndInv, StdoutOK, AnswersOK, EndOK, Returned
<1>9. \A m : up # [pc |-> "refusing", msg |-> m] /\ up' # [pc |-> "refusing", msg |-> m]
  BY <1>2, <1>4
<1>10. GotOK' /\ OwedOK'
  BY <1>9 DEF IndInv, GotOK, AnsweredOnce, OwedOK
<1> QED BY <1>5, <1>6, <1>7, <1>8, <1>10 DEF IndInv

LEMMA UpJudgedIndInv == ASSUME IndInv, TypeOK', UpJudged PROVE IndInv'
<1> USE DEF UpJudged, UpTo, agentVars, streamVars, childVars, endVars
<1>0. /\ OutputOk' = OutputOk /\ Answered' = Answered /\ Taken' = Taken
      /\ Reading' = Reading /\ ServerAlive' = ServerAlive
  BY Unmoved
<1> USE <1>0
<1> DEFINE k == up.msg
<1>1. /\ k \in 1 .. N /\ k \notin Judged
      /\ \A m \in Judged : m < k
      /\ verdict \in [1 .. N -> {"none", "forward", "refuse"}]
      /\ Judged \subseteq 1 .. N /\ Forwarded \subseteq Judged
  BY BoundsAssumption
  DEF IndInv, TypeOK, UpOK, Frames, Judged, Forwarded
<1>2. PICK v \in {"forward", "refuse"} :
        /\ verdict' = [verdict EXCEPT ![k] = v]
        /\ up' = [pc |-> IF v = "forward" THEN "forwarding" ELSE "refusing", msg |-> k]
  OBVIOUS
<1> HIDE DEF UpJudged
<1>3. /\ verdict'[k] = v /\ \A m \in 1 .. N : m # k => verdict'[m] = verdict[m]
      /\ Judged' = Judged \cup {k}
      /\ Forwarded' = IF v = "forward" THEN Forwarded \cup {k} ELSE Forwarded
  BY <1>1, <1>2 DEF Judged, Forwarded
<1>4. UNCHANGED <<sent, agentOpen, input, inputClosed, got, down, stdin, stdinOpen, stdout,
                  stdoutOpen, served, written, child, run>> /\ up.pc = "judging"
  BY DEF UpJudged
<1>5. UpOK'
  BY <1>1, <1>2, <1>3 DEF UpOK
<1>6. InputAhead'
  BY <1>1, <1>2, <1>3, <1>4 DEF IndInv, InputAhead
<1>7. ReachedOK'
  <2>1. Reached' = Reached
    BY <1>4 DEF Reached
  <2>2. k \notin Members(Reached)
    BY <1>1 DEF IndInv, ReachedOK
  <2>3. \A m \in Forwarded : m \in Members(Reached)
    BY <1>4 DEF IndInv, ReachedOK
  <2> QED BY <1>2, <1>3, <2>1, <2>2, <2>3 DEF IndInv, ReachedOK
<1>8. StdoutOK' /\ AnswersOK' /\ EndOK'
  BY <1>4 DEF IndInv, StdoutOK, AnswersOK, EndOK, Returned
<1>9. GotOK'
  <2>1. \A g \in Members(got) : g.msg \in 1 .. N
    BY GotTyped DEF IndInv
  <2>2. \A g \in Members(got) : g.kind = "refusal" => g.msg # k
    BY <1>1 DEF IndInv, GotOK, Judged
  <2> QED BY <1>2, <1>3, <1>4, <2>1, <2>2 DEF IndInv, GotOK, AnsweredOnce
<1>10. OwedOK'
  BY <1>2, <1>3, <1>4 DEF IndInv, OwedOK
<1> QED BY <1>5, <1>6, <1>7, <1>8, <1>9, <1>10 DEF IndInv

(* One more answer for the agent, to a message it has no answer for. *)
LEMMA GotOneMore ==
  ASSUME TypeOK, NEW a \in Answers, got' = Append(got, a), AnsweredOnce,
         \A g \in Members(got) : g.msg # a.msg
  PROVE  AnsweredOnce' /\ Members(got') = Members(got) \cup {a}
<1>1. /\ got \in Seq(Answers) /\ DOMAIN got = 1 .. Len(got) /\ Len(got) \in Nat
      /\ DOMAIN got' = 1 .. Len(got) + 1
      /\ \A i \in 1 .. Len(got) : got'[i] = got[i]
      /\ got'[Len(got) + 1] = a
  BY AppendProperties, LenProperties DEF TypeOK, Answers
<1>2. Members(got') = Members(got) \cup {a}
  BY <1>1, Appended
<1> QED BY <1>1, <1>2 DEF AnsweredOnce, Members

LEMMA UpRefusesIndInv == ASSUME IndInv, TypeOK', UpRefuses PROVE IndInv'
<1> USE DEF UpRefuses, UpTo, agentVars, streamVars, childVars, endVars
<1>0. /\ OutputOk' = OutputOk /\ Answered' = Answered /\ Taken' = Taken
      /\ Reading' = Reading /\ ServerAlive' = ServerAlive
  BY Unmoved
<1> USE <1>0
<1>1. /\ up.pc = "refusing" /\ up.msg \in 1 .. N /\ verdict[up.msg] = "refuse"
      /\ up = [pc |-> "refusing", msg |-> up.msg]
  BY DEF IndInv, TypeOK, UpOK, Frames
<1>2. Judged' = Judged /\ Reached' = Reached /\ Forwarded' = Forwarded
  BY DEF Judged, Reached, Forwarded
<1>3. UpOK' /\ InputAhead'
  <2>1. up'.msg <= up.msg /\ up'.pc \in {"next", "closing"} /\ up'.msg = 0
    BY <1>1
  <2>2. \A x \in Members(input) : up.msg < x => 0 < x
    BY <1>1, InputTyped DEF IndInv
  <2>3. 0 <= sent
    BY BoundsAssumption DEF IndInv, TypeOK
  <2> QED BY <1>1, <1>2, <2>1, <2>2, <2>3 DEF IndInv, UpOK, InputAhead
<1>4. ReachedOK' /\ StdoutOK' /\ AnswersOK' /\ EndOK'
  BY <1>1, <1>2 DEF IndInv, ReachedOK, StdoutOK, AnswersOK, EndOK, Returned
<1>5. up'.pc \in {"next", "closing"}
  OBVIOUS
<1>6. CASE ~OutputOk
  <2>1. UNCHANGED <<got, verdict, stdout, stdoutOpen, down, written>>
    BY <1>6
  <2> QED BY <1>3, <1>4, <1>5, <1>6, <2>1 DEF IndInv, GotOK, AnsweredOnce, OwedOK
<1>7. CASE OutputOk
  <2>1. Refusal(up.msg) \in Answers
    BY <1>1, AnswerTyped
  <2>2. \A g \in Members(got) : g.msg # up.msg
    <3>1. \A g \in Members(got) : g.kind \in {"refusal", "response"}
      BY GotTyped DEF IndInv
    <3>2. up.msg \notin Answered
      <4>1. Members(served) \subseteq Members(Reached)
        BY FirstMembers DEF IndInv, TypeOK, Reached
      <4> QED BY <1>1, <4>1 DEF IndInv, StdoutOK, AnswersOK, ReachedOK, Forwarded, Garbage
    <3> QED BY <1>1, <3>1, <3>2 DEF IndInv, GotOK
  <2>3. AnsweredOnce' /\ Members(got') = Members(got) \cup {Refusal(up.msg)}
    BY <1>7, <2>1, <2>2, GotOneMore DEF IndInv, GotOK, Refusal
  <2>4. GotOK'
    BY <1>1, <1>5, <2>3 DEF IndInv, GotOK, Refusal
  <2>5. OwedOK'
    BY <1>1, <1>5, <2>3 DEF IndInv, OwedOK
  <2> QED BY <1>3, <1>4, <2>4, <2>5 DEF IndInv
<1> QED BY <1>6, <1>7

LEMMA UpForwardsIndInv == ASSUME IndInv, TypeOK', UpForwards PROVE IndInv'
<1> USE DEF UpForwards, UpTo, agentVars, childVars, endVars
<1>0. /\ OutputOk' = OutputOk /\ Answered' = Answered /\ Taken' = Taken
      /\ Reading' = Reading /\ ServerAlive' = ServerAlive
  BY Unmoved
<1> USE <1>0
<1>1. /\ up.pc = "forwarding" /\ up.msg \in 1 .. N /\ verdict[up.msg] = "forward"
      /\ up.msg \notin Members(Reached) /\ up.msg \in Forwarded
      /\ \A m \in Judged : m <= up.msg
  BY DEF IndInv, TypeOK, UpOK, ReachedOK, Frames, Forwarded
<1>2. Judged' = Judged /\ Forwarded' = Forwarded /\ Forwarded \subseteq Judged
  BY DEF Judged, Forwarded
<1>3. up'.pc \in {"next", "closing"} /\ up'.msg = 0
  OBVIOUS
<1>4. UpOK' /\ InputAhead'
  <2>1. \A x \in Members(input) : up.msg < x => 0 < x
    BY <1>1, InputTyped DEF IndInv
  <2>2. 0 <= sent
    BY BoundsAssumption DEF IndInv, TypeOK
  <2> QED BY <1>1, <1>2, <1>3, <2>1, <2>2 DEF IndInv, UpOK, InputAhead
<1>5. StdoutOK' /\ AnswersOK' /\ EndOK'
  BY <1>1 DEF IndInv, StdoutOK, AnswersOK, EndOK, Returned
<1>6. GotOK' /\ OwedOK'
  <2>1. \A m : up # [pc |-> "refusing", msg |-> m] /\ up' # [pc |-> "refusing", msg |-> m]
    BY <1>1, <1>3
  <2> QED BY <2>1 DEF IndInv, GotOK, AnsweredOnce, OwedOK
<1>7. ReachedOK'
  <2>1. CASE Reading /\ stdin' = Append(stdin, up.msg)
    <3>1. /\ Reached \in Seq(1 .. N)
          /\ Reached' = Append(Reached, up.msg)
      BY <1>1, <2>1, AddedAtEnd, ConcatProperties DEF IndInv, TypeOK, Reached
    <3>2. Members(Reached') = Members(Reached) \cup {up.msg}
      <4> DEFINE S == 1 .. N
      <4>1. Reached \in Seq(S) /\ up.msg \in S
        BY <1>1, <3>1
      <4> HIDE DEF S
      <4>2. Members(Append(Reached, up.msg)) = Members(Reached) \cup {up.msg}
        BY <4>1, Appended
      <4> QED BY <3>1, <4>2
    <3>3. Ordered(Reached')
      <4>1. \A y \in Members(Reached) : y \in 1 .. N /\ y <= up.msg /\ y # up.msg
        BY <1>1, <1>2, <3>1, MembersTyped DEF IndInv, ReachedOK
      <4>2. \A y \in Members(Reached) : y < up.msg
        BY <1>1, <4>1
      <4>3. Ordered(Reached) /\ 1 .. N \in SUBSET Nat
        BY DEF IndInv, ReachedOK
      <4> QED BY <1>1, <3>1, <4>2, <4>3, OrderedAppended
    <3> QED BY <1>1, <1>2, <1>3, <2>1, <3>2, <3>3 DEF IndInv, ReachedOK
  <2>2. CASE ~Reading /\ up'.pc = "closing" /\ stdin' = stdin
    <3>1. Reached' = Reached
      BY <2>2 DEF Reached
    <3> QED BY <1>1, <1>2, <1>3, <2>2, <3>1 DEF IndInv, ReachedOK
  <2> QED BY <2>1, <2>2
<1> QED BY <1>4, <1>5, <1>6, <1>7 DEF IndInv

LEMMA UpIndInv == ASSUME IndInv, TypeOK', Up PROVE IndInv'
<1>1. CASE UpNext \/ UpDecoded
  <2>1. CASE Decoded
    BY <1>1, <2>1, DecodedIndInv DEF UpNext, UpDecoded, childVars, endVars
  <2>2. CASE (UpTo("reading", 0) \/ UpTo("closing", 0)) /\ UNCHANGED input
    BY <1>1, <2>2, UpIdlesIndInv DEF UpNext, UpDecoded, streamVars, childVars, endVars
  <2> QED BY <1>1, <2>1, <2>2 DEF UpNext, UpDecoded
<1>2. CASE UpReadFails
  BY <1>2, UpIdlesIndInv DEF UpReadFails, streamVars, childVars, endVars
<1>3. CASE UpCloses
  BY <1>3, UpIdlesIndInv DEF UpCloses, childVars, endVars
<1> QED BY <1>1, <1>2, <1>3, UpJudgedIndInv, UpRefusesIndInv, UpForwardsIndInv DEF Up

-----------------------------------------------------------------------------
(* The pump to the agent *)

(* The pump takes the next line of the server's output. *)
LEMMA LineTaken ==
  ASSUME TypeOK, StdoutOK, stdout # << >>, stdout' = Tail(stdout), written' = written
  PROVE  /\ StdoutOK' /\ Taken' = Taken + 1 /\ Taken \in Nat
         /\ Head(stdout) = written[Taken + 1]
<1>1. /\ stdout \in Seq(Frames) /\ written \in Seq(Frames)
      /\ Len(stdout) \in Nat \ {0} /\ Len(written) \in Nat /\ Head(stdout) = stdout[1]
      /\ Len(Tail(stdout)) = Len(stdout) - 1
      /\ \A k \in 1 .. Len(stdout) - 1 : Tail(stdout)[k] = stdout[k + 1]
  BY HeadTailProperties, EmptySeq, LenProperties DEF TypeOK
<1>2. Taken' = Taken + 1 /\ Taken \in Nat
  BY <1>1 DEF Taken, StdoutOK
<1>3. ASSUME NEW k \in 1 .. Len(stdout')
      PROVE  stdout'[k] = written'[Taken' + k]
  <2>1. k \in 1 .. Len(stdout) - 1 /\ k + 1 \in 1 .. Len(stdout)
    BY <1>1
  <2>2. stdout'[k] = stdout[k + 1] /\ stdout[k + 1] = written[Taken + (k + 1)]
    BY <1>1, <2>1 DEF StdoutOK
  <2>3. Taken + (k + 1) = Taken' + k
    BY <1>1, <1>2, <2>1
  <2> QED BY <2>2, <2>3
<1>4. stdout[1] = written[Taken + 1]
  BY <1>1 DEF StdoutOK
<1> QED BY <1>1, <1>2, <1>3, <1>4 DEF StdoutOK

(* The server writes a line: what was taken of its output stays the same.   *)
LEMMA LineWritten ==
  ASSUME TypeOK, StdoutOK, NEW m \in Frames,
         stdout' = Append(stdout, m), written' = Append(written, m)
  PROVE  /\ StdoutOK' /\ Taken' = Taken /\ Answered' = Answered \cup {m}
         /\ \A i \in 1 .. Taken : written'[i] = written[i]
<1>1. /\ stdout \in Seq(Frames) /\ written \in Seq(Frames)
      /\ Len(stdout) \in Nat /\ Len(written) \in Nat
      /\ DOMAIN written = 1 .. Len(written) /\ DOMAIN written' = 1 .. Len(written) + 1
      /\ Len(stdout') = Len(stdout) + 1 /\ Len(written') = Len(written) + 1
      /\ \A k \in 1 .. Len(stdout) : stdout'[k] = stdout[k]
      /\ \A k \in 1 .. Len(written) : written'[k] = written[k]
      /\ stdout'[Len(stdout) + 1] = m /\ written'[Len(written) + 1] = m
  BY AppendProperties, LenProperties DEF TypeOK
<1>2. Taken' = Taken /\ Taken \in Nat /\ Taken + Len(stdout) = Len(written)
  BY <1>1 DEF Taken, StdoutOK
<1>3. ASSUME NEW k \in 1 .. Len(stdout')
      PROVE  stdout'[k] = written'[Taken' + k]
  <2>1. CASE k \in 1 .. Len(stdout)
    <3>1. Taken + k \in 1 .. Len(written)
      BY <1>1, <1>2, <2>1
    <3>2. written'[Taken + k] = written[Taken + k]
      BY <1>1, <3>1
    <3>3. stdout'[k] = stdout[k] /\ stdout[k] = written[Taken + k]
      BY <1>1, <2>1 DEF StdoutOK
    <3> QED BY <1>2, <3>2, <3>3
  <2>2. CASE k = Len(stdout) + 1
    <3>1. Taken + (Len(stdout) + 1) = Len(written) + 1
      BY <1>1, <1>2
    <3>2. stdout'[k] = m
      BY <1>1, <2>2
    <3>3. written'[Taken' + k] = written'[Len(written) + 1]
      BY <1>2, <2>2, <3>1
    <3>4. written'[Len(written) + 1] = m
      BY <1>1
    <3> QED BY <3>2, <3>3, <3>4
  <2>3. k \in 1 .. Len(stdout) \/ k = Len(stdout) + 1
    BY <1>1
  <2> QED BY <2>1, <2>2, <2>3
<1>4. \A i \in 1 .. Taken : written'[i] = written[i]
  BY <1>1, <1>2
<1>5. Answered' = Answered \cup {m}
  BY <1>1 DEF Answered
<1> QED BY <1>2, <1>3, <1>4, <1>5 DEF StdoutOK

LEMMA DownReadsIndInv == ASSUME IndInv, TypeOK', DownReads PROVE IndInv'
<1> USE DEF DownReads, DownTo, agentVars, childVars, endVars
<1>1. /\ OutputOk' = OutputOk /\ Answered' = Answered
      /\ Reading' = Reading /\ ServerAlive' = ServerAlive
  BY DEF OutputOk, Answered, Reading, ServerAlive
<1>2. UpOK' /\ InputAhead' /\ ReachedOK'
  BY <1>1 DEF IndInv, UpOK, Judged, InputAhead, ReachedOK, Reached, Forwarded
<1>3. down.pc = "reading" /\ down.msg = 0
  BY DEF IndInv, AnswersOK
<1>4. EndOK'
  BY <1>1, <1>3 DEF IndInv, EndOK, Returned
<1>5. CASE stdout # << >> /\ stdout' = Tail(stdout)
  <2>1. /\ stdout \in Seq(Frames) /\ Head(stdout) \in Frames
        /\ Members(stdout) = {Head(stdout)} \cup Members(stdout')
        /\ Distinct(stdout') /\ Head(stdout) \notin Members(stdout')
    BY <1>5, Removed, HeadTyped DEF IndInv, TypeOK, AnswersOK
  <2>2. Head(stdout) \in Answered /\ Members(stdout') \subseteq Answered
    BY <2>1 DEF IndInv, AnswersOK
  <2>3. /\ StdoutOK' /\ Taken' = Taken + 1 /\ Taken \in Nat
        /\ Head(stdout) = written[Taken + 1]
    BY <1>5, LineTaken DEF IndInv
  <2>4. 1 .. Taken' = (1 .. Taken) \cup {Taken + 1}
    BY <2>3
  <2>5. CASE Head(stdout) = Garbage
    <3>1. down' = [pc |-> "cancelling", msg |-> 0]
      BY <1>5, <2>5
    <3>2. AnswersOK' /\ GotOK'
      BY <1>1, <2>1, <2>2, <3>1 DEF IndInv, AnswersOK, GotOK, AnsweredOnce
    <3>3. OwedOK'
      BY <1>1, <1>3, <2>3, <2>4, <2>5, <3>1 DEF IndInv, OwedOK
    <3> QED BY <1>2, <1>4, <2>3, <3>2, <3>3 DEF IndInv
  <2>6. CASE Head(stdout) # Garbage
    <3>1. down' = [pc |-> "writing", msg |-> Head(stdout)]
      BY <1>5, <2>6
    <3>2. AnswersOK'
      BY <1>1, <2>1, <2>2, <2>6, <3>1 DEF IndInv, AnswersOK, Garbage
    <3>3. GotOK'
      BY <1>1, <2>1, <3>1 DEF IndInv, GotOK, AnsweredOnce
    <3>4. OwedOK'
      BY <1>1, <1>3, <2>3, <2>4, <3>1 DEF IndInv, OwedOK
    <3> QED BY <1>2, <1>4, <2>3, <3>2, <3>3, <3>4 DEF IndInv
  <2> QED BY <2>5, <2>6
<1>6. CASE stdout = << >> /\ ~stdoutOpen /\ stdout' = stdout /\ down' = [pc |-> "cancelling", msg |-> 0]
  <2>1. Taken' = Taken /\ Taken = Len(written)
    <3>1. Len(stdout) = 0 /\ Len(written) \in Nat
      BY <1>6, EmptySeq, LenProperties DEF IndInv, TypeOK
    <3> QED BY <1>6, <3>1 DEF Taken
  <2>2. StdoutOK' /\ AnswersOK' /\ GotOK' /\ OwedOK'
    BY <1>1, <1>3, <1>6, <2>1 DEF IndInv, StdoutOK, AnswersOK, GotOK, AnsweredOnce, OwedOK
  <2> QED BY <1>2, <1>4, <2>2 DEF IndInv
<1> QED BY <1>5, <1>6

LEMMA DownWritesIndInv == ASSUME IndInv, TypeOK', DownWrites PROVE IndInv'
<1> USE DEF DownWrites, DownTo, agentVars, streamVars, childVars, endVars
<1>0. /\ OutputOk' = OutputOk /\ Answered' = Answered /\ Taken' = Taken
      /\ Reading' = Reading /\ ServerAlive' = ServerAlive
  BY Unmoved
<1> USE <1>0
<1>1. UpOK' /\ InputAhead' /\ ReachedOK'
  BY DEF IndInv, UpOK, Judged, InputAhead, ReachedOK, Reached, Forwarded
<1>2. /\ down.pc = "writing" /\ down.msg \in 1 .. N
      /\ down = [pc |-> "writing", msg |-> down.msg]
      /\ down.msg \in Answered \ Members(stdout)
      /\ down'.pc \in {"reading", "cancelling"} /\ down'.msg = 0
  BY DEF IndInv, TypeOK, StdoutOK, AnswersOK, Frames
<1>3. StdoutOK' /\ AnswersOK' /\ EndOK'
  BY <1>2 DEF IndInv, StdoutOK, AnswersOK, EndOK, Returned
<1>4. CASE ~OutputOk
  <2>1. UNCHANGED <<got, verdict, stdout, stdoutOpen, up, written>>
    BY <1>4
  <2> QED BY <1>1, <1>2, <1>3, <1>4, <2>1 DEF IndInv, GotOK, AnsweredOnce, OwedOK
<1>5. CASE OutputOk
  <2>1. Response(down.msg) \in Answers
    BY <1>2, AnswerTyped
  <2>2. \A g \in Members(got) : g.msg # down.msg
    <3>1. verdict[down.msg] = "forward"
      <4>1. Members(served) \subseteq Members(Reached)
        BY FirstMembers DEF IndInv, TypeOK, Reached
      <4> QED BY <1>2, <4>1 DEF IndInv, StdoutOK, AnswersOK, ReachedOK, Forwarded, Garbage
    <3> QED BY <1>2, <3>1, GotTyped DEF IndInv, GotOK
  <2>3. AnsweredOnce' /\ Members(got') = Members(got) \cup {Response(down.msg)}
    BY <1>5, <2>1, <2>2, GotOneMore DEF IndInv, GotOK, Response
  <2>4. GotOK'
    BY <1>2, <2>3 DEF IndInv, GotOK, Response
  <2>5. OwedOK'
    BY <1>2, <1>5, <2>3 DEF IndInv, OwedOK
  <2> QED BY <1>1, <1>3, <2>4, <2>5 DEF IndInv
<1> QED BY <1>4, <1>5

LEMMA DownCancelsIndInv == ASSUME IndInv, TypeOK', DownCancels PROVE IndInv'
<1> USE DEF DownCancels, DownTo, agentVars, streamVars, childVars, endVars
<1>0. /\ OutputOk' = OutputOk /\ Answered' = Answered /\ Taken' = Taken
      /\ Reading' = Reading /\ ServerAlive' = ServerAlive
  BY Unmoved
<1> USE <1>0
<1>1. UpOK' /\ InputAhead' /\ ReachedOK'
  BY DEF IndInv, UpOK, Judged, InputAhead, ReachedOK, Reached, Forwarded
<1>2. StdoutOK' /\ AnswersOK' /\ GotOK' /\ OwedOK' /\ EndOK'
  BY DEF IndInv, StdoutOK, AnswersOK, GotOK, AnsweredOnce, OwedOK, EndOK, Returned
<1> QED BY <1>1, <1>2 DEF IndInv

-----------------------------------------------------------------------------
(* The child *)

LEMMA ChildReadsIndInv == ASSUME IndInv, TypeOK', ChildReads PROVE IndInv'
<1> USE DEF ChildReads, agentVars, endVars
<1>0. /\ OutputOk' = OutputOk /\ Answered' = Answered /\ Taken' = Taken
      /\ Reading' = Reading /\ ServerAlive' = ServerAlive
  BY DEF OutputOk, Answered, Taken, Reading, ServerAlive
<1> USE <1>0
<1>1. /\ stdin \in Seq(1 .. N) /\ served \in Seq(1 .. N) /\ Head(stdin) \in 1 .. N
  BY HeadTyped DEF IndInv, TypeOK
<1>2. Reached' = Reached
  BY <1>1, MovedAcross DEF Reached
<1>3. Members(served) \subseteq Members(served')
  <2> DEFINE S == 1 .. N
  <2>1. served \in Seq(S) /\ Head(stdin) \in S
    BY <1>1
  <2> HIDE DEF S
  <2>2. Members(Append(served, Head(stdin))) = Members(served) \cup {Head(stdin)}
    BY <2>1, Appended
  <2> QED BY <2>2
<1>4. UpOK' /\ InputAhead' /\ ReachedOK'
  BY <1>2 DEF IndInv, UpOK, Judged, InputAhead, ReachedOK, Forwarded
<1>5. StdoutOK' /\ AnswersOK'
  BY <1>3 DEF IndInv, StdoutOK, AnswersOK
<1>6. GotOK' /\ OwedOK' /\ EndOK'
  BY DEF IndInv, GotOK, AnsweredOnce, OwedOK, EndOK, Returned
<1> QED BY <1>4, <1>5, <1>6 DEF IndInv

LEMMA ChildWritesIndInv == ASSUME IndInv, TypeOK', ChildWrites PROVE IndInv'
<1> USE DEF ChildWrites, agentVars, endVars
<1>0. OutputOk' = OutputOk /\ Reading' = Reading /\ ServerAlive' = ServerAlive
  BY DEF OutputOk, Reading, ServerAlive
<1> USE <1>0
<1>1. PICK m \in (Members(served) \cup {Garbage}) \ Answered :
        stdout' = Append(stdout, m) /\ written' = Append(written, m)
  BY DEF Members
<1>2. m \in Frames
  <2>1. Members(served) \subseteq 1 .. N
    BY MembersTyped DEF IndInv, TypeOK
  <2> QED BY <1>1, <2>1, BoundsAssumption DEF Frames, Garbage
<1>3. /\ stdout \in Seq(Frames) /\ m \notin Members(stdout)
      /\ Members(stdout') = Members(stdout) \cup {m} /\ Distinct(stdout')
  BY <1>1, <1>2, Appended DEF IndInv, TypeOK, AnswersOK
<1>4. /\ StdoutOK' /\ Taken' = Taken /\ Answered' = Answered \cup {m}
      /\ \A i \in 1 .. Taken : written'[i] = written[i]
  BY <1>1, <1>2, LineWritten DEF IndInv
<1>5. UpOK' /\ InputAhead' /\ ReachedOK'
  BY DEF IndInv, UpOK, Judged, InputAhead, ReachedOK, Reached, Forwarded
<1>6. AnswersOK'
  BY <1>1, <1>3, <1>4 DEF IndInv, AnswersOK
<1>7. GotOK' /\ EndOK'
  BY <1>1, <1>3, <1>4 DEF IndInv, GotOK, AnsweredOnce, EndOK, Returned
<1>8. OwedOK'
  BY <1>4 DEF IndInv, OwedOK
<1> QED BY <1>4, <1>5, <1>6, <1>7, <1>8 DEF IndInv

(* The server closes a pipe or ends: nothing it wrote is taken back, and a  *)
(* message the pump could not write stays the last one.                     *)
LEMMA ServerStopsIndInv ==
  ASSUME IndInv, TypeOK', Reading' => Reading,
         stdoutOpen' => stdoutOpen /\ ServerAlive',
         child # "running" => child' = child,
         UNCHANGED <<agentVars, input, got, verdict, up, down, stdin, stdout, served, written,
                     run>>
  PROVE  IndInv'
<1> USE DEF agentVars
<1>1. OutputOk' = OutputOk /\ Answered' = Answered /\ Taken' = Taken
  BY DEF OutputOk, Answered, Taken
<1>2. UpOK' /\ InputAhead' /\ ReachedOK'
  BY DEF IndInv, UpOK, Judged, InputAhead, ReachedOK, Reached, Forwarded
<1>3. StdoutOK' /\ AnswersOK' /\ GotOK'
  BY <1>1 DEF IndInv, StdoutOK, AnswersOK, GotOK, AnsweredOnce
<1>4. OwedOK' /\ EndOK'
  BY <1>1 DEF IndInv, OwedOK, EndOK, Returned
<1> QED BY <1>2, <1>3, <1>4 DEF IndInv

LEMMA ChildEndsIndInv ==
  ASSUME IndInv, TypeOK', NEW st, st # "running", ChildEnds(st),
         UNCHANGED <<agentVars, input, got, verdict, up, down, run>>
  PROVE  IndInv'
<1>1. Reading' => Reading
  BY DEF ChildEnds, Reading, ServerAlive
<1>2. stdoutOpen' => stdoutOpen /\ ServerAlive'
  BY WorldAssumption DEF ChildEnds, ServerAlive
<1> QED BY <1>1, <1>2, ServerStopsIndInv DEF ChildEnds

LEMMA ChildIndInv == ASSUME IndInv, TypeOK', Child PROVE IndInv'
<1>1. CASE ChildClosesStdin \/ ChildClosesStdout \/ HeirEnds
  <2>1. Reading' => Reading
    BY <1>1 DEF ChildClosesStdin, ChildClosesStdout, HeirEnds, Reading, ServerAlive, childVars
  <2>2. stdoutOpen' => stdoutOpen /\ ServerAlive'
    BY <1>1 DEF ChildClosesStdin, ChildClosesStdout, HeirEnds, ServerAlive, childVars, IndInv, EndOK
  <2>3. UNCHANGED <<agentVars, input, got, verdict, up, down, stdin, stdout, served, written,
                    child, run>>
    BY <1>1 DEF ChildClosesStdin, ChildClosesStdout, HeirEnds, childVars, endVars
  <2> QED BY <2>1, <2>2, <2>3, ServerStopsIndInv
<1>2. CASE ChildExits
  <2>1. PICK st \in {"ok", "failed"} : ChildEnds(st)
    BY <1>2 DEF ChildExits
  <2> QED BY <1>2, <2>1, ChildEndsIndInv DEF ChildExits, endVars
<1> QED BY <1>1, <1>2, ChildReadsIndInv, ChildWritesIndInv DEF Child

-----------------------------------------------------------------------------
(* The context and Run *)

(* Steps elsewhere, and those of an agent that reads no more: AgentOut can  *)
(* be written to as before.                                                 *)
LEMMA ElsewhereIndInv ==
  ASSUME IndInv, TypeOK', OutputOk' = OutputOk,
         UNCHANGED <<sent, agentOpen, input, got, verdict, up, down, streamVars, childVars, run>>
  PROVE  IndInv'
<1> USE DEF streamVars, childVars
<1>1. /\ Answered' = Answered /\ Taken' = Taken
      /\ Reading' = Reading /\ ServerAlive' = ServerAlive
  BY DEF Answered, Taken, Reading, ServerAlive
<1> USE <1>1
<1>2. UpOK' /\ InputAhead' /\ ReachedOK'
  BY DEF IndInv, UpOK, Judged, InputAhead, ReachedOK, Reached, Forwarded
<1>3. StdoutOK' /\ AnswersOK' /\ GotOK' /\ OwedOK' /\ EndOK'
  BY DEF IndInv, StdoutOK, AnswersOK, GotOK, AnsweredOnce, OwedOK, EndOK, Returned
<1> QED BY <1>2, <1>3 DEF IndInv

LEMMA ReapIndInv == ASSUME IndInv, TypeOK', Reap PROVE IndInv'
<1> USE DEF Reap, agentVars, streamVars, childVars
<1>0. /\ OutputOk' = OutputOk /\ Answered' = Answered /\ Taken' = Taken
      /\ Reading' = Reading /\ ServerAlive' = ServerAlive
  BY Unmoved
<1> USE <1>0
<1>1. UpOK' /\ InputAhead' /\ ReachedOK'
  BY DEF IndInv, UpOK, Judged, InputAhead, ReachedOK, Reached, Forwarded
<1>2. StdoutOK' /\ AnswersOK' /\ GotOK' /\ OwedOK'
  BY DEF IndInv, StdoutOK, AnswersOK, GotOK, AnsweredOnce, OwedOK
<1>3. EndOK'
  BY DEF IndInv, EndOK, Returned
<1> QED BY <1>1, <1>2, <1>3 DEF IndInv

(* Every step keeps the invariant. *)
LEMMA NextIndInv == IndInv /\ [Next]_vars => IndInv'
<1> SUFFICES ASSUME IndInv, [Next]_vars PROVE IndInv'
  OBVIOUS
<1>1. TypeOK'
  BY NextTyped DEF IndInv
<1>2. CASE Agent
  <2>1. CASE AgentStalls
    <3>1. OutputOk' = OutputOk
      BY <2>1 DEF AgentStalls, OutputOk
    <3> QED BY <1>1, <2>1, <3>1, ElsewhereIndInv DEF AgentStalls, endVars
  <2> QED BY <1>1, <1>2, <2>1, AgentSendsIndInv, AgentClosesIndInv DEF Agent
<1>3. CASE Up
  BY <1>1, <1>3, UpIndInv
<1>4. CASE Down
  BY <1>1, <1>4, DownReadsIndInv, DownWritesIndInv, DownCancelsIndInv DEF Down
<1>5. CASE Child
  BY <1>1, <1>5, ChildIndInv
<1>6. CASE Kill
  <2>1. CASE child = "running"
    BY <1>1, <1>6, <2>1, ChildEndsIndInv DEF Kill
  <2>2. CASE child # "running"
    BY <1>1, <1>6, <2>2, ElsewhereIndInv DEF Kill, OutputOk, agentVars
  <2> QED BY <2>1, <2>2
<1>7. CASE Reap
  BY <1>1, <1>7, ReapIndInv
<1>8. CASE Cancelled \/ CloseInput \/ UNCHANGED vars
  BY <1>1, <1>8, ElsewhereIndInv DEF Cancelled, CloseInput, vars, agentVars, endVars, OutputOk
<1> QED BY <1>2, <1>3, <1>4, <1>5, <1>6, <1>7, <1>8 DEF Next

LEMMA Invariance == Spec => []IndInv
BY InitIndInv, NextIndInv, PTL DEF Spec

-----------------------------------------------------------------------------
(* Every state of a session is well typed: neither pipe ever holds more     *)
(* than it can, and no pump writes a frame that is no message.              *)
THEOREM TypeCorrect == Spec => []TypeOK
BY Invariance, PTL DEF IndInv

(* pumpToServer: the server gets exactly the forwarded messages, each once  *)
(* and in the agent's order, for any number of messages.                    *)
THEOREM ServerSeesForwarded == Spec => []ForwardedInOrder
<1>1. IndInv => ForwardedInOrder
  <2> SUFFICES ASSUME IndInv PROVE ForwardedInOrder
    OBVIOUS
  <2>1. Members(Reached) \subseteq Forwarded /\ \A m \in Forwarded : m # Garbage
    BY DEF IndInv, ReachedOK, Forwarded, Garbage
  <2>2. \A i \in DOMAIN Reached : Reached[i] \in Forwarded
    BY <2>1 DEF Members
  <2>3. \A i, j \in DOMAIN Reached : i < j => Reached[i] < Reached[j]
    BY <2>1, <2>2 DEF IndInv, ReachedOK, Ordered
  <2>4. \A m \in Forwarded :
          \/ \E i \in DOMAIN Reached : Reached[i] = m
          \/ up.pc = "forwarding" /\ up.msg = m
          \/ ~Reading /\ \A n \in Forwarded : n <= m
    BY DEF IndInv, ReachedOK, Members
  <2> QED BY <2>2, <2>3, <2>4 DEF ForwardedInOrder
<1> QED BY <1>1, Invariance, PTL

(* pumpToServer and pumpToAgent share agentEnc: the agent never gets two    *)
(* answers to one message, whichever pump writes first.                     *)
THEOREM OneAnswer == Spec => []AnsweredOnce
BY Invariance, PTL DEF IndInv, GotOK

(* Run waits for both pumps before it reaps: when it returns to an agent    *)
(* that is still there, every refusal has been delivered, and every         *)
(* response the server wrote up to its first undecodable line, whatever     *)
(* cancelled the session, who died first and who held the pipes.            *)
THEOREM NothingLost == Spec => []NothingLostAtExit
<1>1. IndInv => NothingLostAtExit
  <2> SUFFICES ASSUME IndInv, Returned, OutputOk PROVE NothingLostAtExit
    BY DEF NothingLostAtExit, RefusalsDelivered, ResponsesDelivered
  <2>1. up.pc = "done" /\ down.pc = "done"
    BY DEF IndInv, EndOK
  <2>2. \A g \in Members(got) : Received(g)
    BY DEF Members, Received
  <2>3. RefusalsDelivered
    BY <2>1, <2>2 DEF IndInv, OwedOK, RefusalsDelivered
  <2>4. ResponsesDelivered
    <3> SUFFICES ASSUME NEW i \in DOMAIN written, \A j \in 1 .. i : written[j] # Garbage
                 PROVE  Response(written[i]) \in Members(got)
      BY <2>2 DEF ResponsesDelivered
    <3>1. i \in 1 .. Len(written) /\ Len(written) \in Nat /\ Taken \in Nat
      BY LenProperties DEF IndInv, TypeOK, StdoutOK
    <3>2. i \in 1 .. Taken
      <4>1. \/ Taken = Len(written)
            \/ \E j \in 1 .. Taken : written[j] = Garbage
        BY <2>1 DEF IndInv, OwedOK
      <4> QED BY <3>1, <4>1
    <3>3. written[i] # Garbage
      BY <3>1
    <3> QED BY <2>1, <3>2, <3>3 DEF IndInv, OwedOK
  <2> QED BY <2>3, <2>4 DEF NothingLostAtExit
<1> QED BY <1>1, Invariance, PTL

(* processSucceeded: Run never returns before the child has ended, and its  *)
(* result is the child's own status even when the watcher's signal raced    *)
(* with the exit.                                                           *)
THEOREM FaithfulExit == Spec => []ExitReportedFaithfully
BY Invariance, PTL DEF IndInv, EndOK, ExitReportedFaithfully
=============================================================================
