------------------------------ MODULE HttpProofs -----------------------------
(***************************************************************************)
(* Theorems about HttpProxy, for any posts and streams: the safety          *)
(* properties do not rest on the instance of the runs.                      *)
(*                                                                         *)
(* IndInv follows a post through servePost and its answer back to the       *)
(* agent.  The answer is on one of two ways, the post's own response or a   *)
(* frame on a stream that is not relayed yet, and as long as it is on       *)
(* either the pending table holds its request.  An answer is on one stream  *)
(* only and there once, and a stream is relayed to its end or to the first  *)
(* frame that does not decode.                                              *)
(***************************************************************************)
EXTENDS HttpProxy, SequenceTheorems, TLAPS

(* The answer to p is on a stream and not relayed yet. *)
OnStream(p) ==
  \E s \in Streams : \E k \in DOMAIN frames[s] : k > relayed[s] /\ frames[s][k].msg = p

(* What has been decided and done for a post, by the place it is at. *)
PostOK(p) ==
  /\ at[p] # "streaming"
  /\ at[p] \in {"none", "reading", "judging"} => verdict[p] = "none"
  /\ at[p] \in {"sending", "receiving"} => verdict[p] = "forward"
  /\ at[p] = "refusing" => verdict[p] = "refuse"
  /\ verdict[p] = "refuse" => at[p] \in {"refusing", "done"} /\ p \notin Lists
  /\ server[p] # "none" => verdict[p] = "forward"
  /\ at[p] # "done" => reply[p] = "none"
  /\ verdict[p] = "refuse" /\ at[p] = "done" /\ p \notin gone => reply[p] = "refusal"

StreamOK(s) ==
  /\ at[s] \in {"none", "sending", "streaming", "done"}
  /\ at[s] \in {"none", "sending"} => frames[s] = << >>
  /\ relayed[s] \in 0 .. Len(frames[s])
  /\ at[s] = "done" /\ s \notin gone =>
       ~Unread(s) \/ \E k \in 1 .. relayed[s] : frames[s][k].form # "whole"
  /\ at[s] = "streaming" /\ s \notin gone => reply[s] # "none"

(* A frame stands for an answer, and an answer is written once. *)
FramesOK ==
  \A s \in Streams : \A k \in DOMAIN frames[s] :
    frames[s][k].msg \in Posts =>
      /\ server[frames[s][k].msg] = "answered"
      /\ \A t \in Streams : \A l \in DOMAIN frames[t] :
           frames[t][l].msg = frames[s][k].msg => t = s /\ l = k

(* What has been relayed in full to a client that stayed is with the agent. *)
RelayedOK ==
  \A s \in Streams \ gone : \A k \in 1 .. relayed[s] :
    frames[s][k].form = "whole" => received[frames[s][k].msg] # "none"

(* A list request that may still be answered, or whose answer is still on a *)
(* stream, is in the pending table.                                         *)
PendingOK ==
  \A p \in Lists :
    /\ verdict[p] = "forward" /\ (server[p] # "answered" \/ OnStream(p)) => p \in pending
    /\ received[p] # "plain"

(* An answer that was in a body is with the agent, replaced by an error, or *)
(* lost with the client.                                                    *)
AnsweredOK ==
  \A p \in Posts : server[p] = "answered" /\ ~Pushed(p) =>
    received[p] # "none" \/ p \in gone \/ reply[p] = "error"

MessagesOK == FramesOK /\ RelayedOK /\ PendingOK /\ AnsweredOK

RunOK ==
  /\ \A e \in Exchanges : at[e] = "done" /\ e \notin gone => reply[e] # "none"
  /\ run = "clean" => \A e \in Exchanges : ~Active(e)
  /\ run = "timedOut" => \A p \in Posts : at[p] # "refusing"

IndInv ==
  /\ TypeOK
  /\ \A p \in Posts : PostOK(p)
  /\ \A s \in Streams : StreamOK(s)
  /\ MessagesOK /\ RunOK

-----------------------------------------------------------------------------
(* The start, and the types *)

LEMMA InitIndInv == Init => IndInv
<1> SUFFICES ASSUME Init PROVE IndInv
  OBVIOUS
<1> USE ExchangesAssumption DEF Init
<1>1. << >> \in Seq(Frames)
  BY EmptySeq
<1>2. TypeOK
  <2>1. at \in [Exchanges -> Places] /\ reply \in [Exchanges -> Responses]
    BY DEF Places, Responses
  <2>2. /\ verdict \in [Posts -> {"none", "forward", "refuse"}]
        /\ server \in [Posts -> {"none", "has", "answered"}]
        /\ received \in [Posts -> {"none", "plain", "filtered", "raw"}]
    OBVIOUS
  <2>3. frames \in [Streams -> Seq(Frames)] /\ relayed \in [Streams -> Nat]
    BY <1>1
  <2> QED BY <2>1, <2>2, <2>3 DEF TypeOK
<1>3. \A s \in Streams : frames[s] = << >> /\ relayed[s] = 0
  OBVIOUS
<1>4. \A p \in Posts : ~OnStream(p) /\ PostOK(p)
  BY <1>3 DEF OnStream, PostOK, Exchanges
<1>5. \A s \in Streams : StreamOK(s)
  BY <1>3 DEF StreamOK, Exchanges
<1>6. MessagesOK /\ RunOK
  BY <1>3, <1>4 DEF MessagesOK, FramesOK, RelayedOK, PendingOK, AnsweredOK, RunOK, Exchanges
<1> QED BY <1>2, <1>4, <1>5, <1>6 DEF IndInv

LEMMA GotoTyped ==
  ASSUME TypeOK, NEW e \in Exchanges, NEW place \in Places, Goto(e, place)
  PROVE  /\ at' \in [Exchanges -> Places]
         /\ at'[e] = place /\ \A x \in Exchanges : x # e => at'[x] = at[x]
BY DEF TypeOK, Goto

LEMMA RespondTyped ==
  ASSUME TypeOK, NEW e \in Exchanges, NEW response \in Responses, Respond(e, response)
  PROVE  /\ at' \in [Exchanges -> Places]
         /\ at'[e] = "done" /\ \A x \in Exchanges : x # e => at'[x] = at[x]
         /\ reply' \in [Exchanges -> Responses]
         /\ e \notin gone => reply'[e] = response
         /\ \A x \in Exchanges : x # e => reply'[x] = reply[x]
<1>1. "done" \in Places /\ Goto(e, "done")
  BY DEF Places, Respond
<1>2. reply' = reply \/ reply' = [reply EXCEPT ![e] = response]
  BY DEF Respond
<1>3. e \notin gone => reply' = [reply EXCEPT ![e] = response]
  BY DEF Respond
<1> QED BY <1>1, <1>2, <1>3, GotoTyped DEF TypeOK

LEMMA OutboundTyped ==
  ASSUME TypeOK, NEW p \in Posts, NEW d \in BOOLEAN, Outbound(p, d)
  PROVE  /\ pending' \subseteq Lists
         /\ received' \in [Posts -> {"none", "plain", "filtered", "raw"}]
BY DEF TypeOK, Outbound

LEMMA FrameTyped ==
  ASSUME TypeOK, NEW s \in Streams, NEW k \in DOMAIN frames[s]
  PROVE  /\ frames[s][k] \in Frames
         /\ frames[s][k].msg \in Posts <=> frames[s][k].form \in {"whole", "large"}
<1>1. frames[s] \in Seq(Frames)
  BY DEF TypeOK
<1>2. frames[s][k] \in Frames
  BY <1>1, ElementOfSeq, LenProperties
<1> QED BY <1>2, GarbageAssumption DEF Frames, Garbled

(* A stream with something unread has a next frame. *)
LEMMA NextFrame ==
  ASSUME TypeOK, NEW s \in Streams, Unread(s)
  PROVE  relayed[s] \in Nat /\ relayed[s] + 1 \in DOMAIN frames[s]
<1>1. frames[s] \in Seq(Frames) /\ relayed[s] \in Nat
  BY DEF TypeOK
<1>2. Len(frames[s]) \in Nat /\ DOMAIN frames[s] = 1 .. Len(frames[s])
  BY <1>1, LenProperties
<1> QED BY <1>1, <1>2 DEF Unread

(* Every action keeps the types. *)
LEMMA NextTyped == TypeOK /\ [Next]_vars => TypeOK'
<1> SUFFICES ASSUME TypeOK, [Next]_vars PROVE TypeOK'
  OBVIOUS
<1> USE ExchangesAssumption DEF messageVars
<1>1. ASSUME NEW e \in Exchanges, ServeHTTP(e) PROVE TypeOK'
  <2>1. at' \in [Exchanges -> Places]
    BY <1>1, GotoTyped DEF ServeHTTP, Places
  <2> QED BY <1>1, <2>1 DEF ServeHTTP, TypeOK
<1>2. ASSUME NEW e \in Exchanges, ClientLeaves(e) PROVE TypeOK'
  BY <1>2 DEF ClientLeaves, TypeOK
<1>3. ASSUME NEW e \in Exchanges, HeadArrives(e) PROVE TypeOK'
  <2>1. at' \in [Exchanges -> Places]
    BY <1>3, GotoTyped DEF HeadArrives, Places
  <2>2. reply' \in [Exchanges -> Responses]
    BY <1>3 DEF HeadArrives, TypeOK, Responses
  <2> QED BY <1>3, <2>1, <2>2 DEF HeadArrives, TypeOK
<1>4. ASSUME NEW e \in Exchanges, Fail(e) PROVE TypeOK'
  <2>1. at' \in [Exchanges -> Places] /\ reply' \in [Exchanges -> Responses]
    BY <1>4, RespondTyped DEF Fail, Responses
  <2> QED BY <1>4, <2>1 DEF Fail, TypeOK
<1>5. ASSUME NEW p \in Posts, Post(p) PROVE TypeOK'
  <2>1. p \in Exchanges
    BY DEF Exchanges
  <2>2. CASE ReadBody(p)
    <3>1. at' \in [Exchanges -> Places] /\ reply' \in [Exchanges -> Responses]
      BY <2>1, <2>2, GotoTyped, RespondTyped DEF ReadBody, Places, Responses, TypeOK
    <3> QED BY <2>2, <3>1 DEF ReadBody, TypeOK
  <2>3. CASE Judge(p)
    <3>1. at' \in [Exchanges -> Places]
      BY <2>1, <2>3, GotoTyped DEF Judge, Places
    <3>2. verdict' \in [Posts -> {"none", "forward", "refuse"}]
      BY <2>3 DEF Judge, TypeOK
    <3>3. pending' \subseteq Lists /\ ctx' \in {"live", "done"}
      BY <2>3 DEF Judge, TypeOK
    <3> QED BY <2>3, <3>1, <3>2, <3>3 DEF Judge, TypeOK
  <2>4. CASE Refuse(p)
    <3>1. at' \in [Exchanges -> Places] /\ reply' \in [Exchanges -> Responses]
      BY <2>1, <2>4, RespondTyped DEF Refuse, Responses
    <3> QED BY <2>4, <3>1 DEF Refuse, TypeOK
  <2>5. CASE Deliver(p)
    BY <2>5 DEF Deliver, TypeOK
  <2>6. CASE BodyArrives(p)
    <3>1. at' \in [Exchanges -> Places] /\ reply' \in [Exchanges -> Responses]
      BY <2>1, <2>6, RespondTyped DEF BodyArrives, Responses
    <3>2. /\ pending' \subseteq Lists
          /\ received' \in [Posts -> {"none", "plain", "filtered", "raw"}]
      BY <2>6, OutboundTyped DEF BodyArrives, TypeOK
    <3>3. server' \in [Posts -> {"none", "has", "answered"}]
      BY <2>6 DEF BodyArrives, TypeOK
    <3> QED BY <2>6, <3>1, <3>2, <3>3 DEF BodyArrives, TypeOK
  <2> QED BY <1>5, <2>2, <2>3, <2>4, <2>5, <2>6 DEF Post
<1>6. ASSUME NEW s \in Streams, Relay(s) PROVE TypeOK'
  <2>1. s \in Exchanges /\ "done" \in Places
    BY DEF Exchanges, Places
  <2>2. at' \in [Exchanges -> Places]
    BY <1>6, <2>1, GotoTyped DEF Relay, TypeOK
  <2>3. relayed' \in [Streams -> Nat] /\ relayed'[s] = relayed[s] + 1
    BY <1>6, NextFrame DEF Relay, TypeOK
  <2>4. frames[s][relayed[s] + 1].form = "whole" => frames[s][relayed[s] + 1].msg \in Posts
    BY <1>6, NextFrame, FrameTyped DEF Relay
  <2>5. /\ pending' \subseteq Lists
        /\ received' \in [Posts -> {"none", "plain", "filtered", "raw"}]
    BY <1>6, <2>3, <2>4, OutboundTyped DEF Relay, TypeOK
  <2> QED BY <1>6, <2>2, <2>3, <2>5 DEF Relay, TypeOK
<1>7. ASSUME NEW s \in Streams, StreamEnds(s) PROVE TypeOK'
  <2>1. at' \in [Exchanges -> Places]
    BY <1>7, GotoTyped DEF StreamEnds, Places, Exchanges
  <2> QED BY <1>7, <2>1 DEF StreamEnds, TypeOK
<1>8. ASSUME NEW s \in Streams, NEW frame \in Frames, ServerPushes(s, frame)
      PROVE  TypeOK'
  <2>1. Append(frames[s], frame) \in Seq(Frames)
    BY AppendProperties DEF TypeOK
  <2>2. frames' \in [Streams -> Seq(Frames)]
    BY <1>8, <2>1 DEF ServerPushes, TypeOK
  <2>3. server' \in [Posts -> {"none", "has", "answered"}]
    <3>1. server' = server \/ server' = [server EXCEPT ![frame.msg] = "answered"]
      BY <1>8 DEF ServerPushes
    <3> QED BY <3>1 DEF TypeOK
  <2> QED BY <1>8, <2>2, <2>3 DEF ServerPushes, TypeOK
<1>9. CASE Signal \/ ListenFails \/ Shutdown \/ Drained \/ Expire
  BY <1>9 DEF Signal, ListenFails, Shutdown, Drained, Expire, TypeOK
<1>10. CASE UNCHANGED vars
  BY <1>10 DEF vars, TypeOK
<1> QED
  BY <1>1, <1>2, <1>3, <1>4, <1>5, <1>6, <1>7, <1>8, <1>9, <1>10 DEF Next, Stream

-----------------------------------------------------------------------------
(* Steps that touch no message *)

(* Nothing is written or relayed; clients may leave, and no post that has   *)
(* its error loses it.                                                      *)
LEMMA MessagesUntouched ==
  ASSUME IndInv, UNCHANGED messageVars, gone \subseteq gone',
         \A p \in Posts : reply[p] = "error" => reply'[p] = "error"
  PROVE  MessagesOK'
<1> USE DEF messageVars
<1>1. \A p : (OnStream(p)' <=> OnStream(p)) /\ (Pushed(p)' <=> Pushed(p))
  BY DEF OnStream, Pushed
<1>2. FramesOK' /\ RelayedOK' /\ PendingOK'
  BY <1>1 DEF IndInv, MessagesOK, FramesOK, RelayedOK, PendingOK
<1>3. AnsweredOK'
  BY <1>1 DEF IndInv, MessagesOK, AnsweredOK
<1> QED BY <1>2, <1>3 DEF MessagesOK

(* An exchange of another kind is not disturbed by a step of e.             *)
LEMMA OthersUntouched ==
  ASSUME IndInv, NEW e \in Exchanges,
         \A x \in Exchanges : x # e => at'[x] = at[x] /\ reply'[x] = reply[x],
         UNCHANGED <<gone, messageVars>>
  PROVE  /\ \A p \in Posts : p # e => PostOK(p)'
         /\ \A s \in Streams : s # e => StreamOK(s)'
BY DEF IndInv, PostOK, StreamOK, Unread, Exchanges, messageVars

LEMMA ServeHTTPIndInv ==
  ASSUME IndInv, TypeOK', ~Returned, NEW e \in Exchanges, ServeHTTP(e) PROVE IndInv'
<1> USE ExchangesAssumption DEF ServeHTTP
<1>1. /\ at[e] = "none" /\ at'[e] = IF e \in Streams THEN "sending" ELSE "reading"
      /\ \A x \in Exchanges : x # e => at'[x] = at[x]
  BY DEF IndInv, TypeOK, Goto
<1>2. MessagesOK'
  BY MessagesUntouched
<1>3. /\ \A p \in Posts : p # e => PostOK(p)'
      /\ \A s \in Streams : s # e => StreamOK(s)'
  BY <1>1, OthersUntouched
<1>4. e \in Posts => PostOK(e)'
  BY <1>1 DEF IndInv, PostOK, messageVars
<1>5. e \in Streams => StreamOK(e)'
  BY <1>1 DEF IndInv, StreamOK, Unread, messageVars
<1>6. RunOK'
  BY <1>1 DEF IndInv, RunOK, Returned
<1> QED BY <1>2, <1>3, <1>4, <1>5, <1>6 DEF IndInv

LEMMA ClientLeavesIndInv ==
  ASSUME IndInv, TypeOK', ~Returned, NEW e \in Exchanges, ClientLeaves(e) PROVE IndInv'
<1> USE DEF ClientLeaves, messageVars
<1>1. MessagesOK'
  BY MessagesUntouched
<1>2. \A p \in Posts : PostOK(p)'
  BY DEF IndInv, PostOK
<1>3. \A s \in Streams : StreamOK(s)'
  BY DEF IndInv, StreamOK, Unread
<1>4. RunOK'
  BY DEF IndInv, RunOK, Returned
<1> QED BY <1>1, <1>2, <1>3, <1>4 DEF IndInv

(* The handler of e returns with a response, which is the refusal if the    *)
(* post was refused.                                                        *)
LEMMA RespondIndInv ==
  ASSUME IndInv, TypeOK', ~Returned, NEW e \in Exchanges,
         NEW response \in Responses \ {"none"}, Respond(e, response),
         Active(e),
         e \in Posts /\ verdict[e] = "refuse" => response = "refusal",
         e \in Streams => ~Unread(e),
         UNCHANGED <<gone, messageVars, run>>
  PROVE  IndInv'
<1> USE ExchangesAssumption
<1>1. /\ at'[e] = "done" /\ \A x \in Exchanges : x # e => at'[x] = at[x]
      /\ e \notin gone => reply'[e] = response
      /\ \A x \in Exchanges : x # e => reply'[x] = reply[x]
  BY RespondTyped DEF IndInv
<1>2. MessagesOK'
  <2>1. \A p \in Posts : reply[p] = "error" => reply'[p] = "error"
    BY <1>1 DEF IndInv, PostOK, Active, Exchanges
  <2> QED BY <2>1, MessagesUntouched
<1>3. /\ \A p \in Posts : p # e => PostOK(p)'
      /\ \A s \in Streams : s # e => StreamOK(s)'
  BY <1>1, OthersUntouched
<1>4. e \in Posts => PostOK(e)'
  BY <1>1 DEF IndInv, PostOK, messageVars
<1>5. e \in Streams => StreamOK(e)'
  BY <1>1 DEF IndInv, StreamOK, Unread, messageVars
<1>6. RunOK'
  BY <1>1 DEF IndInv, RunOK, Returned, Active
<1> QED BY <1>2, <1>3, <1>4, <1>5, <1>6 DEF IndInv

LEMMA ReadBodyIndInv ==
  ASSUME IndInv, TypeOK', ~Returned, NEW p \in Posts, ReadBody(p) PROVE IndInv'
<1> USE ExchangesAssumption DEF ReadBody
<1>1. p \in Exchanges /\ p \notin Streams /\ verdict[p] = "none"
  BY DEF Exchanges, IndInv, PostOK
<1>2. CASE Respond(p, "rejected")
  BY <1>1, <1>2, RespondIndInv DEF Responses, Active
<1>3. CASE Goto(p, "judging") /\ UNCHANGED reply
  <2>1. at'[p] = "judging" /\ \A x \in Exchanges : x # p => at'[x] = at[x]
    BY <1>1, <1>3 DEF IndInv, TypeOK, Goto
  <2>2. MessagesOK'
    BY <1>3, MessagesUntouched
  <2>3. /\ \A q \in Posts : q # p => PostOK(q)'
        /\ \A s \in Streams : s # p => StreamOK(s)'
    BY <1>1, <1>3, <2>1, OthersUntouched
  <2>4. PostOK(p)'
    BY <1>1, <1>3, <2>1 DEF IndInv, PostOK, messageVars
  <2>5. RunOK'
    BY <1>1, <1>3, <2>1 DEF IndInv, RunOK, Returned
  <2> QED BY <1>1, <2>2, <2>3, <2>4, <2>5 DEF IndInv
<1> QED BY <1>2, <1>3

LEMMA RefuseIndInv ==
  ASSUME IndInv, TypeOK', ~Returned, NEW p \in Posts, Refuse(p) PROVE IndInv'
<1>1. p \in Exchanges /\ p \notin Streams
  BY ExchangesAssumption DEF Exchanges
<1> QED BY <1>1, RespondIndInv DEF Refuse, Responses, Active

LEMMA FailIndInv ==
  ASSUME IndInv, TypeOK', ~Returned, NEW e \in Exchanges, Fail(e) PROVE IndInv'
<1>1. e \in Posts => verdict[e] = "forward"
  BY DEF Fail, IndInv, PostOK
<1>2. e \in Streams => ~Unread(e)
  <2>1. e \in Streams => at[e] = "sending" /\ frames[e] = << >> /\ relayed[e] = 0
    BY DEF Fail, IndInv, StreamOK
  <2> QED BY <2>1 DEF Unread
<1> QED BY <1>1, <1>2, RespondIndInv DEF Fail, Responses, Active

LEMMA HeadArrivesIndInv ==
  ASSUME IndInv, TypeOK', ~Returned, NEW e \in Exchanges, HeadArrives(e) PROVE IndInv'
<1> USE ExchangesAssumption DEF HeadArrives
<1>1. /\ at[e] = "sending" /\ at'[e] = IF e \in Streams THEN "streaming" ELSE "receiving"
      /\ \A x \in Exchanges : x # e => at'[x] = at[x] /\ reply'[x] = reply[x]
      /\ e \in Streams /\ e \notin gone => reply'[e] = "events"
      /\ e \notin Streams => reply' = reply
  BY DEF IndInv, TypeOK, Goto
<1>2. MessagesOK'
  <2>1. \A p \in Posts : reply'[p] = reply[p]
    BY <1>1 DEF Exchanges
  <2> QED BY <2>1, MessagesUntouched
<1>3. /\ \A p \in Posts : p # e => PostOK(p)'
      /\ \A s \in Streams : s # e => StreamOK(s)'
  BY <1>1, OthersUntouched
<1>4. e \in Posts => PostOK(e)'
  BY <1>1 DEF IndInv, PostOK, messageVars
<1>5. e \in Streams => StreamOK(e)'
  <2>1. e \in Streams => UNCHANGED <<gone, frames, relayed>>
    BY DEF messageVars
  <2> QED BY <1>1, <2>1 DEF IndInv, StreamOK, Unread
<1>6. RunOK'
  BY <1>1 DEF IndInv, RunOK, Returned
<1> QED BY <1>2, <1>3, <1>4, <1>5, <1>6 DEF IndInv

LEMMA StreamEndsIndInv ==
  ASSUME IndInv, TypeOK', ~Returned, NEW s \in Streams, StreamEnds(s) PROVE IndInv'
<1> USE ExchangesAssumption DEF StreamEnds
<1>1. /\ s \in Exchanges /\ s \notin Posts
      /\ at'[s] = "done" /\ \A x \in Exchanges : x # s => at'[x] = at[x]
      /\ s \notin gone => reply[s] # "none"
  BY DEF IndInv, TypeOK, Goto, Exchanges, StreamOK
<1>2. MessagesOK'
  BY MessagesUntouched
<1>3. /\ \A p \in Posts : p # s => PostOK(p)'
      /\ \A t \in Streams : t # s => StreamOK(t)'
  BY <1>1, OthersUntouched
<1>4. StreamOK(s)'
  BY <1>1 DEF IndInv, StreamOK, Unread, messageVars
<1>5. RunOK'
  BY <1>1 DEF IndInv, RunOK, Returned
<1> QED BY <1>1, <1>2, <1>3, <1>4, <1>5 DEF IndInv

LEMMA RunIndInv ==
  ASSUME IndInv, TypeOK', ~Returned,
         Signal \/ ListenFails \/ Shutdown \/ Drained \/ Expire
  PROVE  IndInv'
<1> USE DEF Signal, ListenFails, Shutdown, Drained, Expire
<1>1. UNCHANGED <<at, gone, reply, messageVars>>
  OBVIOUS
<1>2. MessagesOK'
  BY <1>1, MessagesUntouched
<1>3. (\A p \in Posts : PostOK(p)') /\ (\A s \in Streams : StreamOK(s)')
  BY <1>1 DEF IndInv, PostOK, StreamOK, Unread, messageVars
<1>4. RunOK'
  <2>1. run' = "timedOut" => \A p \in Posts : at[p] # "refusing"
    BY DEF Waits, Active, Exchanges, Returned
  <2>2. run' = "clean" => \A e \in Exchanges : ~Active(e)
    BY DEF Returned
  <2> QED BY <1>1, <2>1, <2>2 DEF IndInv, RunOK, Active
<1> QED BY <1>2, <1>3, <1>4 DEF IndInv

-----------------------------------------------------------------------------
(* Steps of a message *)

LEMMA JudgeIndInv ==
  ASSUME IndInv, TypeOK', ~Returned, NEW p \in Posts, Judge(p) PROVE IndInv'
<1> USE ExchangesAssumption DEF Judge
<1>1. p \in Exchanges /\ p \notin Streams /\ verdict[p] = "none" /\ server[p] = "none"
  BY DEF Exchanges, IndInv, PostOK, TypeOK
<1>2. PICK v \in {"forward", "refuse"} :
        /\ verdict' = [verdict EXCEPT ![p] = v]
        /\ at' = [at EXCEPT ![p] = IF v = "forward" THEN "sending" ELSE "refusing"]
        /\ v = "refuse" => p \notin Lists /\ pending' = pending
        /\ v = "forward" => pending' = pending \cup ({p} \cap Lists)
  BY DEF Goto
<1>3. /\ verdict'[p] = v /\ \A q \in Posts : q # p => verdict'[q] = verdict[q]
      /\ at'[p] = IF v = "forward" THEN "sending" ELSE "refusing"
      /\ \A x \in Exchanges : x # p => at'[x] = at[x]
  BY <1>1, <1>2 DEF IndInv, TypeOK
<1>4. UNCHANGED <<gone, reply, server, frames, relayed, received, run>> /\ at[p] = "judging"
  OBVIOUS
<1> HIDE DEF Judge
<1>5. \A q \in Posts : PostOK(q)'
  BY <1>1, <1>2, <1>3, <1>4 DEF IndInv, PostOK, Exchanges
<1>6. \A s \in Streams : StreamOK(s)'
  BY <1>1, <1>3, <1>4 DEF IndInv, StreamOK, Unread, Exchanges
<1>7. \A q : (OnStream(q)' <=> OnStream(q)) /\ (Pushed(q)' <=> Pushed(q))
  BY <1>4 DEF OnStream, Pushed
<1>8. FramesOK' /\ RelayedOK' /\ AnsweredOK'
  BY <1>4, <1>7 DEF IndInv, MessagesOK, FramesOK, RelayedOK, AnsweredOK
<1>9. PendingOK'
  BY <1>2, <1>3, <1>4, <1>7 DEF IndInv, MessagesOK, PendingOK
<1>10. RunOK'
  BY <1>1, <1>3, <1>4 DEF IndInv, RunOK, Returned
<1> QED BY <1>5, <1>6, <1>8, <1>9, <1>10 DEF IndInv, MessagesOK

LEMMA DeliverIndInv ==
  ASSUME IndInv, TypeOK', ~Returned, NEW p \in Posts, Deliver(p) PROVE IndInv'
<1> USE DEF Deliver
<1>1. verdict[p] = "forward" /\ server[p] = "none"
  BY DEF IndInv, PostOK
<1>2. server'[p] = "has" /\ \A q \in Posts : q # p => server'[q] = server[q]
  BY DEF IndInv, TypeOK
<1>3. \A q : (OnStream(q)' <=> OnStream(q)) /\ (Pushed(q)' <=> Pushed(q))
  BY DEF OnStream, Pushed
<1>4. (\A q \in Posts : PostOK(q)') /\ (\A s \in Streams : StreamOK(s)') /\ RunOK'
  BY <1>1, <1>2 DEF IndInv, PostOK, StreamOK, Unread, RunOK, Active
<1>5. FramesOK' /\ RelayedOK'
  BY <1>1, <1>2 DEF IndInv, MessagesOK, FramesOK, RelayedOK
<1>6. PendingOK' /\ AnsweredOK'
  BY <1>1, <1>2, <1>3, ExchangesAssumption DEF IndInv, MessagesOK, PendingOK, AnsweredOK
<1> QED BY <1>4, <1>5, <1>6 DEF IndInv, MessagesOK

(* The answer in the body of the post: it is on no stream, so it is still   *)
(* pending if it goes through the filter.                                   *)
LEMMA BodyArrivesIndInv ==
  ASSUME IndInv, TypeOK', ~Returned, NEW p \in Posts, BodyArrives(p) PROVE IndInv'
<1> USE ExchangesAssumption
<1>1. /\ p \in Exchanges /\ p \notin Streams /\ verdict[p] = "forward" /\ at[p] = "receiving"
      /\ UNCHANGED <<gone, verdict, frames, relayed, ctx, run>>
  BY DEF BodyArrives, Exchanges, IndInv, PostOK
<1>2. CASE Respond(p, "raw") /\ UNCHANGED <<server, pending, received>>
  BY <1>1, <1>2, RespondIndInv DEF Responses, Active, messageVars
<1>3. CASE ~(Respond(p, "raw") /\ UNCHANGED <<server, pending, received>>)
  <2>1. /\ server[p] = "has"
        /\ server' = [server EXCEPT ![p] = "answered"]
        /\ \/ Outbound(p, p \notin gone) /\ Respond(p, "answer")
           \/ /\ received' = IF p \in gone THEN received ELSE [received EXCEPT ![p] = "raw"]
              /\ Respond(p, "raw")
              /\ UNCHANGED pending
           \/ Respond(p, "error") /\ UNCHANGED <<pending, received>>
    BY <1>3 DEF BodyArrives
  <2>2. PICK response \in {"answer", "raw", "error"} :
          Respond(p, response) /\ (p \notin gone => received'[p] # "none" \/ response = "error")
    BY <2>1 DEF Outbound, IndInv, TypeOK
  <2>3. /\ at'[p] = "done" /\ \A x \in Exchanges : x # p => at'[x] = at[x]
        /\ p \notin gone => reply'[p] = response
        /\ \A x \in Exchanges : x # p => reply'[x] = reply[x]
    BY <1>1, <2>2, RespondTyped DEF IndInv, Responses
  <2>4. server'[p] = "answered" /\ \A q \in Posts : q # p => server'[q] = server[q]
    BY <2>1 DEF IndInv, TypeOK
  <2>5. ~OnStream(p) /\ \A q : (OnStream(q)' <=> OnStream(q)) /\ (Pushed(q)' <=> Pushed(q))
    <3>1. ~OnStream(p)
      BY <2>1 DEF OnStream, IndInv, MessagesOK, FramesOK
    <3> QED BY <1>1, <3>1 DEF OnStream, Pushed
  <2>6. /\ \A q : q # p => (q \in pending' <=> q \in pending)
        /\ \A q \in Posts : received'[q] = received[q] \/ (q = p /\ received'[q] # "none")
        /\ p \in pending => received'[p] = received[p] \/ received'[p] # "plain"
    BY <2>1 DEF Outbound, IndInv, TypeOK
  <2>7. (\A q \in Posts : PostOK(q)') /\ \A s \in Streams : StreamOK(s)'
    BY <1>1, <2>3, <2>4 DEF IndInv, PostOK, StreamOK, Unread, Exchanges
  <2>8. FramesOK' /\ RelayedOK'
    <3>1. FramesOK'
      BY <1>1, <2>1, <2>4 DEF IndInv, MessagesOK, FramesOK
    <3>2. RelayedOK'
      <4> SUFFICES ASSUME NEW s \in Streams \ gone, NEW k \in 1 .. relayed[s],
                          frames[s][k].form = "whole"
                   PROVE  received'[frames[s][k].msg] # "none"
        BY <1>1 DEF RelayedOK
      <4>1. frames[s][k].msg \in Posts
        <5>1. k \in DOMAIN frames[s]
          <6>1. frames[s] \in Seq(Frames) /\ relayed[s] \in 0 .. Len(frames[s])
            BY DEF IndInv, TypeOK, StreamOK
          <6> QED BY <6>1, LenProperties
        <5> QED BY <5>1, FrameTyped DEF IndInv
      <4> QED BY <2>6, <4>1 DEF IndInv, MessagesOK, RelayedOK
    <3> QED BY <3>1, <3>2
  <2>9. PendingOK'
    <3> SUFFICES ASSUME NEW q \in Lists
                 PROVE  /\ verdict[q] = "forward" /\ (server'[q] # "answered" \/ OnStream(q)')
                             => q \in pending'
                        /\ received'[q] # "plain"
      BY <1>1 DEF PendingOK
    <3>1. CASE q = p
      <4>1. p \in pending /\ received[p] # "plain"
        BY <1>1, <2>1, <3>1 DEF IndInv, MessagesOK, PendingOK
      <4> QED BY <2>4, <2>5, <2>6, <3>1, <4>1
    <3>2. CASE q # p
      BY <2>4, <2>5, <2>6, <3>2 DEF IndInv, MessagesOK, PendingOK
    <3> QED BY <3>1, <3>2
  <2>10. AnsweredOK'
    BY <1>1, <2>2, <2>3, <2>4, <2>5, <2>6 DEF IndInv, MessagesOK, AnsweredOK, Exchanges
  <2>11. RunOK'
    BY <1>1, <2>2, <2>3 DEF IndInv, RunOK, Returned
  <2> QED BY <2>7, <2>8, <2>9, <2>10, <2>11 DEF IndInv, MessagesOK
<1> QED BY <1>2, <1>3

(* The server writes on a stream: the message it answers was on no stream   *)
(* before, and what was relayed stays where it is.                          *)
LEMMA ServerPushesIndInv ==
  ASSUME IndInv, TypeOK', ~Returned, NEW s \in Streams, NEW frame \in Frames,
         ServerPushes(s, frame)
  PROVE  IndInv'
<1> USE ExchangesAssumption, GarbageAssumption
<1> DEFINE n == Len(frames[s])
           m == frame.msg
<1>1. /\ at[s] = "streaming"
      /\ UNCHANGED <<at, gone, reply, verdict, pending, relayed, received, ctx, run>>
      /\ m \in Posts => server[m] = "has" /\ server'[m] = "answered"
      /\ \A q \in Posts : q # m => server'[q] = server[q]
  BY DEF ServerPushes, Frames, Garbled, IndInv, TypeOK
<1>2. /\ n \in Nat /\ DOMAIN frames[s] = 1 .. n /\ DOMAIN frames'[s] = 1 .. n + 1
      /\ Len(frames'[s]) = n + 1
      /\ \A k \in 1 .. n : frames'[s][k] = frames[s][k]
      /\ frames'[s][n + 1] = frame
      /\ \A t \in Streams : t # s => frames'[t] = frames[t]
  <2>1. frames[s] \in Seq(Frames)
    BY DEF IndInv, TypeOK
  <2>2. /\ frames'[s] = Append(frames[s], frame)
        /\ \A t \in Streams : t # s => frames'[t] = frames[t]
    BY DEF ServerPushes, IndInv, TypeOK
  <2>3. /\ n \in Nat /\ DOMAIN frames[s] = 1 .. n
        /\ Append(frames[s], frame) \in Seq(Frames)
        /\ Len(Append(frames[s], frame)) = n + 1
        /\ \A k \in 1 .. n : Append(frames[s], frame)[k] = frames[s][k]
        /\ Append(frames[s], frame)[n + 1] = frame
    BY <2>1, AppendProperties, LenProperties
  <2>4. DOMAIN Append(frames[s], frame) = 1 .. n + 1
    BY <2>3, LenProperties
  <2> QED BY <2>2, <2>3, <2>4
<1>3. relayed[s] \in 0 .. n
  BY DEF IndInv, StreamOK
<1> HIDE DEF n, m
<1>4. ASSUME NEW t \in Streams, NEW k \in DOMAIN frames'[t]
      PROVE  \/ k \in DOMAIN frames[t] /\ frames'[t][k] = frames[t][k]
             \/ t = s /\ k = n + 1 /\ frames'[t][k] = frame
  BY <1>2
<1>5. ASSUME NEW t \in Streams, NEW k \in DOMAIN frames[t]
      PROVE  k \in DOMAIN frames'[t] /\ frames'[t][k] = frames[t][k]
  <2>1. CASE t = s
    <3>1. k \in 1 .. n /\ k \in 1 .. n + 1
      BY <1>2, <2>1
    <3> QED BY <1>2, <2>1, <3>1
  <2>2. CASE t # s
    BY <1>2, <2>2
  <2> QED BY <2>1, <2>2
<1>6. \A q : Pushed(q) => Pushed(q)'
  <2> SUFFICES ASSUME NEW q, Pushed(q) PROVE Pushed(q)'
    OBVIOUS
  <2>1. PICK t \in Streams : \E k \in DOMAIN frames[t] : frames[t][k].msg = q
    BY DEF Pushed
  <2>2. PICK k \in DOMAIN frames[t] : frames[t][k].msg = q
    BY <2>1
  <2>3. k \in DOMAIN frames'[t] /\ frames'[t][k].msg = q
    BY <1>5, <2>2
  <2> QED BY <2>3 DEF Pushed
<1>7. Pushed(m)'
  BY <1>2 DEF Pushed, m
<1>8. \A q : q # m => (OnStream(q)' => OnStream(q))
  BY <1>1, <1>4 DEF OnStream, m
<1>9. m \in Posts => \A t \in Streams : \A k \in DOMAIN frames[t] : frames[t][k].msg # m
  BY <1>1 DEF IndInv, MessagesOK, FramesOK
<1>10. \A q \in Posts : PostOK(q)'
  BY <1>1 DEF IndInv, PostOK
<1>11. \A t \in Streams : StreamOK(t)'
  <2>1. \A t \in Streams : t # s => StreamOK(t)'
    BY <1>1, <1>2 DEF IndInv, StreamOK, Unread
  <2>2. relayed'[s] \in 0 .. Len(frames'[s])
    BY <1>1, <1>2, <1>3
  <2>3. StreamOK(s)'
    BY <1>1, <2>2 DEF IndInv, StreamOK
  <2> QED BY <2>1, <2>3
<1>12. FramesOK'
  <2> SUFFICES ASSUME NEW t \in Streams, NEW k \in DOMAIN frames'[t],
                      frames'[t][k].msg \in Posts
               PROVE  /\ server'[frames'[t][k].msg] = "answered"
                      /\ \A u \in Streams : \A l \in DOMAIN frames'[u] :
                           frames'[u][l].msg = frames'[t][k].msg => u = t /\ l = k
    BY DEF FramesOK
  <2>1. CASE t = s /\ k = n + 1 /\ frames'[t][k] = frame
    BY <1>1, <1>4, <1>9, <2>1 DEF m
  <2>2. CASE k \in DOMAIN frames[t] /\ frames'[t][k] = frames[t][k]
    <3>1. frames[t][k].msg # m
      BY <1>9, <2>2
    <3>2. server'[frames'[t][k].msg] = "answered"
      BY <1>1, <2>2, <3>1 DEF IndInv, MessagesOK, FramesOK
    <3>3. ASSUME NEW u \in Streams, NEW l \in DOMAIN frames'[u],
                 frames'[u][l].msg = frames[t][k].msg
          PROVE  u = t /\ l = k
      BY <1>4, <2>2, <3>1, <3>3 DEF IndInv, MessagesOK, FramesOK, m
    <3> QED BY <2>2, <3>2, <3>3
  <2> QED BY <1>4, <2>1, <2>2
<1>13. RelayedOK'
  <2> SUFFICES ASSUME NEW t \in Streams \ gone, NEW k \in 1 .. relayed[t],
                      frames'[t][k].form = "whole"
               PROVE  received[frames'[t][k].msg] # "none"
    BY <1>1 DEF RelayedOK
  <2>1. k \in DOMAIN frames[t]
    <3>1. frames[t] \in Seq(Frames) /\ relayed[t] \in 0 .. Len(frames[t])
      BY DEF IndInv, TypeOK, StreamOK
    <3> QED BY <3>1, LenProperties
  <2> QED BY <1>5, <2>1 DEF IndInv, MessagesOK, RelayedOK
<1>14. PendingOK'
  BY <1>1, <1>8 DEF IndInv, MessagesOK, PendingOK, PostOK
<1>15. AnsweredOK'
  BY <1>1, <1>6, <1>7 DEF IndInv, MessagesOK, AnsweredOK
<1>16. RunOK'
  BY <1>1 DEF IndInv, RunOK, Active
<1> QED BY <1>10, <1>11, <1>12, <1>13, <1>14, <1>15, <1>16 DEF IndInv, MessagesOK

(* The next frame of a stream is relayed: its message was nowhere else, so  *)
(* it has left the streams, and being there it was still pending.           *)
LEMMA RelayIndInv ==
  ASSUME IndInv, TypeOK', ~Returned, NEW s \in Streams, Relay(s) PROVE IndInv'
<1> USE ExchangesAssumption, GarbageAssumption
<1> DEFINE n == relayed[s] + 1
           frame == frames[s][n]
           m == frame.msg
<1>1. /\ at[s] = "streaming"
      /\ UNCHANGED <<gone, reply, verdict, server, frames, ctx, run>>
      /\ s \in Exchanges /\ s \notin Posts
      /\ relayed'[s] = n /\ \A t \in Streams : t # s => relayed'[t] = relayed[t]
  BY DEF Relay, Exchanges, IndInv, TypeOK
<1>2. /\ n \in DOMAIN frames[s] /\ relayed[s] \in Nat /\ n \in Nat
      /\ n \in 1 .. Len(frames[s])
      /\ m \in Posts <=> frame.form \in {"whole", "large"}
  <2>1. n \in DOMAIN frames[s] /\ relayed[s] \in Nat
    BY NextFrame DEF Relay, IndInv
  <2>2. frames[s] \in Seq(Frames)
    BY DEF IndInv, TypeOK
  <2>3. n \in 1 .. Len(frames[s])
    BY <2>1, <2>2, LenProperties
  <2>4. m \in Posts <=> frame.form \in {"whole", "large"}
    BY <2>1, FrameTyped DEF IndInv
  <2> QED BY <2>1, <2>3, <2>4
<1>3. /\ at'[s] = IF frame.form # "whole" \/ s \in gone THEN "done" ELSE at[s]
      /\ \A x \in Exchanges : x # s => at'[x] = at[x]
  BY <1>1 DEF Relay, Goto, IndInv, TypeOK
<1>4. IF frame.form = "whole" THEN Outbound(m, s \notin gone)
                              ELSE UNCHANGED <<pending, received>>
  BY <1>1 DEF Relay
<1> HIDE DEF frame, m
<1>5. m \in Posts => OnStream(m)
  BY <1>2 DEF OnStream, frame, m
<1>6. \A q \in Posts : OnStream(q)' => OnStream(q) /\ q # m
  <2> SUFFICES ASSUME NEW q \in Posts, OnStream(q)' PROVE OnStream(q) /\ q # m
    OBVIOUS
  <2>1. PICK t \in Streams : \E k \in DOMAIN frames[t] : k > relayed'[t] /\ frames[t][k].msg = q
    BY <1>1 DEF OnStream
  <2>2. PICK k \in DOMAIN frames[t] : k > relayed'[t] /\ frames[t][k].msg = q
    BY <2>1
  <2>3. k \in Nat
    <3>1. frames[t] \in Seq(Frames)
      BY DEF IndInv, TypeOK
    <3> QED BY <3>1, LenProperties
  <2>4. k > relayed[t] /\ (t = s => k # n)
    BY <1>1, <1>2, <2>2, <2>3
  <2>5. q # m
    BY <1>2, <2>2, <2>4 DEF IndInv, MessagesOK, FramesOK, m, frame
  <2> QED BY <2>2, <2>4, <2>5 DEF OnStream
<1>7. frame.form = "whole" => m \in Posts /\ server[m] = "answered" /\ verdict[m] = "forward"
  BY <1>2 DEF IndInv, MessagesOK, FramesOK, PostOK, m, frame
<1>8. /\ frame.form = "whole" => pending' = pending \ {m}
      /\ frame.form = "whole" /\ s \notin gone =>
           received'[m] = IF m \in pending THEN "filtered" ELSE "plain"
      /\ frame.form # "whole" => pending' = pending
      /\ \A q \in Posts : q # m \/ s \in gone \/ frame.form # "whole" => received'[q] = received[q]
  BY <1>4, <1>7 DEF Outbound, IndInv, TypeOK
<1>9. \A q \in Posts : received[q] # "none" => received'[q] # "none"
  BY <1>7, <1>8
<1>10. \A q \in Posts : PostOK(q)'
  BY <1>1, <1>3 DEF IndInv, PostOK, Exchanges
<1>11. \A t \in Streams : StreamOK(t)'
  <2>1. \A t \in Streams : t # s => StreamOK(t)'
    BY <1>1, <1>3 DEF IndInv, StreamOK, Unread, Exchanges
  <2>2. relayed'[s] \in 0 .. Len(frames'[s]) /\ n \in 1 .. relayed'[s]
    BY <1>1, <1>2
  <2>3. s \notin gone /\ at'[s] = "done" => frames'[s][n].form # "whole"
    BY <1>1, <1>3 DEF frame
  <2>4. StreamOK(s)'
    BY <1>1, <1>3, <2>2, <2>3 DEF IndInv, StreamOK
  <2> QED BY <2>1, <2>4
<1>12. FramesOK'
  BY <1>1 DEF IndInv, MessagesOK, FramesOK
<1>13. RelayedOK'
  <2> SUFFICES ASSUME NEW t \in Streams \ gone, NEW k \in 1 .. relayed'[t],
                      frames[t][k].form = "whole"
               PROVE  received'[frames[t][k].msg] # "none"
    BY <1>1 DEF RelayedOK
  <2>1. CASE t = s /\ k = n
    <3>1. frame.form = "whole" /\ frames[t][k].msg = m /\ s \notin gone
      BY <2>1 DEF frame, m
    <3> QED BY <1>8, <3>1
  <2>2. CASE ~(t = s /\ k = n)
    <3>1. k \in 1 .. relayed[t]
      BY <1>1, <1>2, <2>2
    <3>2. frames[t][k].msg \in Posts
      <4>1. frames[t] \in Seq(Frames) /\ relayed[t] \in 0 .. Len(frames[t])
        BY DEF IndInv, TypeOK, StreamOK
      <4>2. k \in DOMAIN frames[t]
        BY <3>1, <4>1, LenProperties
      <4> QED BY <4>2, FrameTyped DEF IndInv
    <3> QED BY <1>9, <3>1, <3>2 DEF IndInv, MessagesOK, RelayedOK
  <2> QED BY <2>1, <2>2
<1>14. PendingOK'
  <2> SUFFICES ASSUME NEW q \in Lists
               PROVE  /\ verdict[q] = "forward" /\ (server[q] # "answered" \/ OnStream(q)')
                           => q \in pending'
                      /\ received'[q] # "plain"
    BY <1>1 DEF PendingOK
  <2>1. CASE q = m /\ frame.form = "whole"
    <3>1. m \in pending /\ received[m] # "plain"
      BY <1>5, <1>7, <2>1 DEF IndInv, MessagesOK, PendingOK
    <3> QED BY <1>6, <1>7, <1>8, <2>1, <3>1
  <2>2. CASE ~(q = m /\ frame.form = "whole")
    BY <1>6, <1>8, <2>2 DEF IndInv, MessagesOK, PendingOK
  <2> QED BY <2>1, <2>2
<1>15. AnsweredOK'
  <2>1. \A q : Pushed(q)' <=> Pushed(q)
    BY <1>1 DEF Pushed
  <2> QED BY <1>1, <1>9, <2>1 DEF IndInv, MessagesOK, AnsweredOK
<1>16. RunOK'
  BY <1>1, <1>3 DEF IndInv, RunOK, StreamOK, Returned
<1> QED BY <1>10, <1>11, <1>12, <1>13, <1>14, <1>15, <1>16 DEF IndInv, MessagesOK

-----------------------------------------------------------------------------
(* Every step keeps the invariant; once Run has returned there is none.     *)
LEMMA NextIndInv == IndInv /\ [Next]_vars => IndInv'
<1> SUFFICES ASSUME IndInv, [Next]_vars PROVE IndInv'
  OBVIOUS
<1>1. TypeOK'
  BY NextTyped DEF IndInv
<1>2. CASE UNCHANGED vars
  <2>1. MessagesOK'
    BY <1>2, MessagesUntouched DEF vars
  <2>2. (\A p \in Posts : PostOK(p)') /\ (\A s \in Streams : StreamOK(s)') /\ RunOK'
    BY <1>2 DEF vars, messageVars, IndInv, PostOK, StreamOK, Unread, RunOK, Active
  <2> QED BY <1>1, <2>1, <2>2 DEF IndInv
<1>3. CASE ~Returned /\ \E e \in Exchanges :
             ServeHTTP(e) \/ ClientLeaves(e) \/ HeadArrives(e) \/ Fail(e)
  BY <1>1, <1>3, ServeHTTPIndInv, ClientLeavesIndInv, HeadArrivesIndInv, FailIndInv
<1>4. CASE ~Returned /\ \E p \in Posts : Post(p)
  BY <1>1, <1>4, ReadBodyIndInv, JudgeIndInv, RefuseIndInv, DeliverIndInv, BodyArrivesIndInv
  DEF Post
<1>5. CASE ~Returned /\ \E s \in Streams :
             Stream(s) \/ \E frame \in Frames : ServerPushes(s, frame)
  BY <1>1, <1>5, RelayIndInv, StreamEndsIndInv, ServerPushesIndInv DEF Stream
<1>6. CASE ~Returned /\ (Signal \/ ListenFails \/ Shutdown \/ Drained \/ Expire)
  BY <1>1, <1>6, RunIndInv
<1> QED BY <1>2, <1>3, <1>4, <1>5, <1>6 DEF Next

LEMMA Invariance == Spec => []IndInv
BY InitIndInv, NextIndInv, PTL DEF Spec

(* Every state of the HTTP transport is well typed: the pending table never *)
(* holds anything but list requests, and each handler is where ServeHTTP,   *)
(* servePost or serveStream can be.                                         *)
THEOREM TypeCorrect == Spec => []TypeOK
BY Invariance, PTL DEF IndInv

(* servePost: a refused post never reaches the server, and a client that    *)
(* waits has its refusal when Run has drained or given up, however many     *)
(* posts and streams were open.                                             *)
THEOREM RefusalIsFinal == Spec => []RefusalsFinal
<1>1. IndInv => RefusalsFinal
  <2> SUFFICES ASSUME IndInv, NEW p \in Posts, verdict[p] = "refuse"
               PROVE  /\ server[p] = "none"
                      /\ run \in {"clean", "timedOut"} /\ p \notin gone => reply[p] = "refusal"
    BY DEF RefusalsFinal
  <2>1. server[p] = "none" /\ at[p] \in {"refusing", "done"}
    BY DEF IndInv, PostOK, TypeOK
  <2>2. ASSUME run \in {"clean", "timedOut"} PROVE at[p] = "done"
    BY <2>1, <2>2 DEF IndInv, RunOK, Active, Exchanges
  <2> QED BY <2>1, <2>2 DEF IndInv, PostOK
<1> QED BY <1>1, Invariance, PTL

(* Outbound: while the answer to a list request may still come, in the body *)
(* of its post or on any stream, its entry is in the pending table, so no   *)
(* list that is a JSON-RPC message reaches the agent unfiltered.            *)
THEOREM ListsFiltered == Spec => []HttpListsFiltered
<1>1. IndInv => HttpListsFiltered
  BY DEF IndInv, MessagesOK, PendingOK, HttpListsFiltered
<1> QED BY <1>1, Invariance, PTL

(* Run: Shutdown returns nil only with every handler at its end.  A handler *)
(* whose client stayed has written its response, an answer in a body among  *)
(* them or an error in its place, and has relayed its stream to the last    *)
(* frame or to the first one that does not decode.                          *)
THEOREM CleanExit == Spec => []CleanExitLosesNothing
<1>1. IndInv => CleanExitLosesNothing
  <2> SUFFICES ASSUME IndInv, run = "clean" PROVE CleanExitLosesNothing
    BY DEF CleanExitLosesNothing
  <2>1. \A e \in Exchanges : at[e] \in {"none", "done"}
    BY DEF IndInv, RunOK, Active
  <2>2. \A e \in Exchanges : at[e] # "none" /\ e \notin gone => reply[e] # "none"
    BY <2>1 DEF IndInv, RunOK
  <2>3. ASSUME NEW s \in Streams \ gone, NEW k \in DOMAIN frames[s],
               \A j \in 1 .. k : frames[s][j].form = "whole"
        PROVE  received[frames[s][k].msg] # "none"
    <3>1. /\ frames[s] \in Seq(Frames) /\ relayed[s] \in 0 .. Len(frames[s])
          /\ at[s] \in {"none", "done"} /\ frames[s] # << >>
      BY <2>1 DEF IndInv, TypeOK, StreamOK, Exchanges
    <3>2. k \in 1 .. Len(frames[s]) /\ Len(frames[s]) \in Nat
      BY <3>1, LenProperties
    <3>3. ~Unread(s) \/ \E j \in 1 .. relayed[s] : frames[s][j].form # "whole"
      BY <3>1 DEF IndInv, StreamOK
    <3>4. CASE ~Unread(s)
      <4>1. k \in 1 .. relayed[s] /\ k \in 1 .. k
        BY <3>1, <3>2, <3>4 DEF Unread
      <4> QED BY <2>3, <4>1 DEF IndInv, MessagesOK, RelayedOK
    <3>5. ASSUME NEW j \in 1 .. relayed[s], frames[s][j].form # "whole"
          PROVE  received[frames[s][k].msg] # "none"
      <4>1. j \notin 1 .. k
        BY <2>3, <3>5
      <4>2. k \in 1 .. relayed[s] /\ k \in 1 .. k
        BY <3>1, <3>2, <4>1
      <4> QED BY <2>3, <4>2 DEF IndInv, MessagesOK, RelayedOK
    <3> QED BY <3>3, <3>4, <3>5
  <2>4. ASSUME NEW p \in Posts \ gone, server[p] = "answered", ~Pushed(p)
        PROVE  received[p] # "none" \/ reply[p] = "error"
    BY <2>4 DEF IndInv, MessagesOK, AnsweredOK
  <2> QED BY <2>2, <2>3, <2>4 DEF CleanExitLosesNothing
<1> QED BY <1>1, Invariance, PTL

-----------------------------------------------------------------------------
(* The pending table holds what was forwarded, and of that only what        *)
(* EntriesReclaimed says.                                                   *)
EntriesInv ==
  EntriesReclaimed /\ \A p \in pending : verdict[p] = "forward"

(* What the streams have relayed stays relayed.                             *)
RelayedKept ==
  \A s \in Streams : relayed'[s] = relayed[s] /\
    \A k \in 1 .. relayed[s] : frames'[s][k] = frames[s][k]

(* A step that enters nothing and relays nothing keeps it, if whoever       *)
(* answers a post without its answer says so.                               *)
LEMMA EntriesKept ==
  ASSUME EntriesInv, pending' \subseteq pending, verdict' = verdict, RelayedKept,
         \A p \in pending' : Active(p)' \/ p \in gone' \/ reply'[p] \in {"error", "raw"}
  PROVE  EntriesInv'
BY DEF EntriesInv, EntriesReclaimed, RelayedKept

LEMMA JudgeEntriesInv ==
  ASSUME IndInv, EntriesInv, NEW p \in Posts, Judge(p) PROVE EntriesInv'
<1> USE DEF Judge
<1>1. /\ at[p] = "judging" /\ verdict[p] = "none" /\ server[p] = "none"
      /\ \A q \in Posts : q # p => at'[q] = at[q] /\ verdict'[q] = verdict[q]
  BY DEF IndInv, TypeOK, PostOK, Goto, Exchanges
<1>2. p \notin pending
  BY <1>1 DEF EntriesInv
<1>3. p \in pending' => at'[p] = "sending" /\ verdict'[p] = "forward"
  BY <1>2 DEF IndInv, TypeOK, Goto, Exchanges
<1>4. ASSUME NEW s \in Streams, NEW k \in 1 .. relayed[s] PROVE frames[s][k].msg # p
  <2>1. frames[s] \in Seq(Frames) /\ relayed[s] \in 0 .. Len(frames[s])
    BY DEF IndInv, TypeOK, StreamOK
  <2>2. k \in DOMAIN frames[s]
    BY <2>1, LenProperties
  <2> QED BY <1>1, <2>2 DEF IndInv, MessagesOK, FramesOK
<1>5. pending \subseteq Posts /\ pending' \subseteq pending \cup {p}
  BY ExchangesAssumption DEF IndInv, TypeOK
<1> QED BY <1>1, <1>2, <1>3, <1>4, <1>5 DEF EntriesInv, EntriesReclaimed, Active

LEMMA RelayEntriesInv ==
  ASSUME IndInv, EntriesInv, NEW s \in Streams, Relay(s) PROVE EntriesInv'
<1> USE ExchangesAssumption DEF Relay
<1>1. /\ frames[s] \in Seq(Frames) /\ relayed[s] \in 0 .. Len(frames[s])
      /\ Len(frames[s]) \in Nat /\ DOMAIN frames[s] = 1 .. Len(frames[s])
  BY LenProperties DEF IndInv, TypeOK, StreamOK
<1>2. /\ relayed'[s] = relayed[s] + 1 /\ relayed'[s] \in DOMAIN frames[s]
      /\ \A t \in Streams : t # s => relayed'[t] = relayed[t]
  BY <1>1 DEF Unread, IndInv, TypeOK
<1> DEFINE frame == frames[s][relayed'[s]]
<1>3. frame.msg \in Posts <=> frame.form \in {"whole", "large"}
  BY <1>2, FrameTyped DEF IndInv
<1>4. pending' = IF frame.form = "whole" THEN pending \ {frame.msg} ELSE pending
  BY DEF Outbound
<1>5. pending \subseteq Posts /\ \A p \in Posts : at'[p] = at[p]
  BY DEF IndInv, TypeOK, Goto, Exchanges
<1>6. \A p \in pending' : frame.msg = p => frame.form = "large"
  BY <1>3, <1>4, <1>5
<1>7. \A p \in pending', t \in Streams : \A k \in 1 .. relayed'[t] :
        frames'[t][k].msg = p => frames'[t][k].form = "large"
  <2> SUFFICES ASSUME NEW p \in pending', NEW t \in Streams, NEW k \in 1 .. relayed'[t],
                      frames[t][k].msg = p
               PROVE  frames[t][k].form = "large"
    OBVIOUS
  <2>1. CASE t = s /\ k = relayed'[s]
    BY <1>6, <2>1
  <2>2. CASE ~(t = s /\ k = relayed'[s])
    <3>1. k \in 1 .. relayed[t]
      BY <1>1, <1>2, <2>2
    <3> QED BY <1>4, <3>1 DEF EntriesInv, EntriesReclaimed
  <2> QED BY <2>1, <2>2
<1> HIDE DEF frame
<1> QED BY <1>4, <1>5, <1>7 DEF EntriesInv, EntriesReclaimed, Active

(* The other steps: a handler that ends without Outbound leaves an error or *)
(* something raw, or ends a post that has no entry.                         *)
LEMMA NextEntriesInv == IndInv /\ EntriesInv /\ [Next]_vars => EntriesInv'
<1> SUFFICES ASSUME IndInv, EntriesInv, [Next]_vars PROVE EntriesInv'
  OBVIOUS
<1> USE ExchangesAssumption DEF messageVars
<1>1. pending \subseteq Posts /\ pending \subseteq Exchanges
  BY DEF IndInv, TypeOK, Exchanges
<1>2. \A p \in pending : Active(p) \/ p \in gone \/ reply[p] \in {"error", "raw"}
  BY DEF EntriesInv, EntriesReclaimed
<1>3. CASE UNCHANGED <<at, reply, messageVars>> /\ gone \subseteq gone'
  <2>1. RelayedKept
    BY <1>3 DEF RelayedKept
  <2>2. \A p \in pending' : Active(p)' \/ p \in gone' \/ reply'[p] \in {"error", "raw"}
    BY <1>2, <1>3 DEF Active
  <2> QED BY <1>3, <2>1, <2>2, EntriesKept
<1>4. ASSUME NEW e \in Exchanges, NEW response \in Responses, Respond(e, response),
             pending' \subseteq pending, UNCHANGED <<gone, verdict, frames, relayed>>,
             e \in pending' => response \in {"error", "raw"}
      PROVE  EntriesInv'
  <2>1. /\ at'[e] = "done" /\ (e \notin gone => reply'[e] = response)
        /\ \A x \in Exchanges : x # e => at'[x] = at[x] /\ reply'[x] = reply[x]
    BY <1>4, RespondTyped DEF IndInv
  <2>2. RelayedKept
    BY <1>4 DEF RelayedKept
  <2>3. \A p \in pending' : Active(p)' \/ p \in gone' \/ reply'[p] \in {"error", "raw"}
    BY <1>1, <1>2, <1>4, <2>1 DEF Active
  <2> QED BY <1>4, <2>2, <2>3, EntriesKept
<1>5. ASSUME NEW e \in Exchanges, NEW place \in Places \ {"none", "done"}, Goto(e, place),
             UNCHANGED <<gone, messageVars>>, \A x \in Posts : reply'[x] = reply[x]
      PROVE  EntriesInv'
  <2>1. at'[e] = place /\ \A x \in Exchanges : x # e => at'[x] = at[x]
    BY <1>5, GotoTyped DEF IndInv
  <2>2. RelayedKept
    BY <1>5 DEF RelayedKept
  <2>3. \A p \in pending' : Active(p)' \/ p \in gone' \/ reply'[p] \in {"error", "raw"}
    BY <1>1, <1>2, <1>5, <2>1 DEF Active
  <2> QED BY <1>5, <2>2, <2>3, EntriesKept
<1>6. ASSUME NEW e \in Exchanges, ServeHTTP(e) PROVE EntriesInv'
  <2>1. {"sending", "reading"} \subseteq Places \ {"none", "done"}
    BY DEF Places
  <2> QED BY <1>5, <1>6, <2>1 DEF ServeHTTP
<1>7. ASSUME NEW e \in Exchanges, HeadArrives(e) PROVE EntriesInv'
  <2>1. {"streaming", "receiving"} \subseteq Places \ {"none", "done"}
    BY DEF Places
  <2>2. \A x \in Posts : reply'[x] = reply[x]
    BY <1>7 DEF HeadArrives, IndInv, TypeOK, Exchanges
  <2> QED BY <1>5, <1>7, <2>1, <2>2 DEF HeadArrives
<1>8. ASSUME NEW e \in Exchanges, Fail(e) PROVE EntriesInv'
  BY <1>4, <1>8 DEF Fail, Responses
<1>9. ASSUME NEW p \in Posts, Post(p) PROVE EntriesInv'
  <2>1. CASE ReadBody(p)
    <3>1. p \notin pending
      BY <2>1 DEF ReadBody, EntriesInv, IndInv, PostOK
    <3>2. "judging" \in Places \ {"none", "done"} /\ "rejected" \in Responses
      BY DEF Places, Responses
    <3> QED BY <1>4, <1>5, <2>1, <3>1, <3>2 DEF ReadBody, Exchanges
  <2>2. CASE Refuse(p)
    <3>1. p \notin pending
      BY <2>2 DEF Refuse, EntriesInv, IndInv, PostOK
    <3>2. "refusal" \in Responses
      BY DEF Responses
    <3> QED BY <1>4, <2>2, <3>1, <3>2 DEF Refuse, Exchanges
  <2>3. CASE Deliver(p)
    <3>1. \A x \in Posts : verdict'[x] = verdict[x] /\ at'[x] = at[x] /\ reply'[x] = reply[x]
      BY <2>3 DEF Deliver
    <3>2. RelayedKept
      BY <2>3 DEF Deliver, RelayedKept
    <3>3. \A x \in pending' : Active(x)' \/ x \in gone' \/ reply'[x] \in {"error", "raw"}
      BY <1>1, <1>2, <2>3, <3>1 DEF Deliver, Active
    <3> QED BY <2>3, <3>2, <3>3, EntriesKept DEF Deliver
  <2>4. CASE BodyArrives(p)
    <3>1. {"answer", "raw", "error"} \subseteq Responses /\ p \in Exchanges
      BY DEF Responses, Exchanges
    <3>2. CASE Outbound(p, p \notin gone) /\ Respond(p, "answer")
      BY <1>4, <2>4, <3>1, <3>2 DEF BodyArrives, Outbound
    <3>3. CASE pending' = pending /\ (Respond(p, "raw") \/ Respond(p, "error"))
      BY <1>4, <2>4, <3>1, <3>3 DEF BodyArrives
    <3> QED BY <2>4, <3>2, <3>3 DEF BodyArrives
  <2> QED BY <1>9, <2>1, <2>2, <2>3, <2>4, JudgeEntriesInv DEF Post
<1>10. ASSUME NEW s \in Streams, StreamEnds(s) PROVE EntriesInv'
  <2>1. \A x \in Posts : at'[x] = at[x]
    BY <1>10 DEF StreamEnds, Goto, IndInv, TypeOK, Exchanges
  <2>2. RelayedKept
    BY <1>10 DEF StreamEnds, RelayedKept
  <2>3. \A x \in pending' : Active(x)' \/ x \in gone' \/ reply'[x] \in {"error", "raw"}
    BY <1>1, <1>2, <1>10, <2>1 DEF StreamEnds, Active
  <2> QED BY <1>10, <2>2, <2>3, EntriesKept DEF StreamEnds
<1>11. ASSUME NEW s \in Streams, NEW frame \in Frames, ServerPushes(s, frame) PROVE EntriesInv'
  <2>1. ASSUME NEW t \in Streams, NEW k \in 1 .. relayed[t] PROVE frames'[t][k] = frames[t][k]
    <3>1. /\ frames[t] \in Seq(Frames) /\ relayed[t] \in 0 .. Len(frames[t])
          /\ frames'[t] = frames[t] \/ frames'[t] = Append(frames[t], frame)
      BY <1>11 DEF ServerPushes, IndInv, TypeOK, StreamOK
    <3>2. k \in 1 .. Len(frames[t])
      BY <3>1, LenProperties
    <3> QED BY <3>1, <3>2, AppendProperties
  <2>2. RelayedKept
    BY <1>11, <2>1 DEF ServerPushes, RelayedKept
  <2>3. \A x \in pending' : Active(x)' \/ x \in gone' \/ reply'[x] \in {"error", "raw"}
    BY <1>2, <1>11 DEF ServerPushes, Active
  <2> QED BY <1>11, <2>2, <2>3, EntriesKept DEF ServerPushes
<1>12. CASE UNCHANGED vars \/ \E e \in Exchanges : ClientLeaves(e)
  BY <1>3, <1>12 DEF vars, ClientLeaves
<1>13. CASE Signal \/ ListenFails \/ Shutdown \/ Drained \/ Expire
  BY <1>3, <1>13 DEF Signal, ListenFails, Shutdown, Drained, Expire
<1> QED BY <1>6, <1>7, <1>8, <1>9, <1>10, <1>11, <1>12, <1>13, RelayEntriesInv DEF Next, Stream

(* takePending: an answer that passed Outbound has taken its entry along,   *)
(* on whichever way it came, and every entry that stays belongs to an       *)
(* exchange that is under way, was left or ended without the answer.        *)
THEOREM EntriesAccountedFor == Spec => []EntriesReclaimed
<1>1. Init => EntriesInv
  BY DEF Init, EntriesInv, EntriesReclaimed
<1>2. EntriesInv => EntriesReclaimed
  BY DEF EntriesInv
<1> QED BY <1>1, <1>2, Invariance, NextEntriesInv, PTL DEF Spec
=============================================================================
