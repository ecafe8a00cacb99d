------------------------------ MODULE HttpProxy ------------------------------
(***************************************************************************)
(* The HTTP/SSE transport: httpsse.Handler and httpsse.Run                  *)
(* (internal/transport/httpsse/proxy.go), with run.go's contexts.           *)
(*                                                                         *)
(* An exchange is one HTTP request with the goroutine that serves it: a     *)
(* post carries one message, a stream is a GET that stays open.  The server *)
(* may answer a message in the body of its post, or answer the post with    *)
(* something else (202) and send the answer on an open stream, before or    *)
(* after the post ends; the pending table is what lets Outbound recognise   *)
(* it on either way.  Interceptor.tla says how Inbound decides; here a      *)
(* decision is "forward" or "refuse", and a refusal may halt the proxy.     *)
(* All messages belong to one session, so a post's id is the post itself;   *)
(* requests of the server, whose ids may equal a post's, are in             *)
(* Interceptor.tla.                                                         *)
(*                                                                         *)
(* The model ends when Run returns: the process exits, and with it every    *)
(* goroutine.                                                               *)
(***************************************************************************)
EXTENDS Naturals, Sequences, FiniteSets

CONSTANTS
  Posts, Streams,    \* the exchanges the agent may begin
  Lists              \* the posts that carry a list request

ASSUME ExchangesAssumption == Posts \cap Streams = {} /\ Lists \subseteq Posts

VARIABLES
  at,                \* at[e]: where the goroutine of exchange e stands
  gone,              \* exchanges whose client has closed its connection
  reply,             \* reply[e]: the HTTP response the client got
  verdict,           \* verdict[p]: what Inbound answered
  server,            \* server[p]: what the server knows of message p
  pending,           \* Interceptor.pending, as the set of ids it holds
  frames,            \* frames[s]: what the server has written on stream s so far
  relayed,           \* relayed[s]: how many of them serveStream has read
  received,          \* received[p]: how the answer to p reached the agent
  ctx, run           \* the lifecycle context; Run

messageVars == <<verdict, server, pending, frames, relayed, received>>
vars == <<at, gone, reply, messageVars, ctx, run>>

Exchanges == Posts \cup Streams

(* A frame carries an answer, in full or in a line the scanner takes (4     *)
(* MiB) and the decoder behind it does not (1 MiB); or it is garbled and    *)
(* carries no message.                                                      *)
NoMessage == "noMessage"
Garbled == [msg |-> NoMessage, form |-> "garbled"]
Frames == [msg : Posts, form : {"whole", "large"}] \cup {Garbled}
ASSUME GarbageAssumption == NoMessage \notin Posts

Places == {"none", "reading", "judging", "refusing", "sending", "receiving",
           "streaming", "done"}
Responses == {"none", "rejected", "refusal", "error", "answer", "raw", "events"}

TypeOK ==
  /\ at \in [Exchanges -> Places]
  /\ gone \subseteq Exchanges
  /\ reply \in [Exchanges -> Responses]
  /\ verdict \in [Posts -> {"none", "forward", "refuse"}]
  /\ server \in [Posts -> {"none", "has", "answered"}]
  /\ pending \subseteq Lists
  /\ frames \in [Streams -> Seq(Frames)]
  /\ relayed \in [Streams -> Nat]
  /\ received \in [Posts -> {"none", "plain", "filtered", "raw"}]
  /\ ctx \in {"live", "done"}
  /\ run \in {"serving", "draining", "clean", "timedOut", "listenFailed"}

Init ==
  /\ at = [e \in Exchanges |-> "none"]
  /\ gone = {}
  /\ reply = [e \in Exchanges |-> "none"]
  /\ verdict = [p \in Posts |-> "none"]
  /\ server = [p \in Posts |-> "none"]
  /\ pending = {}
  /\ frames = [s \in Streams |-> << >>]
  /\ relayed = [s \in Streams |-> 0]
  /\ received = [p \in Posts |-> "none"]
  /\ ctx = "live" /\ run = "serving"

Returned == run \in {"clean", "timedOut", "listenFailed"}
Active(e) == at[e] \notin {"none", "done"}

-----------------------------------------------------------------------------
(* Steps of a handler *)

Goto(e, place) == at' = [at EXCEPT ![e] = place]

(* The handler writes its response, which a client that left does not get,  *)
(* and returns.                                                             *)
Respond(e, response) ==
  /\ Goto(e, "done")
  /\ reply' = IF e \in gone THEN reply ELSE [reply EXCEPT ![e] = response]

(* ServeHTTP: an Accept header that names text/event-stream makes it a      *)
(* stream, which is forwarded at once and without a body.  A connection     *)
(* accepted before the listener closed may still bring a request.           *)
ServeHTTP(e) ==
  /\ at[e] = "none"
  /\ Goto(e, IF e \in Streams THEN "sending" ELSE "reading")
  /\ UNCHANGED <<gone, reply, messageVars, ctx, run>>

(* The client closes the connection, which ends the request's context. *)
ClientLeaves(e) ==
  /\ Active(e) /\ e \notin gone
  /\ gone' = gone \cup {e}
  /\ UNCHANGED <<at, reply, messageVars, ctx, run>>

(* servePost: the body is complete; it is a message, or it is rejected for  *)
(* its size or form, or because it broke off.                               *)
ReadBody(p) ==
  /\ at[p] = "reading"
  /\ \/ Goto(p, "judging") /\ UNCHANGED reply
     \/ Respond(p, "rejected")
  /\ UNCHANGED <<gone, messageVars, ctx, run>>

(* Interceptor.Inbound: a list request is remembered and forwarded;         *)
(* anything else is forwarded or refused, and a refusal may have cancelled  *)
(* the lifecycle context before Inbound returns.                            *)
Judge(p) ==
  /\ at[p] = "judging"
  /\ \/ /\ verdict' = [verdict EXCEPT ![p] = "forward"]
        /\ pending' = pending \cup ({p} \cap Lists)
        /\ Goto(p, "sending")
        /\ UNCHANGED ctx
     \/ /\ p \notin Lists
        /\ verdict' = [verdict EXCEPT ![p] = "refuse"]
        /\ Goto(p, "refusing")
        /\ ctx' \in {ctx, "done"}
        /\ UNCHANGED pending
  /\ UNCHANGED <<gone, reply, server, frames, relayed, received, run>>

\* Faulty variant of Refuse: the return after the reply is missing.
RefuseAndForward(p) ==
  /\ at[p] = "refusing"
  /\ reply' = IF p \in gone THEN reply ELSE [reply EXCEPT ![p] = "refusal"]
  /\ Goto(p, "sending")
  /\ UNCHANGED <<gone, messageVars, ctx, run>>

(* servePost: the refusal, with HTTP status 200. *)
Refuse(p) ==
  /\ at[p] = "refusing"
  /\ Respond(p, "refusal")
  /\ UNCHANGED <<gone, messageVars, ctx, run>>

(* forward: client.Do delivers the message to the server. *)
Deliver(p) ==
  /\ at[p] = "sending" /\ server[p] = "none"
  /\ server' = [server EXCEPT ![p] = "has"]
  /\ UNCHANGED <<at, gone, reply, verdict, pending, frames, relayed, received, ctx, run>>

(* client.Do returns with the head of the server's response; a stream is    *)
(* announced to the client and pumped from here on.                         *)
HeadArrives(e) ==
  /\ at[e] = "sending"
  /\ IF e \in Streams
     THEN /\ Goto(e, "streaming")
          /\ reply' = IF e \in gone THEN reply ELSE [reply EXCEPT ![e] = "events"]
     ELSE /\ server[e] # "none"
          /\ Goto(e, "receiving")
          /\ UNCHANGED reply
  /\ UNCHANGED <<gone, messageVars, ctx, run>>

\* Faulty variant of Fail: the upstream request has a context of its own.
FailDetached(e) ==
  /\ at[e] = "sending" \/ (at[e] = "receiving" /\ e \notin gone)
  /\ Respond(e, "error")
  /\ UNCHANGED <<gone, messageVars, ctx, run>>

\* Faulty variant of Fail: the failed request is forgotten.
FailForgets(e) ==
  /\ at[e] \in {"sending", "receiving"}
  /\ Respond(e, "error")
  /\ pending' = pending \ {e}
  /\ UNCHANGED <<gone, verdict, server, frames, relayed, received, ctx, run>>

(* No usable response: unreachable, cut off, no head in time, or the client *)
(* has left, at any time before or after the server has acted.              *)
(* The proxy answers with an error of its own.                              *)
Fail(e) ==
  /\ at[e] \in {"sending", "receiving"}
  /\ Respond(e, "error")
  /\ UNCHANGED <<gone, messageVars, ctx, run>>

\* Faulty variant of Outbound: the entry is read and not deleted.
OutboundKeeps(p, delivered) ==
  /\ UNCHANGED pending
  /\ received' = IF ~delivered THEN received
                 ELSE [received EXCEPT ![p] = IF p \in pending THEN "filtered" ELSE "plain"]

(* Outbound on the answer to p: filtered if takePending finds p, and then   *)
(* forgotten.                                                               *)
Outbound(p, delivered) ==
  /\ pending' = pending \ {p}
  /\ received' = IF ~delivered THEN received
                 ELSE [received EXCEPT ![p] = IF p \in pending THEN "filtered" ELSE "plain"]

(* servePost: the response body is complete.  A JSON-RPC message goes       *)
(* through Outbound.  An answer over the limit is replaced by an error, and *)
(* one that does not parse is passed on as it is, as is a body that carries *)
(* no answer (the empty one of a 202); all three leave the entry.           *)
BodyArrives(p) ==
  /\ at[p] = "receiving"
  /\ \/ /\ server[p] = "has"
        /\ server' = [server EXCEPT ![p] = "answered"]
        /\ \/ Outbound(p, p \notin gone) /\ Respond(p, "answer")
           \/ /\ received' = IF p \in gone THEN received ELSE [received EXCEPT ![p] = "raw"]
              /\ Respond(p, "raw")
              /\ UNCHANGED pending
           \/ Respond(p, "error") /\ UNCHANGED <<pending, received>>
     \/ Respond(p, "raw") /\ UNCHANGED <<server, pending, received>>
  /\ UNCHANGED <<gone, verdict, frames, relayed, ctx, run>>

-----------------------------------------------------------------------------
(* Streams *)

Unread(s) == relayed[s] < Len(frames[s])

(* The server writes an answer it owes, or something unreadable, on an open *)
(* stream.  Bound: one garbled frame, as the pump stops at the first.       *)
ServerPushes(s, frame) ==
  /\ at[s] = "streaming"
  /\ IF frame = Garbled
     THEN /\ \A k \in DOMAIN frames[s] : frames[s][k] # Garbled
          /\ UNCHANGED server
     ELSE /\ server[frame.msg] = "has"
          /\ server' = [server EXCEPT ![frame.msg] = "answered"]
  /\ frames' = [frames EXCEPT ![s] = Append(@, frame)]
  /\ UNCHANGED <<at, gone, reply, verdict, pending, relayed, received, ctx, run>>

(* serveStream: one frame through Outbound to the client.  A frame that     *)
(* does not decode ends the stream, whatever is behind it, and so does a    *)
(* write to a client that has left.                                         *)
Relay(s) ==
  /\ at[s] = "streaming" /\ Unread(s)
  /\ relayed' = [relayed EXCEPT ![s] = @ + 1]
  /\ LET frame == frames[s][relayed'[s]] IN
     /\ IF frame.form = "whole"
        THEN Outbound(frame.msg, s \notin gone)
        ELSE UNCHANGED <<pending, received>>
     /\ IF frame.form # "whole" \/ s \in gone THEN Goto(s, "done") ELSE UNCHANGED at
  /\ UNCHANGED <<gone, reply, verdict, server, frames, ctx, run>>

(* The server closes the stream and everything on it has been relayed, or   *)
(* the client has left and reading fails.                                   *)
StreamEnds(s) ==
  /\ at[s] = "streaming"
  /\ ~Unread(s) \/ s \in gone
  /\ Goto(s, "done")
  /\ UNCHANGED <<gone, reply, messageVars, ctx, run>>

-----------------------------------------------------------------------------
(* Run *)

(* SIGINT or SIGTERM. *)
Signal ==
  /\ ctx = "live"
  /\ ctx' = "done"
  /\ UNCHANGED <<at, gone, reply, messageVars, run>>

(* ListenAndServe fails, at the start or later; Run returns its error. *)
ListenFails ==
  /\ run = "serving"
  /\ run' = "listenFailed"
  /\ UNCHANGED <<at, gone, reply, messageVars, ctx>>

(* The select sees ctx.Done(): Shutdown closes the listener.  It neither    *)
(* cancels the handlers' contexts nor closes busy connections.              *)
Shutdown ==
  /\ run = "serving" /\ ctx = "done"
  /\ run' = "draining"
  /\ UNCHANGED <<at, gone, reply, messageVars, ctx>>

\* Faulty variant of Drained: streams are not waited for.
DrainedOfPosts ==
  /\ run = "draining"
  /\ \A p \in Posts : ~Active(p)
  /\ run' = "clean"
  /\ UNCHANGED <<at, gone, reply, messageVars, ctx>>

(* Shutdown finds every connection idle and returns nil. *)
Drained ==
  /\ run = "draining"
  /\ \A e \in Exchanges : ~Active(e)
  /\ run' = "clean"
  /\ UNCHANGED <<at, gone, reply, messageVars, ctx>>

(* Exchange e waits for its client, for a human or for the server, so that  *)
(* nothing bounds how long it takes; any other has a step of its own.       *)
Waits(e) ==
  /\ at[e] # "refusing"
  /\ e \notin gone
  /\ at[e] = "streaming" => ~Unread(e)

\* Faulty variant of Expire: Shutdown gets a context without a deadline.
ExpireNever == run = "clean" /\ UNCHANGED vars

(* The five seconds are over and Shutdown returns the deadline's error.     *)
(* They are long for a handler that can run (ASSUMED of the scheduler) and  *)
(* short for one that waits.                                                *)
Expire ==
  /\ run = "draining"
  /\ \E e \in Exchanges : Active(e)
  /\ \A e \in Exchanges : Active(e) => Waits(e)
  /\ run' = "timedOut"
  /\ UNCHANGED <<at, gone, reply, messageVars, ctx>>

-----------------------------------------------------------------------------
Post(p) == ReadBody(p) \/ Judge(p) \/ Refuse(p) \/ Deliver(p) \/ BodyArrives(p)
Stream(s) == Relay(s) \/ StreamEnds(s)

Next ==
  /\ ~Returned
  /\ \/ \E e \in Exchanges : ServeHTTP(e) \/ ClientLeaves(e) \/ HeadArrives(e) \/ Fail(e)
     \/ \E p \in Posts : Post(p)
     \/ \E s \in Streams :
          Stream(s) \/ \E frame \in Frames : ServerPushes(s, frame)
     \/ Signal \/ ListenFails \/ Shutdown \/ Drained \/ Expire

(* What waits for the client or the server goes on only once the client has *)
(* left, which cancels the request's context and fails every read of it;    *)
(* Inbound returns, as Interceptor.tla and Approval.tla show.               *)
Fairness ==
  /\ \A p \in Posts :
       /\ WF_vars(~Returned /\ (Judge(p) \/ Refuse(p)))
       /\ WF_vars(~Returned /\ p \in gone /\ (ReadBody(p) \/ Fail(p)))
  /\ \A s \in Streams :
       /\ WF_vars(~Returned /\ Relay(s))
       /\ WF_vars(~Returned /\ s \in gone /\ (Fail(s) \/ StreamEnds(s)))
  /\ WF_vars(Shutdown) /\ WF_vars(Drained) /\ WF_vars(Expire)

Spec == Init /\ [][Next]_vars /\ Fairness

-----------------------------------------------------------------------------
(* The server has written the answer to p on a stream. *)
Pushed(p) == \E s \in Streams : \E k \in DOMAIN frames[s] : frames[s][k].msg = p

(* A refusal is final and delivered: the server never sees a refused call,  *)
(* and when Run ends after a signal or a halt the client has its refusal    *)
(* ("cancels the proxy's lifecycle context, which causes both transports to *)
(* exit [...] after the in-flight denial is delivered", enforce.Options).   *)
RefusalsFinal ==
  \A p \in Posts : verdict[p] = "refuse" =>
    /\ server[p] = "none"
    /\ run \in {"clean", "timedOut"} /\ p \notin gone => reply[p] = "refusal"

(* Outbound: a list answer that is a JSON-RPC message reaches the agent     *)
(* filtered, whether it comes in the body of the post or on a stream,       *)
(* before or after the post has ended, and even if the post has failed.     *)
HttpListsFiltered == \A p \in Lists : received[p] # "plain"

(* "List response cannot be filtered | replace with an error rather than    *)
(* forward unfiltered" (docs/threat-model.md): a list answer never reaches  *)
(* the agent without having been through the filter.                        *)
UnparsedNeverShown == \A p \in Lists : received[p] # "raw"

(* A Run that returns nil cut nothing off: every client that stayed has its *)
(* response, every frame the server wrote up to the first that does not     *)
(* decode has reached the agent, and so has every answer in a body, or an   *)
(* error in its place.                                                      *)
CleanExitLosesNothing ==
  run = "clean" =>
    /\ \A e \in Exchanges : at[e] # "none" /\ e \notin gone => reply[e] # "none"
    /\ \A s \in Streams \ gone : \A k \in DOMAIN frames[s] :
         (\A j \in 1 .. k : frames[s][j].form = "whole") =>
           received[frames[s][k].msg] # "none"
    /\ \A p \in Posts \ gone :
         server[p] = "answered" /\ ~Pushed(p) => received[p] # "none" \/ reply[p] = "error"

(* "Delete so the table cannot grow without bound over a long session"      *)
(* (takePending): an answer that has passed Outbound has taken its entry    *)
(* along, on whichever way it came.  What stays belongs to an exchange that *)
(* is under way or has been left, that failed, or that ended without the    *)
(* answer; and if a stream brought it, it did not decode.                   *)
EntriesReclaimed ==
  \A p \in pending :
    /\ Active(p) \/ p \in gone \/ reply[p] \in {"error", "raw"}
    /\ \A s \in Streams : \A k \in 1 .. relayed[s] :
         frames[s][k].msg = p => frames[s][k].form = "large"

(* A signal or a halt ends Run, whatever clients, humans and the server do. *)
CancelStopsRun == ctx = "done" ~> Returned

(* A client that leaves frees its handler, whatever the server does.        *)
LeavingFreesHandler ==
  \A e \in Exchanges : e \in gone ~> ~Active(e) \/ Returned
=============================================================================
