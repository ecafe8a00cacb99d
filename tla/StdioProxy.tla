----------------------------- MODULE StdioProxy -----------------------------
(***************************************************************************)
(* The stdio transport: stdio.Run (internal/transport/stdio/proxy.go) with  *)
(* the codec of internal/protocol it reads and writes by.                   *)
(*                                                                         *)
(* Five goroutines share one session: the pump from the agent to the        *)
(* server, the pump back, the closer that shuts AgentIn once the context    *)
(* is done, the watcher of exec.CommandContext that kills the child once    *)
(* the context is done, and Run itself, which waits for both pumps and      *)
(* reaps the child.  The agent and the child are the environment: either    *)
(* may fall silent, send garbage, close a stream or die at any moment, the  *)
(* agent may stop reading, and the child may leave a process behind that    *)
(* has inherited its pipes.                                                 *)
(*                                                                         *)
(* A message is its number, in the order the agent sends them; what the     *)
(* server answers to it bears its number too.  Interceptor.tla says how     *)
(* Inbound decides; here a decision is "forward" or "refuse", and a refusal *)
(* may halt the session.                                                    *)
(***************************************************************************)
EXTENDS Naturals, Sequences, FiniteSets

CONSTANTS
  N,                 \* bound: frames the agent may send in a session
  PipeCapacity,      \* frames that fit into the child's stdin and stdout pipes
  AgentIns,          \* the kinds of AgentIn: does closing it wake a blocked Read
  Stalls,            \* whether the agent may stop reading its end of AgentOut
  Heirs              \* whether the child may leave a process with its pipes behind

ASSUME BoundsAssumption == N \in Nat /\ PipeCapacity \in Nat \ {0}
ASSUME WorldAssumption ==
  AgentIns \subseteq {"wakes", "blocks"} /\ Stalls \in BOOLEAN /\ Heirs \in BOOLEAN

VARIABLES
  agentIn,           \* the kind of AgentIn of this session
  sent, input,       \* frames the agent has written; those not yet read
  agentOpen,         \* the agent still holds its end of AgentIn open
  inputClosed,       \* the closer has closed AgentIn
  output, got,       \* AgentOut: read by the agent, full or broken; what it received
  verdict,           \* verdict[m]: what Inbound answered for message m
  up, down,          \* the pumps: agent to server, server to agent
  stdin, stdinOpen,  \* the child's stdin pipe, and the proxy's end of it
  stdinKept,         \* the server still holds the other end
  stdout, stdoutOpen,\* the child's stdout pipe, and the server's end of it
  served, written,   \* what the server has read; what it has written, in order
  child, heir,       \* running, or how it ended; a process it left behind lives
  ctx, signalled,    \* the session context; the watcher has sent its signal
  run                \* Run: pumping, or what it returned

agentVars == <<agentIn, sent, agentOpen, output>>
streamVars == <<stdin, stdinOpen, stdinKept, stdout, stdoutOpen>>
childVars == <<served, written, child, heir>>
endVars == <<signalled, run>>
vars == <<agentVars, input, inputClosed, got, verdict, up, down, streamVars,
          childVars, ctx, endVars>>

(* A frame that does not decode; agents and servers may both send one. *)
Garbage == 0
Frames == 0 .. N
Refusal(m) == [msg |-> m, kind |-> "refusal"]
Response(m) == [msg |-> m, kind |-> "response"]

OutputOk == output # "broken"

(* The child or its heir: whoever holds the server's ends of the pipes.     *)
ServerAlive == child = "running" \/ heir
Reading == ServerAlive /\ stdinKept
Answered == {written[i] : i \in DOMAIN written}

TypeOK ==
  /\ sent \in 0 .. N
  /\ input \in Seq(Frames) /\ stdin \in Seq(1 .. N) /\ stdout \in Seq(Frames)
  /\ Len(stdin) <= PipeCapacity /\ Len(stdout) <= PipeCapacity
  /\ agentIn \in AgentIns /\ output \in {"read", "full", "broken"}
  /\ agentOpen \in BOOLEAN /\ inputClosed \in BOOLEAN
  /\ got \in Seq([msg : 1 .. N, kind : {"refusal", "response"}])
  /\ verdict \in [1 .. N -> {"none", "forward", "refuse"}]
  /\ up \in [pc : {"next", "reading", "judging", "refusing", "forwarding",
                   "closing", "done"}, msg : Frames]
  /\ down \in [pc : {"reading", "writing", "cancelling", "done"}, msg : Frames]
  /\ stdinOpen \in BOOLEAN /\ stdinKept \in BOOLEAN /\ stdoutOpen \in BOOLEAN
  /\ served \in Seq(1 .. N) /\ written \in Seq(Frames)
  /\ child \in {"running", "ok", "failed", "killed"} /\ heir \in BOOLEAN
  /\ ctx \in {"live", "done"} /\ signalled \in BOOLEAN
  /\ run \in {"pumping", "nil", "error"}

(* Run has started the child and its goroutines. *)
Init ==
  /\ agentIn \in AgentIns
  /\ sent = 0 /\ input = << >> /\ agentOpen = TRUE /\ inputClosed = FALSE
  /\ output = "read" /\ got = << >>
  /\ verdict = [m \in 1 .. N |-> "none"]
  /\ up = [pc |-> "next", msg |-> 0]
  /\ down = [pc |-> "reading", msg |-> 0]
  /\ stdin = << >> /\ stdinOpen = TRUE /\ stdinKept = TRUE
  /\ stdout = << >> /\ stdoutOpen = TRUE
  /\ served = << >> /\ written = << >> /\ child = "running" /\ heir = FALSE
  /\ ctx = "live" /\ signalled = FALSE /\ run = "pumping"

-----------------------------------------------------------------------------
(* The agent *)

AgentSends ==
  /\ agentOpen /\ sent < N
  /\ sent' = sent + 1
  /\ \E frame \in {sent + 1, Garbage} : input' = Append(input, frame)
  /\ UNCHANGED <<agentIn, agentOpen, output, inputClosed, got, verdict, up, down,
                 streamVars, childVars, ctx, endVars>>

(* The agent closes its end of AgentIn; dying, it stops reading as well. *)
AgentCloses ==
  /\ agentOpen
  /\ agentOpen' = FALSE
  /\ output' \in {output, "broken"}
  /\ UNCHANGED <<agentIn, sent, input, inputClosed, got, verdict, up, down, streamVars,
                 childVars, ctx, endVars>>

(* It stops reading for good, and its pipe fills up: writes to AgentOut     *)
(* block.  (An agent that only pauses delays the pumps, nothing more.)      *)
AgentStalls ==
  /\ Stalls /\ output = "read"
  /\ output' = "full"
  /\ UNCHANGED <<agentIn, sent, agentOpen, input, inputClosed, got, verdict, up, down,
                 streamVars, childVars, ctx, endVars>>

-----------------------------------------------------------------------------
(* The pump from the agent to the server *)

UpTo(pc, m) == up' = [pc |-> pc, msg |-> m]

(* Decode returned a frame. *)
Decoded ==
  /\ input # << >>
  /\ input' = Tail(input)
  /\ IF Head(input) = Garbage THEN UpTo("closing", 0) ELSE UpTo("judging", Head(input))

(* The loop calls Decode.  Once AgentIn is closed only frames the scanner   *)
(* has buffered are still delivered; otherwise the pump enters Read.        *)
UpNext ==
  /\ up.pc = "next"
  /\ \/ ~inputClosed /\ UpTo("reading", 0) /\ UNCHANGED input
     \/ inputClosed /\ UpTo("closing", 0) /\ UNCHANGED input
     \/ inputClosed /\ Decoded
  /\ UNCHANGED <<agentVars, inputClosed, got, verdict, down, streamVars,
                 childVars, ctx, endVars>>

UpDecoded ==
  /\ up.pc = "reading"
  /\ Decoded
  /\ UNCHANGED <<agentVars, inputClosed, got, verdict, down, streamVars,
                 childVars, ctx, endVars>>

(* Read fails: end of input, or AgentIn was closed under it.  A descriptor  *)
(* in blocking mode, which os.Stdin usually is, is closed without waking    *)
(* the Read that holds it.                                                  *)
UpReadFails ==
  /\ up.pc = "reading"
  /\ (~agentOpen /\ input = << >>) \/ (inputClosed /\ agentIn = "wakes")
  /\ UpTo("closing", 0)
  /\ UNCHANGED <<agentVars, input, inputClosed, got, verdict, down, streamVars,
                 childVars, ctx, endVars>>

(* Interceptor.Inbound: forward, refuse, or refuse and halt the session,    *)
(* which cancels the context before Inbound returns.                        *)
UpJudged ==
  /\ up.pc = "judging"
  /\ \/ /\ verdict' = [verdict EXCEPT ![up.msg] = "forward"]
        /\ UpTo("forwarding", up.msg)
        /\ UNCHANGED ctx
     \/ /\ verdict' = [verdict EXCEPT ![up.msg] = "refuse"]
        /\ UpTo("refusing", up.msg)
        /\ ctx' \in {ctx, "done"}
  /\ UNCHANGED <<agentVars, input, inputClosed, got, down, streamVars, childVars, endVars>>

\* Faulty variant of UpRefuses: a cancelled session is left at once.
UpRefusesIfLive ==
  /\ up.pc = "refusing" /\ output # "full"
  /\ IF OutputOk /\ ctx = "live"
     THEN got' = Append(got, Refusal(up.msg)) /\ UpTo("next", 0)
     ELSE UpTo("closing", 0) /\ UNCHANGED got
  /\ UNCHANGED <<agentVars, input, inputClosed, verdict, down, streamVars,
                 childVars, ctx, endVars>>

\* Faulty variant of UpRefuses: forward is not looked at after the reply.
UpRefusesAndForwards ==
  /\ up.pc = "refusing" /\ output # "full"
  /\ IF OutputOk
     THEN got' = Append(got, Refusal(up.msg)) /\ UpTo("forwarding", up.msg)
     ELSE UpTo("closing", 0) /\ UNCHANGED got
  /\ UNCHANGED <<agentVars, input, inputClosed, verdict, down, streamVars,
                 childVars, ctx, endVars>>

(* agentEnc.Encode(reply), and on to the next frame (forward is false). *)
UpRefuses ==
  /\ up.pc = "refusing" /\ output # "full"
  /\ IF OutputOk
     THEN got' = Append(got, Refusal(up.msg)) /\ UpTo("next", 0)
     ELSE UpTo("closing", 0) /\ UNCHANGED got
  /\ UNCHANGED <<agentVars, input, inputClosed, verdict, down, streamVars,
                 childVars, ctx, endVars>>

\* Faulty variant of UpForwards: a full pipe drops the frame.
UpForwardsOrDrops ==
  /\ up.pc = "forwarding"
  /\ IF ~Reading THEN UpTo("closing", 0) /\ UNCHANGED stdin
     ELSE /\ stdin' = IF Len(stdin) < PipeCapacity THEN Append(stdin, up.msg) ELSE stdin
          /\ UpTo("next", 0)
  /\ UNCHANGED <<agentVars, input, inputClosed, got, verdict, down, stdinOpen,
                 stdinKept, stdout, stdoutOpen, childVars, ctx, endVars>>

(* serverEnc.Encode(m): blocks on a full pipe, fails once nobody holds the  *)
(* other end.                                                               *)
UpForwards ==
  /\ up.pc = "forwarding"
  /\ \/ /\ Reading /\ Len(stdin) < PipeCapacity
        /\ stdin' = Append(stdin, up.msg)
        /\ UpTo("next", 0)
     \/ /\ ~Reading
        /\ UpTo("closing", 0)
        /\ UNCHANGED stdin
  /\ UNCHANGED <<agentVars, input, inputClosed, got, verdict, down, stdinOpen,
                 stdinKept, stdout, stdoutOpen, childVars, ctx, endVars>>

\* Faulty variant of UpCloses: the child's stdin stays open.
UpLeaves ==
  /\ up.pc = "closing"
  /\ UpTo("done", 0)
  /\ UNCHANGED <<agentVars, input, inputClosed, got, verdict, down, streamVars,
                 childVars, ctx, endVars>>

(* The deferred serverIn.Close and wg.Done. *)
UpCloses ==
  /\ up.pc = "closing"
  /\ stdinOpen' = FALSE
  /\ UpTo("done", 0)
  /\ UNCHANGED <<agentVars, input, inputClosed, got, verdict, down, stdin,
                 stdinKept, stdout, stdoutOpen, childVars, ctx, endVars>>

-----------------------------------------------------------------------------
(* The pump from the server to the agent *)

DownTo(pc, m) == down' = [pc |-> pc, msg |-> m]

(* Decode on the child's stdout: a frame, garbage, or the end of the stream *)
(* once everything the child wrote has been read.                           *)
DownReads ==
  /\ down.pc = "reading"
  /\ \/ /\ stdout # << >>
        /\ stdout' = Tail(stdout)
        /\ IF Head(stdout) = Garbage THEN DownTo("cancelling", 0)
                                     ELSE DownTo("writing", Head(stdout))
     \/ /\ stdout = << >> /\ ~stdoutOpen
        /\ DownTo("cancelling", 0)
        /\ UNCHANGED stdout
  /\ UNCHANGED <<agentVars, input, inputClosed, got, verdict, up, stdin,
                 stdinOpen, stdinKept, stdoutOpen, childVars, ctx, endVars>>

(* Outbound, which drops nothing, and agentEnc.Encode. *)
DownWrites ==
  /\ down.pc = "writing" /\ output # "full"
  /\ IF OutputOk
     THEN got' = Append(got, Response(down.msg)) /\ DownTo("reading", 0)
     ELSE DownTo("cancelling", 0) /\ UNCHANGED got
  /\ UNCHANGED <<agentVars, input, inputClosed, verdict, up, streamVars,
                 childVars, ctx, endVars>>

\* Faulty variant of DownCancels: only wg.Done.
DownLeaves ==
  /\ down.pc = "cancelling"
  /\ DownTo("done", 0)
  /\ UNCHANGED <<agentVars, input, inputClosed, got, verdict, up, streamVars,
                 childVars, ctx, endVars>>

(* The deferred cancel and wg.Done. *)
DownCancels ==
  /\ down.pc = "cancelling"
  /\ ctx' = "done"
  /\ DownTo("done", 0)
  /\ UNCHANGED <<agentVars, input, inputClosed, got, verdict, up, streamVars,
                 childVars, endVars>>

-----------------------------------------------------------------------------
(* The child, and what it leaves behind *)

ChildReads ==
  /\ Reading /\ stdin # << >>
  /\ stdin' = Tail(stdin)
  /\ served' = Append(served, Head(stdin))
  /\ UNCHANGED <<agentVars, input, inputClosed, got, verdict, up, down, stdinOpen, stdinKept,
                 stdout, stdoutOpen, written, child, heir, ctx, endVars>>

(* It answers what it has read, in any order, or writes garbage (once: the  *)
(* bound).                                                                  *)
ChildWrites ==
  /\ ServerAlive /\ stdoutOpen /\ Len(stdout) < PipeCapacity
  /\ \E m \in ({served[n] : n \in DOMAIN served} \cup {Garbage}) \ Answered :
       stdout' = Append(stdout, m) /\ written' = Append(written, m)
  /\ UNCHANGED <<agentVars, input, inputClosed, got, verdict, up, down, stdin,
                 stdinOpen, stdinKept, stdoutOpen, served, child, heir, ctx, endVars>>

ChildClosesStdin ==
  /\ Reading
  /\ stdinKept' = FALSE
  /\ UNCHANGED <<agentVars, input, inputClosed, got, verdict, up, down, stdin,
                 stdinOpen, stdout, stdoutOpen, childVars, ctx, endVars>>

ChildClosesStdout ==
  /\ ServerAlive /\ stdoutOpen
  /\ stdoutOpen' = FALSE
  /\ UNCHANGED <<agentVars, input, inputClosed, got, verdict, up, down, stdin,
                 stdinOpen, stdinKept, stdout, childVars, ctx, endVars>>

(* It ends with status s: on its own, by a crash, or killed.  Its pipes end *)
(* with it unless a process it started has inherited them.                  *)
ChildEnds(s) ==
  /\ child = "running"
  /\ child' = s
  /\ heir' \in {FALSE, Heirs}
  /\ stdoutOpen' = (stdoutOpen /\ heir')
  /\ UNCHANGED <<served, written, stdin, stdinOpen, stdinKept, stdout>>

HeirEnds ==
  /\ heir
  /\ heir' = FALSE /\ stdoutOpen' = FALSE
  /\ UNCHANGED <<agentVars, input, inputClosed, got, verdict, up, down, stdin, stdinOpen,
                 stdinKept, stdout, served, written, child, ctx, endVars>>

ChildExits ==
  /\ \E s \in {"ok", "failed"} : ChildEnds(s)
  /\ UNCHANGED <<agentVars, input, inputClosed, got, verdict, up, down, ctx, endVars>>

-----------------------------------------------------------------------------
(* The context and Run *)

(* SIGINT, SIGTERM or the caller. *)
Cancelled ==
  /\ ctx = "live"
  /\ ctx' = "done"
  /\ UNCHANGED <<agentVars, input, inputClosed, got, verdict, up, down,
                 streamVars, childVars, endVars>>

(* <-ctx.Done(); closer.Close(). *)
CloseInput ==
  /\ ctx = "done" /\ ~inputClosed
  /\ inputClosed' = TRUE
  /\ UNCHANGED <<agentVars, input, got, verdict, up, down, streamVars, childVars,
                 ctx, endVars>>

(* exec.CommandContext: the context is done, the child is killed, and only  *)
(* the child.  The signal also succeeds on one that is not yet reaped.      *)
Kill ==
  /\ ctx = "done" /\ ~signalled /\ run = "pumping"
  /\ signalled' = TRUE
  /\ IF child = "running" THEN ChildEnds("killed") ELSE UNCHANGED <<streamVars, childVars>>
  /\ UNCHANGED <<agentVars, input, inputClosed, got, verdict, up, down, ctx, run>>

\* Faulty variant of Reap: believes Wait when the signal raced with the exit.
ReapTrustsWait ==
  /\ run = "pumping" /\ up.pc = "done" /\ down.pc = "done"
  /\ child # "running"
  /\ run' = IF child # "ok" \/ signalled THEN "error" ELSE "nil"
  /\ ctx' = "done"
  /\ UNCHANGED <<agentVars, input, inputClosed, got, verdict, up, down,
                 streamVars, childVars, signalled>>

(* wg.Wait, cmd.Wait, processSucceeded and the deferred cancel: Wait reports*)
(* an error for a non-zero status and for a signal that was sent, and only  *)
(* the recorded status decides.                                             *)
Reap ==
  /\ run = "pumping" /\ up.pc = "done" /\ down.pc = "done"
  /\ child # "running"
  /\ LET waitErr == child # "ok" \/ signalled
         success == child = "ok" IN
     run' = IF waitErr /\ ~success THEN "error" ELSE "nil"
  /\ ctx' = "done"
  /\ UNCHANGED <<agentVars, input, inputClosed, got, verdict, up, down,
                 streamVars, childVars, signalled>>

-----------------------------------------------------------------------------
Agent == AgentSends \/ AgentCloses \/ AgentStalls
Up == UpNext \/ UpDecoded \/ UpReadFails \/ UpJudged \/ UpRefuses \/ UpForwards \/ UpCloses
Down == DownReads \/ DownWrites \/ DownCancels
Child == \/ ChildReads \/ ChildWrites \/ ChildClosesStdin \/ ChildClosesStdout
         \/ ChildExits \/ HeirEnds

Next == Agent \/ Up \/ Down \/ Child \/ Cancelled \/ CloseInput \/ Kill \/ Reap

(* Every goroutine of the proxy that can run does; Inbound returns, as      *)
(* Interceptor.tla shows.  Nothing is asked of the agent or of the child.   *)
Fairness == WF_vars(Up) /\ WF_vars(Down) /\ WF_vars(CloseInput) /\ WF_vars(Kill) /\ WF_vars(Reap)

Spec == Init /\ [][Next]_vars /\ Fairness

-----------------------------------------------------------------------------
Returned == run # "pumping"
Reached == served \o stdin
Forwarded == {m \in 1 .. N : verdict[m] = "forward"}

(* The server gets the forwarded messages, each once and in the agent's     *)
(* order, and none that was refused; only the last may be missing, and only *)
(* because the pump still holds it or nobody reads the server's stdin.      *)
ForwardedInOrder ==
  /\ \A i, j \in DOMAIN Reached : i < j => Reached[i] < Reached[j]
  /\ \A i \in DOMAIN Reached : Reached[i] \in Forwarded
  /\ \A m \in Forwarded :
       \/ \E i \in DOMAIN Reached : Reached[i] = m
       \/ up.pc = "forwarding" /\ up.msg = m
       \/ ~Reading /\ \A n \in Forwarded : n <= m

(* The agent gets one answer to a message, the refusal or the response,     *)
(* never both and never twice, although two pumps write to it.              *)
AnsweredOnce == \A i, j \in DOMAIN got : got[i].msg = got[j].msg => i = j

Received(frame) == \E i \in DOMAIN got : got[i] = frame

(* finish, on_error halt: "The in-flight call is denied first so the agent  *)
(* gets a response rather than a silent disconnect."  When Run returns, the *)
(* agent has every refusal, whatever cancelled the session meanwhile.       *)
RefusalsDelivered ==
  Returned /\ OutputOk =>
    \A m \in 1 .. N : verdict[m] = "refuse" => Received(Refusal(m))

(* Nothing the server has said is lost in a shutdown: when Run returns, the *)
(* agent has every response the server wrote, even one that was killed.  An *)
(* undecodable line ends that pump, so what is behind one is not owed.      *)
ResponsesDelivered ==
  Returned /\ OutputOk =>
    \A i \in DOMAIN written :
      (\A j \in 1 .. i : written[j] # Garbage) => Received(Response(written[i]))

(* What was owed to the agent reaches it, in whatever way the session ends. *)
NothingLostAtExit == RefusalsDelivered /\ ResponsesDelivered

(* processSucceeded: the child has been reaped when Run returns, and Run    *)
(* reports an error exactly if the child's own status was not zero.         *)
ExitReportedFaithfully ==
  Returned => child # "running" /\ (run = "nil" <=> child = "ok")

(* The three ways in which others can hold the session up for as long as    *)
(* they like: a silent agent under a Read that Close does not wake, an      *)
(* agent that no longer reads, an heir of the child with the pipes open.    *)
HeldByRead == agentIn = "blocks" /\ up.pc = "reading" /\ agentOpen /\ input = << >>
HeldByOutput == output = "full" /\ (up.pc = "refusing" \/ down.pc = "writing")
HeldByHeir == heir /\ (up.pc = "forwarding" \/ down.pc \in {"reading", "writing"})
HeldUp == HeldByRead \/ HeldByOutput \/ HeldByHeir

(* The end of the child or of the context, by a signal or a halt, ends the  *)
(* session unless it is held up for ever in one of these three ways.  (Both *)
(* ends are final, like Returned and the agent's close below.)              *)
StopsEndRun == <>[](child # "running" \/ ctx = "done") => <>[]Returned \/ <>[]HeldUp

(* A server that lives on, and does not read although a message waits for   *)
(* it, or although its stdin has ended.                                     *)
Stubborn == child = "running" /\ (up.pc = "forwarding" \/ ~stdinOpen)

(* "Run proxies until the agent closes its input"; "closing the child's     *)
(* stdin is what makes a well-behaved server exit": the end of the agent's  *)
(* input ends the session, unless it is held up for ever or the server is   *)
(* no well-behaved one.                                                     *)
AgentCloseEndsRun == <>[]~agentOpen => <>[]Returned \/ <>[]HeldUp \/ <>[]Stubborn

(* "Cancelling on return unblocks the other direction when the child dies,  *)
(* which is what prevents the agent hanging forever on a crashed server."   *)
(* "Run proxies until [...] the child exits".                               *)
ChildDeathEndsRun == child # "running" ~> Returned
=============================================================================
