# A formal model of mcpguard

mcpguard is a policy-enforcing proxy between an agent (an MCP client) and an MCP
server. It judges every `tools/call` and `resources/read` against an ordered list
of rules, may ask a human, writes an audit line, and only then forwards the call or
refuses it. It also filters what `tools/list` and `resources/list` advertise.

This directory holds TLA+ modules translated from the Go source, TLC configurations
that check them on small instances, and TLAPS proofs of the main results for every
value of the constants. `PROJECT.json` maps each definition to the lines it stands
for, and lists the runs, the faulty variants, the findings, the hazards and the
theorems.

## The system

| Component | State it keeps | Operations | Modules |
|---|---|---|---|
| Approval broker and registry (`internal/approval`) | nonce table, one channel per nonce | `Approve`, `Register`, `publish`, `Resolve`, `Cancel`, two HTTP callbacks | `Approval`, `ApprovalGate` |
| Enforcement interceptor (`internal/enforce`) | pending table id -> list method | `Inbound`, `Outbound`, `resolveApproval`, `finish` | `Interceptor` |
| Policy engine (`internal/policy/engine.go`) | the compiled configuration, immutable | `Evaluate`, `ToolVisible` | `Policy` |
| Stdio transport (`internal/transport/stdio`) | two pumps, closer, child process, context | `Run` | `StdioProxy` |
| HTTP/SSE transport (`internal/transport/httpsse`) | one goroutine per exchange, server life cycle | `servePost`, `serveStream`, `forward`, `Run` | `HttpProxy` |
| Policy configuration (`config.go`) | none after load | `Load`, `applyDefaults`, `validate`, matcher compilation | `Config` |
| Matchers and globs (`matcher.go`) | none | `Match`, `GlobMatch` | `Matcher`, `Glob` |
| Protocol (`internal/protocol`) | scanner, encoder lock | `Decode`, `Encode`, parsers, list filters | in `Interceptor`, `StdioProxy` |
| Audit log and metrics (`internal/audit`) | file, lock, counters | `Open`, `Record`, `Close`, `MultiRecorder`, redaction | `AuditLog`, `RecordLog`, `Redaction` |
| Canonicalisation (`internal/canon`) | none | `Path`, `URL`, `FileURIPath` | `Canon` |
| Command line (`cmd/mcpguard`) | the session: configuration, log, contexts | `run` | `Session` |
| | | `validate`, `explain`, `test` | not modelled |
| Test files, mutator, fake server | none | | not modelled |

How they interact: a transport goroutine calls `Inbound` with its context;
`Inbound` calls the engine, then perhaps `Broker.Approve`, which blocks; a callback
goroutine of the approval listener answers it through the registry; `finish` calls
the recorder, which all goroutines share, and on `on_error: halt` cancels the
session's context, which the transport watches. Answers from the server go through
`Outbound`, which consults the pending table that `Inbound` filled.

What is hard to test: the interleavings of callbacks, timers and cancellation around
one nonce; failures between deciding, recording and enforcing; answers in any order
against a table keyed by id; the shutdown of five goroutines and a child process;
two loops over the same rules that must agree; a log that is written by many, torn
by failures, closed under live handlers and appended to by the next process; a
canonical path that must be the one the kernel opens. `PROJECT.json` lists these hazards
line by line.

What makes each component correct:

- broker and registry: a call is approved only by its own human; a nonce works once;
  nothing leaks or blocks; every call comes back;
- interceptor: recorded before enforced; only permitted calls reach the server; the
  log tells the truth; audit mode only observes; lists are filtered; everything is
  answered;
- engine: a permit always has a justification; nothing permitted is hidden; arguments
  nobody named never help a call;
- stdio transport: order, one answer per message, nothing lost at shutdown, the
  session ends when the child, the context or the agent's input does, and the exit
  status is the child's;
- HTTP transport: a refusal is final and delivered, a list answer is filtered
  whichever way it comes, a clean exit loses nothing, a cancelled `Run` ends and a
  client that leaves frees its handler;
- matchers and globs: operators and nested matchers add up to a conjunction, a value
  of the wrong type is neither match nor mismatch, an absent argument satisfies no
  constraint on its value, and a greedy glob finds every match;
- configuration: what is left out never widens access; what loads is fit for every
  component behind it;
- audit: a recorder that says yes has recorded; a failure spoils no more than one
  other record; every decision is counted once; a redacted value does not show;
- session: what got through is in the file, over crashes and restarts, and
  `on_error: halt` ends the process;
- canonicalisation: the canonical path leads where the text leads, canonicalising
  again changes nothing, spellings of one URL agree.

## Modules

### ApprovalGate and Approval

`ApprovalGate` is the contract of `enforce.Approver` as the interceptor uses it: a
call is asked about, at most one vote is taken, it is granted only on an approving
vote, may be refused at any time, and always returns. `Approval` is the
implementation. `broker[a]` is where one `Broker.Approve` stands (`publishing`,
`waiting` in the select, or on one of three ways out), `entries` is the registry's
map, `answers[a]` the buffered channel, and `callback[c]` one HTTP request to
`/approve/` or `/deny/`. `Claim` is the locked part of `Resolve` and `Send` the send
after the unlock, so a timeout may fall between them. `Notify` and `Published` are
apart because the human may tap before `publish` returns; `PublishFails` covers
every error, also one after the notification was delivered. A nonce is 32 random
bytes and is represented by the call it was drawn for. The refinement maps a call's
status to the gate's and the claimed callback to the gate's vote (`statusBar`,
`voteBar`).

### Interceptor

`req[r]` is one agent message with the goroutine that carries it. `arrived` to
`refused` or `forward` follows `Inbound`: `Evaluate` stands for `handleToolsCall` and
`handleResourcesRead`, `AskHuman` and `ApproverReturns` for `resolveApproval` on top
of `ApprovalGate` (instantiated, so the composition is with the contract and not
with the broker), `Record`, `FinishRecorded` and `FinishUnrecorded` for `finish`.
`pending`, `RememberPending` and `TakePending` are the correlation table; `Answer` is
an answer of the server passing `Outbound`, and `ServerRequest` a request of the
server's own, which passes it as well and may bear the id of an agent's: JSON-RPC
numbers requests per sender, the table does not tell senders apart. What that and the
sharing of the table by all HTTP clients cost is stated twice: `HiddenNeverShown` is what
the code's comment says, and is violated; `ListsFiltered` and `AnswersCorrelated` are
what the table does achieve, for a request that is `Alone` with its id and not in
`overtaken`, a history variable that collects the outstanding list requests under whose
id the server has sent a request. Of MCP it is used that a client does not reuse an id
(`FreshId`) and that a server answers a request at most once.
`Fail` is an exchange the transport answers with an error. Policy
answers are the constants `Decision` and `Hidden`. Records fail at any time. After a
halt the model goes on, which covers everything that was in flight and more.

### Policy

`Evaluate` and `ToolVisible` are kept as the loops they are, one action per way
through the body. A configuration is what `Load` accepts. A glob list is the set of
names it matches; a matcher is a table from values (and absence) to `yes`, `no` or
`error`, which are the answers `Matcher` computes. Argument names carry their sort
position, because `argsMatch` stops at the first name in that order that is not
satisfied.

### StdioProxy

`up` and `down` are the two pumps; `stdin` and `stdout` are bounded pipes to the
child, so writes block; `CloseInput` is the closer, `Kill` the watcher that
`exec.CommandContext` starts, `Reap` is `wg.Wait`, `cmd.Wait` and `processSucceeded`.
A halt inside `Inbound` cancels the context before the refusal is written. Frames
are whole, as `Encoder.Encode` writes each with one `Write` under a lock. The agent
and the child may do anything, garbage included. `agentIn` says whether closing AgentIn
wakes a `Read` in progress: it does for the pipes of the tests ("wakes"), and not for a
descriptor in blocking mode, which `os.Stdin` usually is ("blocks"). `output` is the
agent's end of AgentOut, which it reads, has given up (writes fail) or leaves full
(writes block). The server may close its stdin (`stdinKept`) or stdout and run on, and
when the child ends, by itself or killed, an `heir` may keep its ends of the pipes: the
kill reaches the child only, and no `WaitDelay` bounds the wait.

Three parties can thus hold `Run` up for as long as they like, and `HeldUp` names them: a
silent agent under a `Read` that nothing wakes, an agent that no longer reads, an heir.
`StopsEndRun` says that the end of the child or of the context ends the session
unless one of them does so for ever. The end of the agent's input only closes the child's
stdin, so `AgentCloseEndsRun` needs the server as well: one that lives on without reading, or
after its stdin has ended, is `Stubborn`. `ChildDeathEndsRun` is what the comments at
`proxy.go:113` and `:159` promise without any exception, and is violated.

`Inbound` never returns "drop" here because `enforce.Interceptor` never does.

### HttpProxy

`at[e]` is where the goroutine of one HTTP exchange stands. A post carries one
message through `ReadBody`, `Judge` (`Inbound`), `Refuse` or `Deliver`, `HeadArrives`
and `BodyArrives`; a stream is a GET that stays open and is pumped by `Relay`. The
server may answer a message in the body of its post, or answer the post with
something else (`raw`, the empty 202) and send the answer on any open stream, before
or after the post has ended or failed; `pending` is what `Outbound` recognises it
by, so the model keeps the interceptor's table. An answer in a body may be a JSON-RPC message,
which goes through `Outbound`; too large, which makes it an error of the proxy's; or
something that does not parse, which is passed on as it is (`received` is then "raw").
`frames[s]` is what the server has written on a stream and `relayed[s]` how far the pump
has come. A frame has a form: `whole`; `large`, that is over the decoder's 1 MiB and under the
scanner's 4 MiB; or `Garbled`. The pump stops at the first that is not whole, and the
server may go on writing behind it. `ClientLeaves` cancels an exchange's
own context, which fails reads and the upstream request at any later point (`Fail`,
also after the server has acted). A refusal may have cancelled the lifecycle context
(`on_error: halt`) before it is written. `Shutdown` closes the listener and waits
for handlers without cancelling them; requests on connections accepted before may
still come. `Expire` is the end of its five seconds: they are assumed long for a
handler that has a step of its own and short for one that `Waits` for a client, a
human or the server. The model ends when `Run` returns, as the process does.
`HttpListsFiltered` is about list answers that are JSON-RPC messages; that every list
answer is filtered, `UnparsedNeverShown`, is violated by the bodies that do not parse.
`EntriesReclaimed` says which entries may stay in the table, and `CleanExitLosesNothing` what a
stream owes up to its first frame that does not decode.

### Matcher and Glob

A matcher is the sequence of its nodes, nested ones first; `Evaluate` lets the next
node answer from the answers of those it names, with the early returns of `Match` in
the code's order (presence operators, absence, type, `all`, `any`, `not`, leaf
operators). The code does not evaluate nodes it does not need; evaluating them has
no effect. What one test says of one text and the canonical forms are tables
(`Passes`, `Canonical`), as they belong to Go's libraries and to `internal/canon`;
`in` and `not_in` are globs. `Reading` is the documented meaning: a three-valued
assignment in which a node is `sat` if every operator in it holds, `unsat` only if
one fails, and `undefined` otherwise (a value of the wrong type, or one without a
canonical form). `Unmixed` leaves out the two mixtures for which `Match` looks at a part of the operators
only (see the observations).
`GlobMatch` is the greedy loop of the code (`Past(p, s)` is where it stands behind each
segment), and `Covers` what a glob means.

### RecordLog, AuditLog and Redaction

`RecordLog` is what `enforce.Recorder` promises `finish`: yes means recorded, no means
not, a recorder that dies leaves it open, and nothing recorded is lost. `AuditLog` is
`Logger` with `MultiRecorder` and `Metrics` on top. A line is two halves, because
`os.File.Write` may need several system calls and may fail between them; `rec[c]`
follows one `Record` from `begun` over `Acquire` (the lock), `WriteHead` and
`WriteTail`, or `WriteFails`, to `Return`. `Close` may come while others record.
`ProcessEnds` takes handle, lock and goroutines away and leaves the file, to which the
next `Open` appends. The refinement maps the calls whose halves are adjacent in the
file to `recorded`. `Redaction` is `redactCopy` on arguments that are functions from
leaf paths to values; its loop over the patterns is a recursive function. A pattern names
keys, so it does not reach into lists: `args.items.token`
leaves a token inside a list of objects as it is.

### Config and Session

`Config` is `Load`: `ApplyDefaults`, `Valid` condition by condition, and the compiling
of matchers in `validateRules` and `New`, where nested nodes are compiled in place and
the matcher itself is a copy that has to be written back. `Session` is `runCmd`: `Start`
and `StartFails` follow its checks in their order as far as the order shows, `Judge`,
`Record` and `Finish` are one call through `Inbound`, the recorder of `AuditLog`
(instantiated on the same variables) and `finish`; `TransportReturns`, `CloseLog` and
`ProcessEnds` are the way out, and the program may be started again on the same file.
A stdio session carries one call at a time; an http session many, and its
transport may return with handlers still running, so that the log is closed under
them. `Access` is what a configuration lets through, over everything that can happen to
a call; `OmissionNeverWidens` compares it with every file that says explicitly what
the first leaves out. The comment at `config.go:172` is about the document's fields;
a rule's own `additional_args` falls back on the document's default and is not part of
the comparison.

### Canon

A text is split at its slashes; a file system is a function from the paths that exist
to directories, files and links; `Walk` is path resolution as the kernel does it (and
as `filepath.EvalSymlinks` repeats it, external here): a recursive function of a walker's
place, what it has left to read and the links it may still follow. `Resolve`, `Unresolvable`
and `Climb` are the loop of `resolveSymlinks`. `Repeat` gives a result back to `Path`.
`PathMeans` states that the canonical path leads where the text leads, also for files
that do not exist yet; that it is the place itself holds without dangling links only, whose
name `resolveSymlinks` keeps. `URL` has the authority as one text, as `u.Host` is, and
`Split` says what `Hostname` and `Port` make of it: without the brackets of an IPv6 literal,
and with no host at all for `:80`. An authority `url.Parse` rejects is not in `Split`.
`UrlsAgree` is about `Ordinary` authorities, a host that stands for itself and perhaps a port,
and says of the others that a canonical form that kept its port is its own. What happens to
the rest is among the observations.

## Runs

| Run | Instance | Shows |
|---|---|---|
| `approval` | 2 calls, 3 callbacks, `on_timeout: approve` | all safety and liveness of the broker, and that it implements the gate |
| `interceptor` | 2 messages of 2 sessions that share 2 ids, 1 id the server uses as well, 3 targets (allow, approve, deny), 7 configurations | all properties of the interceptor |
| `interceptor_shared_ids` | 2 sessions and the server, all with 1 id, the default configuration | violation: another sender's message takes the entry of a list request |
| `policy` | policies of 0 to 2 rules out of 26, 2 defaults, 17 argument sets | both loops against what they promise |
| `policy_confused` | policies of 1 rule | violation: a type-confused argument can be skipped |
| `stdio` | 2 messages, pipes of 1 frame, both kinds of AgentIn, an agent that may stop reading, heirs | all properties of the stdio transport |
| `stdio_blocking` | 1 message, an AgentIn that Close does not wake | violation: a crashed child does not end the session |
| `http` | a call and a list request, 1 stream | all properties of the HTTP transport, the table's upkeep included |
| `http_unparsed` | the same | violation: a list that does not parse is passed on unfiltered |
| `matcher` | 567 matchers of a root over two leaves, every glob of up to 4 segments, texts of up to 3 characters, 5 other values, absence | `Match` and `GlobMatch` against their meaning |
| `session` | 3 calls, 2 starts, 9 commands that serve (each `on_error`, both transports, with and without metrics, audit mode, stderr), and some 4300 policy files that are only loaded | recorder, session and loading |
| `canon` | file systems of 2 names and depth 2 and one with a link to a name of invalid UTF-8, paths of up to 3 elements, 60 URIs, 700 URLs (5 schemes, 14 authorities, 10 paths) | canonical forms against the kernel and each other |

Bounds, and why they suffice. Three callbacks are a repeated tap on one call while
the other is answered; calls share nothing but the table, so two are enough to
confuse nonces. Two messages in flight are the least that can race for the pending
table, the log and the human; each target class appears. Their sessions number as they
like, so the ids may be equal or differ, and the server uses one of them, so each message is
with and without company under its id. In audit mode nobody is asked, and a missing
approver is settled before the record, so 7 configurations stand for all 12. Two rules and a default are
three levels of precedence: one to be skipped or to fail, one to take over, one
behind both; three argument names give a first, a later and an unnamed one. Two
messages and pipes of one frame make every blocking write and every reordering
possible: one message in a pipe, or answered, while the other is in a pump's hand, refused or
waits for a human, and garbage before, between and behind their answers. One garbled frame on a stream is
enough because the pump stops at the first. One post that may be refused, one whose answer must be filtered and one
stream are the least with which an answer can come either way while another
exchange halts, fails or holds up the shutdown. A root over two leaves has every
combinator see every pair of answers of its children, and errors, absence and
presence operators below each; deeper nesting is the theorems' part. Texts of three
characters over two letters are long enough for a segment to overlap the next and
for a greedy choice to take what a later one needs.
Three calls are one that fails half-way, the good one it spoils and one behind that;
two starts are the least at which a torn line of one process meets a record of the
next. In the policy files every scalar takes every value, in every combination, and
servers and rules go wrong one at a time, alone and behind a good one. Lists of two
redaction patterns over two keys overlap in every way two can. Two names and depth two
give links upwards, across, to links, to nothing and in circles, in the middle of a path and at
its end; eight hops are more than any of them needs.
The theorems below remove most of these bounds.

Deadlock checking is off where a system comes to rest by itself: every call
returned, every message used, the session over.

Each property of a passing run has a faulty variant of the code (the operators whose
comment begins with "Faulty variant") under which TLC reports it violated.

### Fairness

`Approval`: `publish` ends because its client has a timeout; the select ends because
its timer runs; runnable goroutines run. Nothing makes a human answer.
`Interceptor`: runnable goroutines run and the approver returns, which is what
`approval` shows of the broker. Nothing makes the server answer.
`StdioProxy`: each goroutine of the proxy runs when it can, and `Inbound` returns
(the result of the previous module). Nothing is asked of the agent, which
need not send, read or close, nor of the server and its heirs, which need not read or end:
`HeldUp` and `Stubborn` are part of the properties.
`HttpProxy`: a handler that can run does; `Inbound` returns; a handler that waits for
its client or the server goes on once the client has left, because that cancels the
request's context. Clients and the server are free otherwise. `Shutdown` returns when
all is idle or its deadline is over.
`Session`: a recording goroutine and `finish` run when they can; a transport whose
context is cancelled returns, which is what `CancelStopsRun` shows of the HTTP transport
and `StopsEndRun` of the stdio transport where nobody holds it up (with a stdin in blocking mode and a
silent agent, for instance, the assumption fails and so does `HaltEndsSession`); deferred
calls run and `main` exits. Nothing makes a call come.
`Policy`, `Matcher` and `Canon` need none: their properties are safety.

## Theorems

All are in `*Proofs.tla`, for any number of calls, callbacks, messages, rules,
arguments and any matcher.

- `ApprovalProofs`. The invariant adds to the properties what ties them together: an
  answer or a claiming callback exists only for a nonce that has left the table, and
  a nonce that has left it has either one claimer or a finished call. From this
  follow the nonce's single use, room in the channel, the absence of leaks, that a
  waiting call can still be answered, and that approval needs an approving callback.
  `ImplementsGate` shows that initial states and every step map to the gate's.
- `InterceptorProofs`. `IndInv` says for each request which control points are
  consistent with which log entries and decisions; the four enforcement theorems
  follow. `PendingInv` says that the table holds the entry of every outstanding list request
  that is alone with its id and not overtaken by a request of the server, and that what it
  holds under the id of a message that is alone is that message's; `Filtering` and
  `Correlation` follow, for any number of clients and whatever ids they and the server
  use. Without the two conditions they are false, which is what `interceptor_shared_ids` shows of
the server's requests; for another client, `Ids = {"1"}` with `ServerIds = {}` does.
- `PolicyProofs`. `IndInv` says of each loop that all rules before its index stood
  aside for its own reason. `ListingIsHonest` compares the two indices;
  `PermitsAreJustified` needs that the first failing argument in sort order is a
  failing argument; `ExtraArgumentsNeverWiden` that dropping an unnamed argument
  keeps every verdict except errors.
- `MatcherProofs`. `ConjunctionInv` says that in every reading of the matcher each
  node answered so far agrees with it; that a node agrees if its children do is
  shown operator by operator (`AllOfSound`, `AnyOfSound`, `NotOfSound`, `LeafSound`)
  and put together along the early returns (`ChainSays`, `MatchSound`). The order of
  evaluation replaces the induction over the matcher's depth. `AbsenceNeverWidens` is
  for any matcher, mixed ones too. `GlobSearchIsComplete` is for any glob and text: a
  segment found greedily ends no later than in any other way of laying out the
  pattern (`CoversPast`), and what the search finds is such a layout (`PastCovers`), each
  by induction over the segments.
- `StdioProofs`. `IndInv` follows a message along the session. On the way up it is in the
  agent's stream, in the pump's hand or judged, and nothing overtakes (`InputAhead`,
  `UpOK`); a forwarded one is in the hand, in the pipe or read, and only the last one can
  be missing, dropped when nobody read the server's stdin any more (`ReachedOK`). On the way down an
  answer is in the pipe, in the other pump's hand or with the agent, in one place at a
  time (`AnswersOK`, `GotOK`, `OwedOK`), and the pipe is the end of what the server has written, of which
  the pump has taken the rest, up to the first undecodable line (`StdoutOK`, `Taken`). The properties alone are not inductive: they say
  nothing of what a pump holds. `ServerSeesForwarded`, `OneAnswer`, `NothingLost` and
  `FaithfulExit` follow, for any number of messages, any size of the pipes and every kind of
  AgentIn, agent and heir. `NothingLost` is about all responses before the first undecodable line, as the pump ends
  there.
- `HttpProofs`. `IndInv` follows each exchange: what a post's control point says of its
  verdict and of what its client has (`PostOK`), that what comes down a stream or
  as a body has passed the filter (`StreamOK`, `FramesOK`), that the pending table
  holds what is unanswered (`PendingOK`, `AnsweredOK`), and what a returned `Run` has
  behind it (`RunOK`). `RefusalIsFinal`, `ListsFiltered` and `CleanExit` follow, for any
  number of posts and streams, with bodies and frames of every form. `EntriesAccountedFor`
  needs no more than that an entry belongs to a forwarded message (`EntriesInv`).
- `SessionProofs`. First the audit log alone: `LogInv` says who may hold the lock
  (`LockHeld`), that the half-line of a call being written is the last in the file
  (`HalfwayIsLast`), that every head in the file is followed by its tail or belongs to a
  call that is being written or failed (`HeadsFollowed`), and which states of `rec` go with
  a whole record (`RecordedFits`). `LogDamageStaysLocal`, `LogCountsEveryDecision` and
  `LogKeepsPromise` follow, the last as a refinement step by step. Then sessions: each
  step is a step of the audit log or leaves it alone (`StepIsLogStep`), so a session
  inherits the log's theorems; `SessionInv` ties a call's
  outcome to its record, over restarts with the same command, which gives
  `NothingUnrecordedForwarded`. `DefaultsAreSafe` is by monotonicity of `Access`
  (`AccessMonotone`); `LoadEstablishesAssumptions` shows for every policy file that
  what `Load` accepts is what the other modules assume of a configuration.
  `RedactionIsComplete` is for any list of patterns and any arguments: `Redacted(a, i)` says
  that behind the i-th pattern a leaf shows its value only if none of the first i reaches
  it, and that nothing unnamed is changed; `AppliedOnce` carries it over one pattern (the
  arguments stay a tree, whose leaves are no prefixes of each other), `LoopMeets` over the
  list.
- `CanonProofs`, for any file system, text and limit of links. That the recursive functions
  meet their recurrences is proved by giving functions that do (`CleanStep`, `SpreadStep`,
  `WalkStep`: what a walk can come to is a set, and its only end is the value). A walk over
  two texts is the walk over the second from where the first has led (`OneAfterTheOther`),
  a walk that may follow more links comes no further unless it failed (`MoreHops`: the second
  resolution of a path starts with all its links again), and repeated slashes and dots change
  nothing (`NoiseAside`). A path is `Settled` if it is something that exists and is no
  link, followed by names the first of which leads to nothing; `Returned` shows that
  `resolveSymlinks` answers nothing else. `IndInv` says that what is tried and what was cut
  off are together the cleaned text, and that with the first name cut off there is nothing;
  `PathMeans` is not inductive without it. `PathMeansTheorem` and `Idempotence` follow, the
  latter because a settled path climbs back to itself (`SettledStep`). `UrlsAgreeTheorem`
  needs that decoding what was decoded changes nothing (`DecodePlain`, `PathOfAgain`), that an
  authority that lost its default port has none left to lose (`AuthorityAgain`), and that
  ordinary authorities of one origin come out alike (`AuthoritiesAgree`).

Induction over rules, nodes or calls is the behaviour's own, as there is an action for each
step. Induction over data (segments, patterns, texts, walks) is by the least counterexample: the set of
indices at which a statement fails has a least element, and `SetInduction` says that it is
empty; a walk has a least number of links left and, with these, a least length of text.

Each `TypeOK`, and `AuditModeObserves` of the interceptor (in audit mode nobody is
asked, and only a call that cannot be recorded is refused) and
`MetricsCountEveryDecision` of the audit log (a decision whose `Record` returned is counted once,
whichever recorder failed), are theorems without a run of their own.

Assumptions are the named `ASSUME`s of the modules. Those about configurations restate
what `LoadEstablishesAssumptions` proves of `Load`; `CommandsAssumption` says that a
decoded file has the fields of its struct. `TextsAssumption` says that texts are sequences
of characters and that a glob, split at its stars, has at least one segment;
`ArgumentsAssumption` that the leaves of a JSON object are a set of paths none of which begins
another; `TreesAssumption` that what exists in a file system is below directories up to its
root, under names that are not empty, `.` or `..`; `InputsAssumption` that inputs are
texts of the known elements; `SpellingAssumption` that what percent-decoding yields has
nothing left to decode (an element stands for a name in some spelling, and a decoded one for
the spelling `String` gives it) and that lower case is lower case already;
`AuthoritiesAssumption` that `Hostname` and `Port` do not depend on case, and that a host without
brackets is written with a port in one way;
`GarbageAssumption` and `ExchangesAssumption` that exchanges, and frames without a message,
are told apart; `BoundsAssumption` that numbers of messages and sizes of pipes are naturals, and
`WorldAssumption` that the switches of `StdioProxy` are switches. TLC evaluates
all of them on each instance.

Only model-checked: the liveness properties and `GateImplemented`'s fairness part
(temporal reasoning about fairness is beyond the prover). Every invariant that a passing
run checks is also a theorem.

What the models take for granted of their surroundings: one process per audit file; a
write that returned is not lost (the code does not call `Sync`); the file system does
not change between canonicalisation and the server's own open; the kernel and Go follow
equally many links; percent-escapes that `url.Parse` keeps in
`RawPath` are kept by `String`, so URLs that differ in redundant escapes have different canonical forms.

## Findings

1. The pending table is keyed by id only, while ids are unique per sender only. A request of
   the server under the id of an outstanding list request takes its entry, as does another
   HTTP client's message with that id, and the list answer passes unfiltered
   (comment at `interceptor.go:303`).
2. A type-confused argument is skipped with its rule when an argument earlier in
   the alphabet does not match (`docs/threat-model.md:48` says it is a denial).
3. A stdin in blocking mode is closed without waking the `Read` in progress, so a crashed
   child leaves `Run` waiting for a silent agent (comments at `proxy.go:113`, which names
   `os.Stdin`, and `:159`).
4. A response body that is no JSON-RPC message is passed on unfiltered
   (`docs/threat-model.md:65` says it is replaced with an error).

Observations without a run of their own:

- Three more parties keep `Run` of the stdio transport waiting, besides the silent agent of
  finding 3 (`HeldUp` and `Stubborn` name them all; the comment at `proxy.go:79` says that `Run` ends
  when the agent closes its input, the child exits or the context is cancelled): a child that
  ignores the end of its stdin, as nothing cancels the context then (`proxy.go:132`); a process the
  child has left behind with its stdout, as `wg.Wait` comes first and no `WaitDelay` is set
  (`proxy.go:165`); and an agent that no longer reads, as no cancellation wakes a
  write (`proxy.go:173`).
- The SSE scanner takes lines of up to 4 MiB "so a single large response does not break the
  stream" (`httpsse/proxy.go:254`), but the decoder behind it stops at 1 MiB (`codec.go:19`): a frame
  between the two ends the stream, and it and what is behind it are lost without an error.
- The entry of a list request whose exchange failed, or whose answer does not parse or is too
  large, stays in the pending table for the life of the process (the comment at
  `interceptor.go:127` says that the table cannot grow without bound). `EntriesReclaimed`
  names these cases and excludes any other.
- An IPv6 literal loses its brackets with its default port (`canon.go:138`), so
  `https://[::1]:443/` and `https://[::1]/` have two canonical forms (the comment at `canon.go:135` says
  that they do not compare as different origins).
- `exists` and `absent` return before any other operator is looked at, and `gt` and `lt`
  before the string operators (`matcher.go:171`), so a matcher that mixes them is wider than the
  conjunction `docs/policy-reference.md:93` promises.
- A callback can answer 200 "approved" for a call that is then denied, because the
  select may choose the timer although the nonce has been claimed
  (`docs/verification.md:136` promises the server's response).
- A halt while a stream is open makes `Run` of the http transport return the deadline's
  error (the comment at `interceptor.go:52` speaks of a clean exit). A POST that also accepts
  an event stream is served as a stream, without its body and without `Inbound`
  (`httpsse/proxy.go:80`).
- A link to a name that is not valid UTF-8 leads `Path` to a result it would refuse if
  it were given back (`canon_test.go:117` tests that it is accepted, without such a link);
  `CanonIdempotent` leaves such names aside.
- `URL` accepts `http://:80/a`, as its host is `:80`, and returns `http:///a`, which it would
  refuse; `host:` keeps its colon and is another origin than `host`. `UrlsAgree` leaves
  authorities without a host aside.
- `handleResourcesRead` looks for `file://` in lower case (`interceptor.go:197`), so
  `FILE:///srv/x` is judged as it stands, although `FileURIPath` accepts the scheme in any case.
- `docs/policy-reference.md:114` documents `regex` as a full match; `matcher.go:269` calls
  `MatchString` on the expression as it is, which also matches a part of the text.
- `applyDefaults` replaces an approval timeout of zero only; a negative one is accepted
  and denies every approval at once.
- `--policy-only` calls a policy valid whose http server cannot be started without
  `--listen`.
- `docs/policy-reference.md:39` documents an `audit.mode` that `KnownFields` rejects.
- `explain` lists rules behind the one that decided as not matching, although it does
  not evaluate them; `validate` repeats `ruleTargets` in code of its own.

## Plan

Done, in this order: gate and broker, interceptor, their proofs, engine and its
proofs, stdio transport, HTTP transport, matchers and globs with their proofs,
recorder, audit log, configuration and session with their proofs, redaction,
canonicalisation, proofs for both transports, globs, redaction and canonicalisation.

Next:

- `validate` and `explain` against the engine: the copies of `ruleTargets` and of the
  loop must agree with `Evaluate`.

## Not modelled

Byte-level framing and JSON decoding; the wording of reasons and notifications;
`CallHash` (no caller); the hash and the timestamps of a log line; Prometheus' own
counters and the latency histogram; the life cycle of the approval and metrics
listeners (both are started and left alone); `validate`, `explain` and `test`, which
print what the engine answers; the policy test files and the mutator, which have no
state beyond `Evaluate`; the fake server, a fixture.
