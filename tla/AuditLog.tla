------------------------------ MODULE AuditLog ------------------------------
(***************************************************************************)
(* The audit log and the metrics: audit.Logger (internal/audit/log.go),     *)
(* Metrics and MultiRecorder (metrics.go).                                  *)
(*                                                                         *)
(* A record is one line of the file.  Logger.mu lets one Record write at a  *)
(* time; os.File.Write may need several system calls, and a system call may *)
(* take a part of the line only, so the line is two halves: its head and    *)
(* its tail, which ends with the newline.  A write can fail before or       *)
(* between the halves (a full disk, a closed file), and the process can end *)
(* at any point.  The file outlives the process and the next process        *)
(* appends to it (O_APPEND).                                                *)
(*                                                                         *)
(* Simplifications: one process per file; what is written is not lost by    *)
(* the machine (the code does not call Sync); Record's json.Marshal, which  *)
(* cannot fail on arguments that came from JSON, would fail as a write that *)
(* writes nothing.  With an empty path the file is the terminal's stderr.   *)
(***************************************************************************)
EXTENDS Naturals, Sequences

CONSTANT Calls       \* the decisions to be recorded

VARIABLES
  measured,          \* --metrics-listen: the recorder is MultiRecorder(logger, metrics)
  file,              \* the halves of lines in the file, in order
  handle,            \* the Logger's writer
  lock,              \* Logger.mu: {its holder}, or {}
  rec,               \* rec[c]: where the Record of call c is
  counts             \* counts[c]: how often mcpguard_decisions_total was incremented for c

vars == <<measured, file, handle, lock, rec, counts>>

Sinks == {"file", "stderr"}

(* begun: hashed, redacted, encoded, and about to lock; writing: holds the  *)
(* lock; halfway: so does it, and half of the line is in the file; written, *)
(* unwritten: Logger.Record returned nil, an error; ok, error: the recorder *)
(* did; lost: the process ended first.                                      *)
Busy == {"begun", "writing", "halfway", "written", "unwritten"}
RecordStates == {"idle", "ok", "error", "lost"} \cup Busy

Head1(c) == <<c, "head">>
Tail1(c) == <<c, "tail">>
Halves == Calls \X {"head", "tail"}

TypeOK ==
  /\ measured \in BOOLEAN
  /\ file \in Seq(Halves)
  /\ handle \in Sinks \cup {"none", "closed"}
  /\ lock \in SUBSET Calls
  /\ rec \in [Calls -> RecordStates]
  /\ counts \in [Calls -> Nat]

Init ==
  /\ measured \in BOOLEAN
  /\ file = << >>
  /\ handle = "none"
  /\ lock = {}
  /\ rec = [c \in Calls |-> "idle"]
  /\ counts = [c \in Calls |-> 0]

-----------------------------------------------------------------------------
(* Open: an empty path is stderr; Close leaves stderr alone. *)
Open(sink) ==
  /\ handle = "none"
  /\ handle' = sink
  /\ UNCHANGED <<measured, file, lock, rec, counts>>

Close ==
  /\ handle \in Sinks
  /\ handle' = IF handle = "file" THEN "closed" ELSE handle
  /\ UNCHANGED <<measured, file, lock, rec, counts>>

Goto(c, from, to) == rec[c] \in from /\ rec' = [rec EXCEPT ![c] = to]

(* Record is called: it hashes, redacts and encodes before it locks. *)
Begin(c) ==
  /\ handle # "none"
  /\ Goto(c, {"idle"}, "begun")
  /\ UNCHANGED <<measured, file, handle, lock, counts>>

\* Faulty variant of Acquire: the lock is not taken.
AcquireNothing(c) ==
  /\ Goto(c, {"begun"}, "writing")
  /\ handle # "closed"
  /\ UNCHANGED <<measured, file, handle, lock, counts>>

(* l.mu.Lock, and os.File.Write is entered: on a closed file it does not    *)
(* begin (see WriteFails); one that has begun is not stopped by Close.      *)
Acquire(c) ==
  /\ lock = {} /\ handle # "closed"
  /\ lock' = {c}
  /\ Goto(c, {"begun"}, "writing")
  /\ UNCHANGED <<measured, file, handle, counts>>

WriteHead(c) ==
  /\ Goto(c, {"writing"}, "halfway")
  /\ file' = Append(file, Head1(c))
  /\ UNCHANGED <<measured, handle, lock, counts>>

\* Faulty variant of WriteTail: a short write is taken for a write.
WriteTailNever(c) ==
  /\ Goto(c, {"halfway"}, "written")
  /\ lock' = {}
  /\ UNCHANGED <<measured, file, handle, counts>>

(* The rest of the line, and the deferred l.mu.Unlock. *)
WriteTail(c) ==
  /\ Goto(c, {"halfway"}, "written")
  /\ file' = Append(file, Tail1(c))
  /\ lock' = {}
  /\ UNCHANGED <<measured, handle, counts>>

\* Faulty variant of WriteFails: the lock is kept on the error path.
WriteFailsLocked(c) ==
  /\ \/ rec[c] \in {"writing", "halfway"}
     \/ rec[c] = "begun" /\ lock = {} /\ handle = "closed"
  /\ Goto(c, Busy, "unwritten")
  /\ UNCHANGED <<measured, file, handle, lock, counts>>

(* os.File.Write returns an error: nothing or the head has been written.    *)
WriteFails(c) ==
  /\ \/ rec[c] \in {"writing", "halfway"}
     \/ rec[c] = "begun" /\ lock = {} /\ handle = "closed"
  /\ Goto(c, Busy, "unwritten")
  /\ lock' = {}
  /\ UNCHANGED <<measured, file, handle, counts>>

\* Faulty variant of Return: the last recorder's answer counts.
ReturnLastError(c) ==
  /\ Goto(c, {"written", "unwritten"},
          IF rec[c] = "written" \/ measured THEN "ok" ELSE "error")
  /\ counts' = IF measured THEN [counts EXCEPT ![c] = @ + 1] ELSE counts
  /\ UNCHANGED <<measured, file, handle, lock>>

(* The recorder returns.  With metrics it is MultiRecorder, which calls     *)
(* Metrics.Record whatever the log answered, and returns the first error;   *)
(* Metrics.Record has none.                                                 *)
Return(c) ==
  /\ Goto(c, {"written", "unwritten"}, IF rec[c] = "written" THEN "ok" ELSE "error")
  /\ counts' = IF measured THEN [counts EXCEPT ![c] = @ + 1] ELSE counts
  /\ UNCHANGED <<measured, file, handle, lock>>

(* The process ends, wherever its goroutines are: it is killed, or main     *)
(* calls os.Exit.  The file is what remains.  The counters of a process go  *)
(* with it; those of its calls are kept here for what is said of them.      *)
ProcessEnds ==
  /\ handle # "none"
  /\ handle' = "none"
  /\ lock' = {}
  /\ rec' = [c \in Calls |-> IF rec[c] \in Busy THEN "lost" ELSE rec[c]]
  /\ UNCHANGED <<measured, file, counts>>

Step(c) == Acquire(c) \/ WriteHead(c) \/ WriteTail(c) \/ WriteFails(c) \/ Return(c)

Next ==
  \/ \E sink \in Sinks : Open(sink)
  \/ Close
  \/ \E c \in Calls : Begin(c) \/ Step(c)
  \/ ProcessEnds

Spec == Init /\ [][Next]_vars

-----------------------------------------------------------------------------
LineAt(c, i) == file[i] = Head1(c) /\ file[i + 1] = Tail1(c)

(* The calls whose whole record is in the file. *)
Recorded == {c \in Calls : \E i \in 1 .. Len(file) - 1 : LineAt(c, i)}

(* What the interceptor sees of call c. *)
StatusOf ==
  [c \in Calls |->
     IF rec[c] \in Busy THEN "busy" ELSE IF rec[c] = "error" THEN "failed" ELSE rec[c]]

Promise == INSTANCE RecordLog WITH recorded <- Recorded, status <- StatusOf

(* Record keeps the promise of RecordLog, with any number of calls at once, *)
(* writes that fail half-way, a log closed under calls in progress, and     *)
(* processes that end and are started again on the same file.               *)
RecorderImplemented == Promise!Spec

(* Log readers take the file line by line, and a torn record (the head of a *)
(* line, without its end) makes the record after it unreadable.  That is    *)
(* all that is lost: a record that was written whole begins a line of its   *)
(* own unless the half-line right before it is of a call whose write failed *)
(* or whose process ended; so a failure spoils at most one good record.     *)
DamageIsLocal ==
  \A i \in 1 .. Len(file) - 1 : \A c \in Calls :
    LineAt(c, i) /\ i > 1 =>
      \/ \E d \in Calls : file[i - 1] = Tail1(d)
      \/ \E d \in Calls :
           file[i - 1] = Head1(d) /\ rec[d] \in {"unwritten", "error", "lost"}

(* MultiRecorder: "a full disk stops the audit log without also stopping    *)
(* metrics".  Every decision whose Record returned is counted exactly once, *)
(* and none is counted twice or while its outcome is open.                  *)
MetricsCountEveryDecision ==
  \A c \in Calls :
    counts[c] = IF measured /\ rec[c] \in {"ok", "error"} THEN 1 ELSE 0
=============================================================================
