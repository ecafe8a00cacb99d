---------------------------- MODULE SessionProofs ----------------------------
(***************************************************************************)
(* Theorems about Session, for any number of calls and starts and for all   *)
(* policy files.                                                            *)
(*                                                                         *)
(* Every step of a session is a step of its audit log or none, so what is   *)
(* said of the log first, in terms of AuditLog alone, holds in every        *)
(* session.  To carry a record's fate to the call, SessionInv adds that     *)
(* what a session runs with is what the command line says, every time it is *)
(* started.                                                                 *)
(***************************************************************************)
EXTENDS Session, FiniteSetTheorems, SequenceTheorems, WellFoundedInduction, TLAPS

-----------------------------------------------------------------------------
(* The log, for any number of calls, processes and write errors.            *)
(*                                                                         *)
(* None of its properties speaks of the mutex, and all of them rest on it:  *)
(* it makes the call that is halfway the last that touched the file, so the *)
(* tail a call appends completes its own head.  LogInv says who holds the   *)
(* lock, what the file ends with meanwhile, what became of every head, and  *)
(* which calls are recorded at which point of Record.                       *)

(* The lock is held by whoever writes, and by nobody else. *)
LockHeld ==
  /\ \A c \in Calls : c \in lock <=> rec[c] \in {"writing", "halfway"}
  /\ \A c, d \in lock : c = d

(* What was written last is what the call that is halfway wrote. *)
HalfwayIsLast ==
  \A c \in Calls :
    rec[c] = "halfway" => Len(file) > 0 /\ file[Len(file)] = Audit!Head1(c)

(* A head has its tail, or its call knows, or it is being written. *)
HeadsFollowed ==
  \A i \in 1 .. Len(file) : \A c \in Calls :
    file[i] = Audit!Head1(c) =>
      \/ i < Len(file) /\ file[i + 1] = Audit!Tail1(c)
      \/ rec[c] \in {"unwritten", "error", "lost"}
      \/ i = Len(file) /\ rec[c] = "halfway"

(* Whether a call is recorded is decided by where its Record is, unless the *)
(* process ended in the middle of it.                                       *)
RecordedFits ==
  \A c \in Calls :
    /\ rec[c] \in {"written", "ok"} => c \in Audit!Recorded
    /\ rec[c] \notin {"written", "ok", "lost"} => c \notin Audit!Recorded

LogInv ==
  /\ Audit!TypeOK
  /\ LockHeld
  /\ HalfwayIsLast
  /\ HeadsFollowed
  /\ RecordedFits
  /\ Audit!MetricsCountEveryDecision

-----------------------------------------------------------------------------
(* Appending to the file leaves what was there. *)
LEMMA Appended ==
  ASSUME Audit!TypeOK, NEW x \in Audit!Halves, file' = Append(file, x)
  PROVE  /\ file' \in Seq(Audit!Halves)
         /\ Len(file) \in Nat
         /\ Len(file') = Len(file) + 1
         /\ file'[Len(file) + 1] = x
         /\ \A i \in 1 .. Len(file) : file'[i] = file[i]
BY DEF Audit!TypeOK

(* The head of a line completes no record. *)
LEMMA HeadCompletesNothing ==
  ASSUME Audit!TypeOK, NEW c \in Calls, file' = Append(file, Audit!Head1(c))
  PROVE  Audit!Recorded' = Audit!Recorded
<1>1. Audit!Head1(c) \in Audit!Halves /\ \A d \in Calls : Audit!Head1(c) # Audit!Tail1(d)
  BY DEF Audit!Halves, Audit!Head1, Audit!Tail1
<1>2. \A d \in Calls, i \in 1 .. Len(file') - 1 :
        Audit!LineAt(d, i)' => i \in 1 .. Len(file) - 1 /\ Audit!LineAt(d, i)
  BY <1>1, Appended DEF Audit!LineAt, Audit!Head1, Audit!Tail1
<1>3. \A d \in Calls, i \in 1 .. Len(file) - 1 :
        Audit!LineAt(d, i) => i \in 1 .. Len(file') - 1 /\ Audit!LineAt(d, i)'
  BY <1>1, Appended DEF Audit!LineAt, Audit!Head1, Audit!Tail1
<1> QED BY <1>2, <1>3 DEF Audit!Recorded

(* The tail of a line completes the record whose head is right before it.   *)
LEMMA TailCompletesOne ==
  ASSUME Audit!TypeOK, NEW c \in Calls, file' = Append(file, Audit!Tail1(c)),
         Len(file) > 0, file[Len(file)] = Audit!Head1(c)
  PROVE  Audit!Recorded' = Audit!Recorded \cup {c}
<1>1. Audit!Tail1(c) \in Audit!Halves /\ \A d \in Calls : Audit!Tail1(d) = Audit!Tail1(c) => d = c
  BY DEF Audit!Halves, Audit!Tail1
<1>2. \E i \in 1 .. Len(file') - 1 : Audit!LineAt(c, i)'
  <2>1. \E i \in 1 .. Len(file') - 1 : file'[i] = Audit!Head1(c) /\ file'[i + 1] = Audit!Tail1(c)
    <3>1. /\ Len(file) \in 1 .. Len(file') - 1
          /\ file'[Len(file)] = Audit!Head1(c) /\ file'[Len(file) + 1] = Audit!Tail1(c)
      BY <1>1, Appended
    <3> QED BY <3>1
  <2> QED BY <2>1 DEF Audit!LineAt, Audit!Head1, Audit!Tail1
<1>3. \A d \in Calls, i \in 1 .. Len(file') - 1 :
        Audit!LineAt(d, i)' => d = c \/ (i \in 1 .. Len(file) - 1 /\ Audit!LineAt(d, i))
  BY <1>1, Appended DEF Audit!LineAt, Audit!Head1, Audit!Tail1
<1>4. \A d \in Calls, i \in 1 .. Len(file) - 1 :
        Audit!LineAt(d, i) => i \in 1 .. Len(file') - 1 /\ Audit!LineAt(d, i)'
  BY <1>1, Appended DEF Audit!LineAt, Audit!Head1, Audit!Tail1
<1> QED BY <1>2, <1>3, <1>4 DEF Audit!Recorded

(* A call that is halfway holds the lock alone: nobody else writes. *)
LEMMA OneWriter ==
  ASSUME LockHeld, NEW c \in Calls, NEW d \in Calls,
         rec[c] \in {"writing", "halfway"}, rec[d] \in {"writing", "halfway"}
  PROVE  c = d
BY DEF LockHeld

-----------------------------------------------------------------------------
(* The initial state satisfies the invariant. *)
LEMMA LogInitInv == Audit!Init => LogInv
BY DEF Audit!Init, LogInv, Audit!TypeOK, LockHeld, HalfwayIsLast, HeadsFollowed, RecordedFits,
       Audit!Recorded, Audit!MetricsCountEveryDecision, Audit!RecordStates, Audit!Busy

(* Steps that leave the file alone need only say what they do to rec. *)
LEMMA FileUntouched ==
  ASSUME file' = file
  PROVE  Audit!Recorded' = Audit!Recorded
BY DEF Audit!Recorded, Audit!LineAt

LEMMA WriteHeadKeeps ==
  ASSUME LogInv, NEW c \in Calls, Audit!WriteHead(c)
  PROVE  LogInv'
<1> USE DEF LogInv
<1>1. /\ rec[c] = "writing" /\ rec' = [rec EXCEPT ![c] = "halfway"]
      /\ file' = Append(file, Audit!Head1(c))
      /\ UNCHANGED <<measured, handle, lock, counts>>
  BY DEF Audit!WriteHead, Audit!Goto
<1>2. Audit!Head1(c) \in Audit!Halves
  BY DEF Audit!Halves, Audit!Head1
<1>3. Audit!TypeOK'
  BY <1>1, <1>2, Appended DEF Audit!TypeOK, Audit!RecordStates, Audit!Busy
<1>4. LockHeld'
  BY <1>1 DEF LockHeld, Audit!TypeOK
<1>5. HalfwayIsLast'
  <2>1. \A d \in Calls : rec'[d] = "halfway" => d = c
    BY <1>1, OneWriter DEF Audit!TypeOK
  <2> QED BY <1>1, <1>2, <2>1, Appended DEF HalfwayIsLast
<1>6. HeadsFollowed'
  <2>1. \A d \in Calls : rec[d] # "halfway"
    BY <1>1, OneWriter
  <2> SUFFICES ASSUME NEW i \in 1 .. Len(file'), NEW d \in Calls, file'[i] = Audit!Head1(d)
               PROVE  \/ i < Len(file') /\ file'[i + 1] = Audit!Tail1(d)
                      \/ rec'[d] \in {"unwritten", "error", "lost"}
                      \/ i = Len(file') /\ rec'[d] = "halfway"
    BY DEF HeadsFollowed, Audit!Head1, Audit!Tail1
  <2>2. CASE i = Len(file) + 1
    <3>1. d = c
      BY <2>2, <1>1, <1>2, Appended DEF Audit!Head1
    <3> QED BY <2>2, <3>1, <1>1, <1>2, Appended DEF Audit!TypeOK
  <2>3. CASE i \in 1 .. Len(file)
    <3>1. file[i] = Audit!Head1(d)
      BY <2>3, <1>1, <1>2, Appended
    <3>2. \/ i < Len(file) /\ file[i + 1] = Audit!Tail1(d)
          \/ rec[d] \in {"unwritten", "error", "lost"}
      BY <2>1, <2>3, <3>1 DEF HeadsFollowed
    <3>3. CASE i < Len(file) /\ file[i + 1] = Audit!Tail1(d)
      BY <2>3, <3>3, <1>1, <1>2, Appended
    <3>4. CASE rec[d] \in {"unwritten", "error", "lost"}
      BY <3>4, <1>1 DEF Audit!TypeOK
    <3> QED BY <3>2, <3>3, <3>4
  <2> QED BY <2>2, <2>3, <1>1, <1>2, Appended
<1>7. RecordedFits'
  BY <1>1, HeadCompletesNothing DEF RecordedFits, Audit!TypeOK
<1>8. Audit!MetricsCountEveryDecision'
  BY <1>1 DEF Audit!MetricsCountEveryDecision, Audit!TypeOK
<1> QED BY <1>3, <1>4, <1>5, <1>6, <1>7, <1>8

LEMMA WriteTailKeeps ==
  ASSUME LogInv, NEW c \in Calls, Audit!WriteTail(c)
  PROVE  LogInv'
<1> USE DEF LogInv
<1>1. /\ rec[c] = "halfway" /\ rec' = [rec EXCEPT ![c] = "written"]
      /\ file' = Append(file, Audit!Tail1(c))
      /\ lock' = {}
      /\ UNCHANGED <<measured, handle, counts>>
  BY DEF Audit!WriteTail, Audit!Goto
<1>2. Audit!Tail1(c) \in Audit!Halves /\ \A d \in Calls : Audit!Tail1(c) # Audit!Head1(d)
  BY DEF Audit!Halves, Audit!Tail1, Audit!Head1
<1>3. Len(file) > 0 /\ file[Len(file)] = Audit!Head1(c)
  BY <1>1 DEF HalfwayIsLast
<1>4. \A d \in Calls : rec'[d] \notin {"writing", "halfway"}
  BY <1>1, OneWriter DEF Audit!TypeOK
<1>5. Audit!TypeOK'
  BY <1>1, <1>2, Appended DEF Audit!TypeOK, Audit!RecordStates, Audit!Busy
<1>6. LockHeld' /\ HalfwayIsLast'
  BY <1>1, <1>4 DEF LockHeld, HalfwayIsLast
<1>7. HeadsFollowed'
  <2> SUFFICES ASSUME NEW i \in 1 .. Len(file'), NEW d \in Calls, file'[i] = Audit!Head1(d)
               PROVE  \/ i < Len(file') /\ file'[i + 1] = Audit!Tail1(d)
                      \/ rec'[d] \in {"unwritten", "error", "lost"}
    BY DEF HeadsFollowed, Audit!Head1, Audit!Tail1
  <2>1. i \in 1 .. Len(file) /\ file[i] = Audit!Head1(d)
    BY <1>1, <1>2, Appended
  <2>2. CASE i = Len(file)
    <3>1. d = c
      BY <2>1, <2>2, <1>3 DEF Audit!Head1
    <3> QED BY <2>2, <3>1, <1>1, <1>2, Appended
  <2>3. CASE i < Len(file) /\ file[i + 1] = Audit!Tail1(d)
    BY <2>1, <2>3, <1>1, <1>2, Appended
  <2>4. CASE rec[d] \in {"unwritten", "error", "lost"}
    BY <2>4, <1>1 DEF Audit!TypeOK
  <2> QED BY <2>1, <2>2, <2>3, <2>4 DEF HeadsFollowed
<1>8. RecordedFits'
  BY <1>1, <1>3, TailCompletesOne DEF RecordedFits, Audit!TypeOK
<1>9. Audit!MetricsCountEveryDecision'
  BY <1>1 DEF Audit!MetricsCountEveryDecision, Audit!TypeOK
<1> QED BY <1>5, <1>6, <1>7, <1>8, <1>9

(* The steps that do not touch the file. *)
LEMMA OtherStepKeeps ==
  ASSUME LogInv,
         \/ (\E sink \in Audit!Sinks : Audit!Open(sink)) \/ Audit!Close \/ Audit!ProcessEnds
         \/ \E c \in Calls :
              Audit!Begin(c) \/ Audit!Acquire(c) \/ Audit!WriteFails(c) \/ Audit!Return(c)
  PROVE  LogInv'
<1> USE DEF LogInv, Audit!TypeOK, Audit!RecordStates, Audit!Busy, Audit!Sinks
<1>1. CASE (\E sink \in Audit!Sinks : Audit!Open(sink)) \/ Audit!Close
  <2>1. Audit!Recorded' = Audit!Recorded /\ UNCHANGED <<measured, file, lock, rec, counts>>
    BY <1>1, FileUntouched DEF Audit!Open, Audit!Close
  <2>2. Audit!TypeOK'
    BY <1>1 DEF Audit!Open, Audit!Close
  <2> QED BY <2>1, <2>2 DEF LockHeld, HalfwayIsLast, HeadsFollowed, RecordedFits,
             Audit!MetricsCountEveryDecision, Audit!Head1, Audit!Tail1
<1>2. CASE Audit!ProcessEnds
  BY <1>2, FileUntouched DEF Audit!ProcessEnds, LockHeld, HalfwayIsLast, HeadsFollowed,
     RecordedFits, Audit!MetricsCountEveryDecision, Audit!Head1, Audit!Tail1
<1>3. ASSUME NEW c \in Calls, Audit!Begin(c)
      PROVE  LogInv'
  BY <1>3, FileUntouched DEF Audit!Begin, Audit!Goto, LockHeld, HalfwayIsLast, HeadsFollowed,
     RecordedFits, Audit!MetricsCountEveryDecision, Audit!Head1, Audit!Tail1
<1>4. ASSUME NEW c \in Calls, Audit!Acquire(c)
      PROVE  LogInv'
  BY <1>4, FileUntouched DEF Audit!Acquire, Audit!Goto, LockHeld, HalfwayIsLast, HeadsFollowed,
     RecordedFits, Audit!MetricsCountEveryDecision, Audit!Head1, Audit!Tail1
<1>5. ASSUME NEW c \in Calls, Audit!WriteFails(c)
      PROVE  LogInv'
  BY <1>5, FileUntouched DEF Audit!WriteFails, Audit!Goto, LockHeld, HalfwayIsLast, HeadsFollowed,
     RecordedFits, Audit!MetricsCountEveryDecision, Audit!Head1, Audit!Tail1
<1>6. ASSUME NEW c \in Calls, Audit!Return(c)
      PROVE  LogInv'
  BY <1>6, FileUntouched DEF Audit!Return, Audit!Goto, LockHeld, HalfwayIsLast, HeadsFollowed,
     RecordedFits, Audit!MetricsCountEveryDecision, Audit!Head1, Audit!Tail1
<1> QED BY <1>1, <1>2, <1>3, <1>4, <1>5, <1>6

(* Every step preserves the invariant. *)
LEMMA LogNextInv == LogInv /\ [Audit!Next]_Audit!vars => LogInv'
<1> SUFFICES ASSUME LogInv, [Audit!Next]_Audit!vars
             PROVE  LogInv'
  OBVIOUS
<1>1. CASE UNCHANGED Audit!vars
  BY <1>1 DEF Audit!vars, LogInv, Audit!TypeOK, LockHeld, HalfwayIsLast, HeadsFollowed,
     RecordedFits, Audit!Recorded, Audit!LineAt, Audit!MetricsCountEveryDecision
<1>2. CASE Audit!Next
  BY <1>2, WriteHeadKeeps, WriteTailKeeps, OtherStepKeeps DEF Audit!Next, Audit!Step
<1> QED BY <1>1, <1>2

LEMMA LogInvariance == Audit!Spec => []LogInv
BY LogInitInv, LogNextInv, PTL DEF Audit!Spec

-----------------------------------------------------------------------------
(* Type correctness of the recorder, the file and the counters. *)
THEOREM LogTypeCorrect == Audit!Spec => []Audit!TypeOK
BY LogInvariance, PTL DEF LogInv

(* A torn record spoils no more than the record after it. *)
THEOREM LogDamageStaysLocal == Audit!Spec => []Audit!DamageIsLocal
<1>1. LogInv => Audit!DamageIsLocal
  <2> SUFFICES ASSUME LogInv, NEW i \in 1 .. Len(file) - 1, NEW c \in Calls,
                      Audit!LineAt(c, i), i > 1
               PROVE  \/ \E d \in Calls : file[i - 1] = Audit!Tail1(d)
                      \/ \E d \in Calls :
                           /\ file[i - 1] = Audit!Head1(d)
                           /\ rec[d] \in {"unwritten", "error", "lost"}
    BY DEF Audit!DamageIsLocal, Audit!Head1, Audit!Tail1
  <2>1. i - 1 \in 1 .. Len(file) /\ i - 1 < Len(file)
    BY DEF LogInv, Audit!TypeOK
  <2>2. PICK d \in Calls : file[i - 1] = Audit!Head1(d) \/ file[i - 1] = Audit!Tail1(d)
    <3>1. file[i - 1] \in Audit!Halves
      BY <2>1 DEF LogInv, Audit!TypeOK
    <3> QED BY <3>1 DEF Audit!Halves, Audit!Head1, Audit!Tail1
  <2>3. CASE file[i - 1] = Audit!Head1(d)
    <3>1. file[i] # Audit!Tail1(d)
      BY DEF Audit!LineAt, Audit!Head1, Audit!Tail1
    <3>2. (i - 1) + 1 = i
      BY <2>1
    <3> QED BY <2>1, <2>3, <3>1, <3>2 DEF LogInv, HeadsFollowed
  <2> QED BY <2>2, <2>3
<1> QED BY <1>1, LogInvariance, PTL

(* Every decision whose Record returned is counted once, no other at all. *)
THEOREM LogCountsEveryDecision == Audit!Spec => []Audit!MetricsCountEveryDecision
BY LogInvariance, PTL DEF LogInv

-----------------------------------------------------------------------------
(* A step of one call's Record is a step of the promise, or invisible in it. *)
LEMMA RecordStepRefines ==
  ASSUME LogInv, NEW c \in Calls, Audit!Begin(c) \/ Audit!Step(c)
  PROVE  Audit!Promise!Next \/ UNCHANGED Audit!Promise!vars
<1> USE DEF LogInv, Audit!TypeOK
<1>1. CASE Audit!Begin(c)
  <2>1. Audit!Recorded' = Audit!Recorded
    BY <1>1, FileUntouched DEF Audit!Begin
  <2>2. Audit!StatusOf[c] = "idle" /\ Audit!StatusOf' = [Audit!StatusOf EXCEPT ![c] = "busy"]
    BY <1>1 DEF Audit!Begin, Audit!Goto, Audit!StatusOf, Audit!Busy
  <2> QED BY <2>1, <2>2 DEF Audit!Promise!Next, Audit!Promise!Begin, Audit!Promise!Move
<1>2. CASE Audit!Acquire(c) \/ Audit!WriteFails(c)
  <2>1. Audit!Recorded' = Audit!Recorded
    BY <1>2, FileUntouched DEF Audit!Acquire, Audit!WriteFails
  <2>2. Audit!StatusOf' = Audit!StatusOf
    BY <1>2 DEF Audit!Acquire, Audit!WriteFails, Audit!Goto, Audit!StatusOf, Audit!Busy
  <2> QED BY <2>1, <2>2 DEF Audit!Promise!vars
<1>3. CASE Audit!WriteHead(c)
  <2>1. Audit!Recorded' = Audit!Recorded
    BY <1>3, HeadCompletesNothing DEF Audit!WriteHead
  <2>2. Audit!StatusOf' = Audit!StatusOf
    BY <1>3 DEF Audit!WriteHead, Audit!Goto, Audit!StatusOf, Audit!Busy
  <2> QED BY <2>1, <2>2 DEF Audit!Promise!vars
<1>4. CASE Audit!WriteTail(c)
  <2>1. Audit!Recorded' = Audit!Recorded \cup {c}
    BY <1>4, TailCompletesOne DEF Audit!WriteTail, Audit!Goto, HalfwayIsLast
  <2>2. Audit!StatusOf' = Audit!StatusOf /\ Audit!StatusOf[c] = "busy"
    BY <1>4 DEF Audit!WriteTail, Audit!Goto, Audit!StatusOf, Audit!Busy
  <2> QED BY <2>1, <2>2 DEF Audit!Promise!Next, Audit!Promise!Commit
<1>5. CASE Audit!Return(c)
  <2>1. Audit!Recorded' = Audit!Recorded
    BY <1>5, FileUntouched DEF Audit!Return
  <2>2. CASE rec[c] = "written"
    <3>1. c \in Audit!Recorded
      BY <2>2 DEF RecordedFits
    <3>2. Audit!StatusOf[c] = "busy" /\ Audit!StatusOf' = [Audit!StatusOf EXCEPT ![c] = "ok"]
      BY <1>5, <2>2 DEF Audit!Return, Audit!Goto, Audit!StatusOf, Audit!Busy
    <3> QED BY <2>1, <3>1, <3>2 DEF Audit!Promise!Next, Audit!Promise!Succeed, Audit!Promise!Move
  <2>3. CASE rec[c] = "unwritten"
    <3>1. c \notin Audit!Recorded
      BY <2>3 DEF RecordedFits
    <3>2. Audit!StatusOf[c] = "busy" /\ Audit!StatusOf' = [Audit!StatusOf EXCEPT ![c] = "failed"]
      BY <1>5, <2>3 DEF Audit!Return, Audit!Goto, Audit!StatusOf, Audit!Busy
    <3> QED BY <2>1, <3>1, <3>2 DEF Audit!Promise!Next, Audit!Promise!Fail, Audit!Promise!Move
  <2> QED BY <1>5, <2>2, <2>3 DEF Audit!Return, Audit!Goto
<1> QED BY <1>1, <1>2, <1>3, <1>4, <1>5 DEF Audit!Step

(* Every behaviour of log and metrics is one of the recorder's promise: yes *)
(* means the record is in the file, no means that it is not.                *)
THEOREM LogKeepsPromise == Audit!Spec => Audit!RecorderImplemented
<1>1. Audit!Init => Audit!Promise!Init
  BY DEF Audit!Init, Audit!Promise!Init, Audit!Recorded, Audit!StatusOf, Audit!Busy
<1>2. LogInv /\ [Audit!Next]_Audit!vars => [Audit!Promise!Next]_Audit!Promise!vars
  <2> SUFFICES ASSUME LogInv, [Audit!Next]_Audit!vars
               PROVE  Audit!Promise!Next \/ UNCHANGED Audit!Promise!vars
    OBVIOUS
  <2>1. CASE \E c \in Calls : Audit!Begin(c) \/ Audit!Step(c)
    BY <2>1, RecordStepRefines
  <2>2. CASE (\E sink \in Audit!Sinks : Audit!Open(sink)) \/ Audit!Close \/ UNCHANGED Audit!vars
    <3>1. Audit!Recorded' = Audit!Recorded
      BY <2>2, FileUntouched DEF Audit!Open, Audit!Close, Audit!vars
    <3>2. Audit!StatusOf' = Audit!StatusOf
      BY <2>2 DEF Audit!Open, Audit!Close, Audit!vars, Audit!StatusOf
    <3> QED BY <3>1, <3>2 DEF Audit!Promise!vars
  <2>3. CASE Audit!ProcessEnds
    <3>1. Audit!Recorded' = Audit!Recorded
      BY <2>3, FileUntouched DEF Audit!ProcessEnds
    <3>2. Audit!StatusOf' =
            [c \in Calls |-> IF Audit!StatusOf[c] = "busy" THEN "lost" ELSE Audit!StatusOf[c]]
      BY <2>3 DEF Audit!ProcessEnds, Audit!StatusOf, Audit!Busy, LogInv, Audit!TypeOK,
         Audit!RecordStates
    <3> QED BY <3>1, <3>2 DEF Audit!Promise!Next, Audit!Promise!Die
  <2> QED BY <2>1, <2>2, <2>3 DEF Audit!Next
<1> QED
  BY <1>1, <1>2, LogInvariance, PTL DEF Audit!Spec, Audit!Promise!Spec,
     Audit!RecorderImplemented

-----------------------------------------------------------------------------
(* Sessions. *)

(* Whoever was let through was recorded, or need not have been. *)
OutcomesFit ==
  \A c \in Calls :
    outcome[c] = "forwarded" => rec[c] = "ok" \/ cfg.onError = "continue"

SessionInv ==
  /\ command \in Commands
  /\ outcome \in [Calls -> Outcomes]
  /\ phase \in Phases
  /\ phase # "off" \/ (\E c \in Calls : outcome[c] = "forwarded")
       => cfg = Effective(command)
  /\ OutcomesFit

-----------------------------------------------------------------------------
(* A session begins with an empty log and each step is one of the log's.    *)
LEMMA StepIsLogStep ==
  ASSUME [Next]_vars
  PROVE  [Audit!Next]_Audit!vars
<1>1. CASE Start
  <2>1. \E sink \in Audit!Sinks : Audit!Open(sink)
    BY <1>1 DEF Start, Audit!Sinks
  <2> QED BY <2>1 DEF Audit!Next
<1>2. ASSUME NEW c \in Calls, Judge(c)
      PROVE  Audit!Next
  BY <1>2 DEF Judge, Audit!Next
<1>3. ASSUME NEW c \in Calls, Record(c)
      PROVE  Audit!Next
  BY <1>3 DEF Record, Audit!Next
<1>4. CASE CloseLog
  BY <1>4 DEF CloseLog, Audit!Close, Audit!Next
<1>5. CASE ProcessEnds
  BY <1>5 DEF ProcessEnds, Audit!Next
<1>6. CASE \/ StartFails \/ TransportReturns \/ UNCHANGED vars
           \/ \E c \in Calls, d \in {"allow", "deny"} : Finish(c, d)
  BY <1>6 DEF StartFails, TransportReturns, Finish, vars, auditVars, Audit!vars
<1> QED BY <1>1, <1>2, <1>3, <1>4, <1>5, <1>6 DEF Next

(* A session is a behaviour of the audit log. *)
LEMMA UsesLog == Spec => Audit!Spec
<1>1. Init => Audit!Init
  BY DEF Init, Audit!Init
<1> QED BY <1>1, StepIsLogStep, PTL DEF Spec, Audit!Spec

-----------------------------------------------------------------------------
(* A record that succeeded stays a success. *)
LEMMA OkStays ==
  ASSUME LogInv, [Next]_vars, NEW c \in Calls, rec[c] = "ok"
  PROVE  rec'[c] = "ok"
<1>1. [Audit!Next]_Audit!vars
  BY StepIsLogStep
<1> QED BY <1>1 DEF LogInv, Audit!TypeOK, Audit!Next, Audit!vars, Audit!Step, Audit!Open,
        Audit!Close, Audit!Begin, Audit!Acquire, Audit!WriteHead, Audit!WriteTail,
        Audit!WriteFails, Audit!Return, Audit!ProcessEnds, Audit!Goto, Audit!Busy

LEMMA NextSessionInv == LogInv /\ SessionInv /\ [Next]_vars => SessionInv'
<1> SUFFICES ASSUME LogInv, SessionInv, [Next]_vars
             PROVE  SessionInv'
  OBVIOUS
<1> USE DEF SessionInv, OutcomesFit, Phases, Outcomes
<1>1. CASE Start
  BY <1>1, OkStays DEF Start, Starting
<1>2. CASE StartFails \/ UNCHANGED vars
  BY <1>2, OkStays DEF StartFails, vars
<1>3. ASSUME NEW c \in Calls, Judge(c) \/ Record(c)
      PROVE  SessionInv'
  BY <1>3, OkStays DEF Judge, Record
<1>4. ASSUME NEW c \in Calls, NEW d \in {"allow", "deny"}, Finish(c, d)
      PROVE  SessionInv'
  BY <1>4, OkStays DEF Finish, GetsThrough, auditVars
<1>5. CASE TransportReturns \/ CloseLog
  BY <1>5, OkStays DEF TransportReturns, CloseLog
<1>6. CASE ProcessEnds
  BY <1>6, OkStays DEF ProcessEnds
<1> QED BY <1>1, <1>2, <1>3, <1>4, <1>5, <1>6 DEF Next

LEMMA Invariance == Spec => [](LogInv /\ SessionInv)
<1>1. Init => SessionInv
  BY DEF Init, SessionInv, OutcomesFit, Phases, Outcomes
<1>2. Spec => []LogInv
  BY UsesLog, LogInvariance, PTL
<1> QED BY <1>1, <1>2, NextSessionInv, PTL DEF Spec

(* Unless on_error is continue, a call that got through is in the log, for  *)
(* ever and over every restart.                                             *)
THEOREM NothingUnrecordedForwarded == Spec => []ForwardedIsRecorded
<1>1. LogInv /\ SessionInv => ForwardedIsRecorded
  BY DEF ForwardedIsRecorded, SessionInv, OutcomesFit, LogInv, RecordedFits,
     Audit!Recorded
<1> QED BY <1>1, Invariance, PTL

(* What is true of the log, in every session.  Recorder and log keep        *)
(* RecordLog's promise over every restart.                                  *)
THEOREM SessionKeepsPromise == Spec => RecorderImplemented
BY UsesLog, LogKeepsPromise DEF RecorderImplemented

(* A torn record spoils no more than the record after it, over restarts. *)
THEOREM SessionDamageStaysLocal == Spec => []DamageIsLocal
BY UsesLog, LogDamageStaysLocal, PTL DEF DamageIsLocal

(* Every recorded or unrecordable decision is counted once. *)
THEOREM SessionCountsEveryDecision == Spec => []MetricsCountEveryDecision
BY UsesLog, LogCountsEveryDecision, PTL DEF MetricsCountEveryDecision

-----------------------------------------------------------------------------
(* Every field of the policy file counts, or its default does. *)
LEMMA Loaded ==
  ASSUME NEW raw, IsConfig(raw)
  PROVE  /\ Load(raw).mode = Otherwise(raw.mode, "enforce")
         /\ Load(raw).action = Otherwise(raw.action, "deny")
         /\ Load(raw).additional = Otherwise(raw.additional, "deny")
         /\ Load(raw).onError = Otherwise(raw.onError, "deny")
         /\ Load(raw).onTimeout = Otherwise(raw.onTimeout, "deny")
         /\ Load(raw).timeout = IF raw.timeout = 0 THEN 120 ELSE raw.timeout
         /\ Load(raw).channel = raw.channel
         /\ Load(raw).servers = raw.servers
         /\ Load(raw).rules = [i \in DOMAIN raw.rules |-> CompileRule(raw.rules[i])]
<1> DEFINE filled == ApplyDefaults(raw)
<1>1. /\ filled.mode = Otherwise(raw.mode, "enforce")
      /\ filled.action = Otherwise(raw.action, "deny")
      /\ filled.additional = Otherwise(raw.additional, "deny")
      /\ filled.onError = Otherwise(raw.onError, "deny")
      /\ filled.onTimeout = Otherwise(raw.onTimeout, "deny")
      /\ filled.timeout = IF raw.timeout = 0 THEN 120 ELSE raw.timeout
      /\ filled.channel = raw.channel
      /\ filled.servers = raw.servers
      /\ filled.rules = raw.rules
      /\ {"mode", "action", "additional", "onError", "onTimeout", "timeout", "channel",
          "servers", "rules"} \subseteq DOMAIN filled
  BY DEF IsConfig, ApplyDefaults
<1> HIDE DEF filled
<1>2. Load(raw) = CompileRules(filled)
  BY DEF Load, filled
<1> QED BY <1>1, <1>2 DEF CompileRules

LEMMA Validated ==
  ASSUME NEW raw, IsConfig(raw), Accepts(raw)
  PROVE  /\ Load(raw).mode \in {"enforce", "audit"}
         /\ Load(raw).action \in Actions
         /\ Load(raw).additional \in {"allow", "deny"}
         /\ Load(raw).onError \in {"halt", "deny", "continue"}
         /\ Load(raw).onTimeout \in Actions \ {"allow"}
         /\ ServersValid(raw.servers)
         /\ RulesValid(ApplyDefaults(raw))
BY Loaded DEF IsConfig, Accepts, Valid, ApplyDefaults, Otherwise

(* A configuration as strict as another in each field lets through no more. *)
LEMMA AccessMonotone ==
  ASSUME NEW a, NEW b,
         a.onError = "continue" => b.onError = "continue",
         a.mode = "audit" => b.mode = "audit",
         a.action \in {"allow", "approve"} => b.action = a.action,
         a.additional # "deny" => b.additional = a.additional,
         a.channel = b.channel,
         a.onTimeout # "allow"
  PROVE  Access(a) \subseteq Access(b)
<1> SUFFICES ASSUME NEW s \in Situations, GetsThrough(a, Resolved(a, s), s.answer)
             PROVE  GetsThrough(b, Resolved(b, s), s.answer)
  BY DEF Access
<1>1. ASSUME Resolved(a, s) = "allow"
      PROVE  Resolved(b, s) = "allow"
  BY <1>1 DEF Resolved, ActionIn, Situations, Actions
<1> QED BY <1>1 DEF GetsThrough

(* "An omitted field can never widen access", for every policy file. *)
THEOREM DefaultsAreSafe == Spec => []OmissionNeverWidens
<1>1. SessionInv => OmissionNeverWidens
  <2> SUFFICES ASSUME command \in Commands, Accepts(command.policy),
                      NEW full \in Explicit(command.policy), Accepts(full)
               PROVE  Access(Load(command.policy)) \subseteq Access(Load(full))
    BY DEF SessionInv, OmissionNeverWidens
  <2> DEFINE raw == command.policy
  <2>1. IsConfig(raw)
    BY CommandsAssumption
  <2>2. PICK v \in Fields :
          /\ full = Filled(raw, v)
          /\ \A f \in DOMAIN v : raw[f] # "" => v[f] = raw[f]
    BY DEF Explicit
  <2>3. /\ IsConfig(full) /\ full.channel = raw.channel
        /\ full.mode = v.mode /\ full.action = v.action /\ full.additional = v.additional
        /\ full.onError = v.onError /\ full.onTimeout = v.onTimeout
    BY <2>1, <2>2 DEF IsConfig, Filled
  <2>4. Load(raw).onTimeout # "allow"
    BY <2>1, Validated
  <2> QED
    <3>1. /\ v.mode # "" /\ v.action # "" /\ v.additional # "" /\ v.onError # ""
          /\ raw.mode # "" => v.mode = raw.mode
          /\ raw.action # "" => v.action = raw.action
          /\ raw.additional # "" => v.additional = raw.additional
          /\ raw.onError # "" => v.onError = raw.onError
      BY <2>2 DEF Fields, Actions
    <3> DEFINE a == Load(raw)  b == Load(full)
    <3>2. /\ a.mode = Otherwise(raw.mode, "enforce") /\ b.mode = v.mode
          /\ a.action = Otherwise(raw.action, "deny") /\ b.action = v.action
          /\ a.additional = Otherwise(raw.additional, "deny")
          /\ b.additional = v.additional
          /\ a.onError = Otherwise(raw.onError, "deny") /\ b.onError = v.onError
          /\ a.channel = b.channel
      BY <2>1, <2>3, <3>1, Loaded DEF Otherwise
    <3> HIDE DEF a, b
    <3>3. /\ a.onError = "continue" => b.onError = "continue"
          /\ a.mode = "audit" => b.mode = "audit"
          /\ a.action \in {"allow", "approve"} => b.action = a.action
          /\ a.additional # "deny" => b.additional = a.additional
      BY <3>1, <3>2 DEF Otherwise
    <3>4. a.onTimeout # "allow"
      BY <2>4 DEF a
    <3>5. Access(a) \subseteq Access(b)
      BY <3>2, <3>3, <3>4, AccessMonotone
    <3> QED BY <3>5 DEF a, b
<1> QED BY <1>1, Invariance, PTL

(* Compiling sets a node's flag and leaves the rest of it alone. *)
LEMMA CompiledNode ==
  ASSUME NEW m, NEW j \in DOMAIN m, IsNode(m[j])
  PROVE  /\ j \in DOMAIN Compiled(m)
         /\ Compiled(m)[j].compiled
         /\ Compiled(m)[j].pattern = m[j].pattern
         /\ HasOperator(Compiled(m)[j]) <=> HasOperator(m[j])
<1>1. Compiled(m)[j] = [m[j] EXCEPT !.compiled = TRUE] /\ DOMAIN Compiled(m) = DOMAIN m
  BY DEF Compiled
<1>2. LET n == m[j]  k == [n EXCEPT !.compiled = TRUE] IN
      k.compiled /\ k.pattern = n.pattern /\ k.leaf = n.leaf /\ k.nested = n.nested
  BY DEF IsNode
<1> QED BY <1>1, <1>2 DEF HasOperator

(* A rule keeps all but its matchers. *)
LEMMA CompiledRule ==
  ASSUME NEW r, IsRule(r)
  PROVE  /\ CompileRule(r).action = r.action
         /\ CompileRule(r).tools = r.tools
         /\ CompileRule(r).servers = r.servers
         /\ CompileRule(r).args = [n \in DOMAIN r.args |-> Compiled(r.args[n])]
BY DEF IsRule, CompileRule

(* What Load accepts is what the other modules assume, for every file. *)
THEOREM LoadEstablishesAssumptions == Spec => []LoadedIsUsable
<1>1. SessionInv => LoadedIsUsable
  <2> DEFINE raw == command.policy  c == Load(command.policy)
  <2> SUFFICES ASSUME command \in Commands, Accepts(raw)
               PROVE  /\ {c.action} \cup {c.rules[i].action : i \in DOMAIN c.rules} \subseteq Actions
                      /\ c.timeout # 0 /\ c.onTimeout # "allow"
                      /\ \A i \in DOMAIN c.rules :
                           /\ c.rules[i].tools # {}
                           /\ c.rules[i].servers \subseteq ServerNames(c)
                           /\ \A n \in DOMAIN c.rules[i].args :
                                \A j \in DOMAIN c.rules[i].args[n] :
                                  /\ c.rules[i].args[n][j].compiled
                                  /\ HasOperator(c.rules[i].args[n][j])
                                  /\ c.rules[i].args[n][j].pattern # "bad"
                      /\ \A name \in ServerNames(c) :
                           LET s == ServerByName(c, name) IN
                           IF s.transport = "stdio" THEN s.command
                           ELSE s.transport = "http" /\ s.url
    BY DEF SessionInv, LoadedIsUsable
  <2>1. IsConfig(raw)
    BY CommandsAssumption
  <2>2. /\ ServersValid(raw.servers) /\ RulesValid(ApplyDefaults(raw))
        /\ c.action \in Actions /\ c.timeout # 0 /\ c.onTimeout # "allow"
        /\ c.servers = raw.servers
        /\ c.rules = [i \in DOMAIN raw.rules |-> CompileRule(raw.rules[i])]
    BY <2>1, Validated, Loaded
  <2>3. ApplyDefaults(raw).rules = raw.rules /\ ApplyDefaults(raw).servers = raw.servers
    BY <2>1 DEF ApplyDefaults, IsConfig
  <2> HIDE DEF raw, c
  <2>4. ASSUME NEW i \in DOMAIN c.rules
        PROVE  /\ c.rules[i].action \in Actions
               /\ c.rules[i].tools # {} /\ c.rules[i].servers \subseteq ServerNames(c)
               /\ \A n \in DOMAIN c.rules[i].args :
                    \A j \in DOMAIN c.rules[i].args[n] :
                      /\ c.rules[i].args[n][j].compiled
                      /\ HasOperator(c.rules[i].args[n][j])
                      /\ c.rules[i].args[n][j].pattern # "bad"
    <3>1. PICK r : /\ i \in DOMAIN raw.rules /\ r = raw.rules[i]
                  /\ c.rules[i] = CompileRule(r) /\ IsRule(r)
      BY <2>1, <2>2 DEF IsConfig
    <3>2. /\ r.action \in Actions /\ r.tools # {} /\ r.servers \subseteq ServerNames(c)
          /\ \A n \in DOMAIN r.args : Compiles(r.args[n])
      <4> DEFINE filled == ApplyDefaults(raw)
      <4>1. /\ i \in DOMAIN filled.rules /\ r = filled.rules[i]
            /\ filled.servers = c.servers
        BY <2>2, <2>3, <3>1
      <4>2. RulesValid(filled)
        BY <2>2
      <4> HIDE DEF filled
      <4> QED BY <4>1, <4>2 DEF RulesValid, ServerNames
    <3>3. ASSUME NEW n \in DOMAIN c.rules[i].args, NEW j \in DOMAIN c.rules[i].args[n]
          PROVE  /\ c.rules[i].args[n][j].compiled
                 /\ HasOperator(c.rules[i].args[n][j])
                 /\ c.rules[i].args[n][j].pattern # "bad"
      <4> DEFINE m == r.args[n]
      <4>1. n \in DOMAIN r.args /\ c.rules[i].args[n] = Compiled(m)
        <5>1. c.rules[i].args = [k \in DOMAIN r.args |-> Compiled(r.args[k])]
          BY <3>1, CompiledRule
        <5> QED BY <5>1
      <4>2. j \in DOMAIN m /\ IsNode(m[j])
        BY <3>1, <4>1 DEF Compiled, IsRule
      <4>3. HasOperator(m[j]) /\ m[j].pattern # "bad"
        BY <3>2, <4>1, <4>2 DEF Compiles
      <4> HIDE DEF m
      <4> QED BY <4>1, <4>2, <4>3, CompiledNode
    <3> QED BY <3>1, <3>2, <3>3, CompiledRule
  <2>5. ASSUME NEW name \in ServerNames(c)
        PROVE  LET s == ServerByName(c, name) IN
               IF s.transport = "stdio" THEN s.command ELSE s.transport = "http" /\ s.url
    <3>1. PICK i \in DOMAIN raw.servers : ServerByName(c, name) = raw.servers[i]
      BY <2>2 DEF ServerNames, ServerByName
    <3> QED BY <2>2, <3>1 DEF ServersValid
  <2> QED BY <2>2, <2>4, <2>5
<1> QED BY <1>1, Invariance, PTL

-----------------------------------------------------------------------------
(* What a session runs with comes out of validation. *)
LEMMA EffectiveTyped ==
  ASSUME NEW cmd \in Commands, Ready(cmd)
  PROVE  Effective(cmd) \in [mode : {"enforce", "audit"}, onError : {"halt", "deny", "continue"},
                             transport : {"stdio", "http"}]
<1> DEFINE c == Load(cmd.policy)
<1>1. IsConfig(cmd.policy) /\ Accepts(cmd.policy) /\ cmd.server \in ServerNames(c)
  BY CommandsAssumption DEF Ready
<1>2. /\ c.mode \in {"enforce", "audit"} /\ c.onError \in {"halt", "deny", "continue"}
      /\ c.servers = cmd.policy.servers /\ ServersValid(cmd.policy.servers)
  BY <1>1, Validated, Loaded
<1> HIDE DEF c
<1>3. ServerByName(c, cmd.server).transport \in {"stdio", "http"}
  <2>1. PICK i \in DOMAIN c.servers : ServerByName(c, cmd.server) = c.servers[i]
    BY <1>1 DEF ServerNames, ServerByName
  <2> QED BY <1>2, <2>1 DEF ServersValid
<1> QED BY <1>2, <1>3 DEF Effective, c

(* Type correctness of a session. *)
THEOREM SessionTypeCorrect == Spec => []TypeOK
<1>1. Audit!TypeOK <=> Audit!TypeOK
  BY DEF Audit!TypeOK, Audit!TypeOK, Audit!Halves, Audit!Halves, Audit!Sinks, Audit!Sinks,
     Audit!RecordStates, Audit!RecordStates, Audit!Busy, Audit!Busy
<1>2. Init /\ LogInv => TypeOK
  <2> SUFFICES ASSUME Init, LogInv
               PROVE  TypeOK
    OBVIOUS
  <2>1. starts \in 0 .. MaxStarts
    BY MaxStartsAssumption DEF Init
  <2>2. cancelled \in BOOLEAN /\ command \in Commands
    BY DEF Init
  <2>3. /\ cfg \in [mode : {"enforce", "audit"}, onError : {"halt", "deny", "continue"},
                   transport : {"stdio", "http"}]
        /\ phase \in Phases /\ outcome \in [Calls -> Outcomes]
    BY DEF Init, Phases, Outcomes
  <2> QED BY <1>1, <2>1, <2>2, <2>3 DEF TypeOK, LogInv
<1>3. TypeOK /\ [Next]_vars /\ LogInv' => TypeOK'
  <2> SUFFICES ASSUME TypeOK, [Next]_vars, Audit!TypeOK'
               PROVE  TypeOK'
    BY DEF LogInv
  <2> USE DEF TypeOK, Phases, Outcomes
  <2>1. Audit!TypeOK'
    BY DEF Audit!TypeOK, Audit!TypeOK, Audit!Halves, Audit!Halves, Audit!Sinks, Audit!Sinks,
       Audit!RecordStates, Audit!RecordStates, Audit!Busy, Audit!Busy
  <2>2. Starting => starts' \in 0 .. MaxStarts
    BY MaxStartsAssumption DEF Starting
  <2>3. CASE Start
    <3>1. cfg' \in [mode : {"enforce", "audit"}, onError : {"halt", "deny", "continue"},
                    transport : {"stdio", "http"}]
      BY <2>3, EffectiveTyped DEF Start
    <3> QED BY <2>1, <2>2, <2>3, <3>1 DEF Start
  <2>4. CASE StartFails
    BY <2>1, <2>2, <2>4 DEF StartFails
  <2>5. ASSUME NEW k \in Calls, Judge(k) \/ Record(k)
        PROVE  TypeOK'
    BY <2>1, <2>5 DEF Judge, Record
  <2>6. ASSUME NEW k \in Calls, NEW d \in {"allow", "deny"}, Finish(k, d)
        PROVE  TypeOK'
    BY <2>1, <2>6 DEF Finish
  <2>7. CASE TransportReturns \/ CloseLog \/ ProcessEnds \/ UNCHANGED vars
    BY <2>1, <2>7 DEF TransportReturns, CloseLog, ProcessEnds, vars
  <2> QED BY <2>3, <2>4, <2>5, <2>6, <2>7 DEF Next
<1> QED BY <1>2, <1>3, Invariance, PTL DEF Spec

-----------------------------------------------------------------------------
(* Redaction, pattern by pattern. *)

(* A set of naturals has a least member. *)
LEMMA LeastIn ==
  ASSUME NEW R, R \subseteq Nat, R # {}
  PROVE  \E k \in R : \A l \in R : k <= l
<1>1. PICK k \in R : \A l \in R : ~ (<<l, k>> \in OpToRel(<, Nat))
  BY WFMin, NatLessThanWellFounded
<1>2. ASSUME NEW l \in Nat, NEW n \in Nat, l < n
      PROVE  <<l, n>> \in OpToRel(<, Nat)
  <2>1. <<l, n>> \in {ss \in Nat \X Nat : ss[1] < ss[2]}
    BY <1>2
  <2> QED BY <2>1, Zenon DEF OpToRel
<1>3. \A l \in R : ~(l < k)
  BY <1>1, <1>2
<1> QED BY <1>3

(* Induction over a set of naturals. *)
LEMMA SetInduction ==
  ASSUME NEW G, 0 \in G, \A k \in Nat : k \in G => k + 1 \in G
  PROVE  \A k \in Nat : k \in G
<1> DEFINE R == {k \in Nat : k \notin G}
<1> SUFFICES ASSUME R # {} PROVE FALSE
  OBVIOUS
<1>1. R \subseteq Nat
  OBVIOUS
<1>2. PICK k \in R : \A l \in R : k <= l
  BY <1>1, LeastIn
<1>3. k # 0 /\ k - 1 \in Nat /\ k - 1 \notin R
  BY <1>2
<1> QED BY <1>3

-----------------------------------------------------------------------------
(* A prefix, element by element. *)
LEMMA PrefixPointwise ==
  ASSUME NEW E, NEW p \in Seq(E), NEW q \in Seq(E)
  PROVE  IsPrefix(p, q) <=> Len(p) <= Len(q) /\ \A i \in 1 .. Len(p) : p[i] = q[i]
<1> SUFFICES ASSUME Len(p) <= Len(q)
             PROVE  SubSeq(p, 1, Len(p)) = SubSeq(q, 1, Len(p))
                      <=> \A i \in 1 .. Len(p) : p[i] = q[i]
  BY DEF IsPrefix
<1> DEFINE y == SubSeq(q, 1, Len(p))
<1>1. SubSeq(p, 1, Len(p)) = p
  BY SubSeqFull
<1>2. y \in Seq(E) /\ Len(y) = Len(p) /\ \A i \in 1 .. Len(p) : y[i] = q[i]
  OBVIOUS
<1> HIDE DEF y
<1>3. p = y <=> \A i \in 1 .. Len(p) : p[i] = y[i]
  BY <1>2, SeqEqual
<1>4. p = y <=> \A i \in 1 .. Len(p) : p[i] = q[i]
  BY <1>2, <1>3
<1> QED BY <1>1, <1>4 DEF y

(* A prefix cut out of a path. *)
LEMMA CutOut ==
  ASSUME NEW E, NEW p \in Seq(E), NEW n \in Nat, n <= Len(p)
  PROVE  /\ SubSeq(p, 1, n) \in Seq(E) /\ Len(SubSeq(p, 1, n)) = n
         /\ \A i \in 1 .. n : SubSeq(p, 1, n)[i] = p[i]
OBVIOUS

(* Two prefixes of one path are one inside of the other. *)
LEMMA PrefixesComparable ==
  ASSUME NEW E, NEW p \in Seq(E), NEW q \in Seq(E), NEW r \in Seq(E),
         IsPrefix(p, r), IsPrefix(q, r)
  PROVE  IsPrefix(p, q) \/ IsPrefix(q, p)
<1>1. /\ Len(p) <= Len(r) /\ \A i \in 1 .. Len(p) : p[i] = r[i]
      /\ Len(q) <= Len(r) /\ \A i \in 1 .. Len(q) : q[i] = r[i]
  BY PrefixPointwise
<1>2. Len(p) \in Nat /\ Len(q) \in Nat
  OBVIOUS
<1>3. CASE Len(p) <= Len(q)
  <2>1. \A i \in 1 .. Len(p) : p[i] = q[i]
    BY <1>1, <1>2, <1>3
  <2> QED BY <1>3, <2>1, PrefixPointwise
<1>4. CASE Len(q) <= Len(p)
  <2>1. \A i \in 1 .. Len(q) : q[i] = p[i]
    BY <1>1, <1>2, <1>4
  <2> QED BY <1>4, <2>1, PrefixPointwise
<1> QED BY <1>2, <1>3, <1>4

LEMMA PrefixTransitive ==
  ASSUME NEW E, NEW p \in Seq(E), NEW q \in Seq(E), NEW r \in Seq(E),
         IsPrefix(p, q), IsPrefix(q, r)
  PROVE  IsPrefix(p, r)
<1>1. /\ Len(p) <= Len(q) /\ \A i \in 1 .. Len(p) : p[i] = q[i]
      /\ Len(q) <= Len(r) /\ \A i \in 1 .. Len(q) : q[i] = r[i]
  BY PrefixPointwise
<1>2. Len(p) \in Nat /\ Len(q) \in Nat /\ Len(r) \in Nat
  OBVIOUS
<1>3. Len(p) <= Len(r) /\ \A i \in 1 .. Len(p) : p[i] = r[i]
  BY <1>1, <1>2
<1> QED BY <1>3, PrefixPointwise

(* A pattern that reaches a path reaches everything inside of it. *)
LEMMA ReachesInside ==
  ASSUME NEW E, NEW p \in Seq(E), NEW q \in Seq(E), IsPrefix(p, q),
         NEW S, NEW pattern \in Seq(S), Reaches(pattern, p)
  PROVE  Reaches(pattern, q)
<1>1. Len(p) <= Len(q) /\ \A i \in 1 .. Len(p) : p[i] = q[i]
  BY PrefixPointwise
<1>2. /\ Len(p) \in Nat /\ Len(q) \in Nat /\ Len(pattern) \in Nat
      /\ DOMAIN pattern = 1 .. Len(pattern)
  OBVIOUS
<1>3. Len(pattern) <= Len(p) /\ \A i \in DOMAIN pattern : Names(pattern[i], p[i])
  BY DEF Reaches
<1>4. \A i \in DOMAIN pattern : i \in 1 .. Len(p) /\ p[i] = q[i]
  BY <1>1, <1>2, <1>3
<1>5. \A i \in DOMAIN pattern : Names(pattern[i], q[i])
  BY <1>3, <1>4
<1>6. Len(pattern) <= Len(q)
  BY <1>1, <1>2, <1>3
<1> QED BY <1>5, <1>6 DEF Reaches

(* What a pattern names of a path it reaches: that much of the path, which  *)
(* it reaches too.                                                          *)
LEMMA NamedPart ==
  ASSUME NEW E, NEW p \in Seq(E), NEW S, NEW pattern \in Seq(S), Reaches(pattern, p)
  PROVE  LET n == SubSeq(p, 1, Len(pattern)) IN
         n \in Seq(E) /\ Len(n) = Len(pattern) /\ IsPrefix(n, p) /\ Reaches(pattern, n)
<1> DEFINE n == SubSeq(p, 1, Len(pattern))
<1>1. Len(pattern) <= Len(p) /\ \A i \in DOMAIN pattern : Names(pattern[i], p[i])
  BY DEF Reaches
<1>2. Len(pattern) \in Nat /\ DOMAIN pattern = 1 .. Len(pattern)
  OBVIOUS
<1>3. n \in Seq(E) /\ Len(n) = Len(pattern) /\ \A i \in 1 .. Len(pattern) : n[i] = p[i]
  BY <1>1, <1>2, CutOut
<1> HIDE DEF n
<1>4. IsPrefix(n, p)
  BY <1>1, <1>3, PrefixPointwise
<1>5. Reaches(pattern, n)
  <2>1. \A i \in DOMAIN pattern : Names(pattern[i], n[i])
    BY <1>1, <1>2, <1>3
  <2>2. Len(pattern) <= Len(n)
    BY <1>2, <1>3
  <2> QED BY <2>1, <2>2 DEF Reaches
<1> QED BY <1>3, <1>4, <1>5 DEF n

-----------------------------------------------------------------------------
(* What holds of the copy after some patterns, done, of all: it is again    *)
(* arguments; it covers every path of the original and names no other; what *)
(* is named is replaced, and the rest is as it was.                         *)
Redacted(args, shown, done) ==
  /\ IsArguments(shown)
  /\ \A p \in DOMAIN args : \E q \in DOMAIN shown : IsPrefix(q, p)
  /\ \A p \in DOMAIN shown : \E q \in DOMAIN args : IsPrefix(p, q)
  /\ \A p \in DOMAIN shown : (\E pattern \in done : Reaches(pattern, p)) => shown[p] = Placeholder
  /\ \A p \in DOMAIN args :
       (\A pattern \in done : ~Reaches(pattern, p)) => p \in DOMAIN shown /\ shown[p] = args[p]

LEMMA AppliedOnce ==
  ASSUME NEW args, IsArguments(args), NEW shown, NEW done, Redacted(args, shown, done),
         NEW S, NEW pattern \in Seq(S)
  PROVE  Redacted(args, ApplyRedaction(shown, pattern), done \cup {pattern})
<1> DEFINE E == Elements
           kept == {p \in DOMAIN shown : ~Reaches(pattern, p)}
           part(p) == SubSeq(p, 1, Len(pattern))
           named == {part(p) : p \in DOMAIN shown \ kept}
           next == ApplyRedaction(shown, pattern)
<1>1. /\ next = [p \in kept \cup named |-> IF p \in kept THEN shown[p] ELSE Placeholder]
      /\ DOMAIN next = kept \cup named
  BY DEF ApplyRedaction
<1>2. /\ DOMAIN args \subseteq Seq(E) /\ DOMAIN shown \subseteq Seq(E)
      /\ \A p, q \in DOMAIN shown : IsPrefix(p, q) => p = q
  BY DEF Redacted, IsArguments
<1>3. ASSUME NEW p \in DOMAIN shown \ kept
      PROVE  /\ part(p) \in Seq(E) /\ Len(part(p)) = Len(pattern)
             /\ IsPrefix(part(p), p) /\ Reaches(pattern, part(p))
  <2>1. p \in Seq(E) /\ Reaches(pattern, p)
    BY <1>2
  <2> QED BY <2>1, NamedPart
<1>4. \A q \in named : \E p \in DOMAIN shown :
        /\ Reaches(pattern, p) /\ p \in Seq(E) /\ q \in Seq(E)
        /\ Len(q) = Len(pattern) /\ IsPrefix(q, p) /\ Reaches(pattern, q)
  BY <1>2, <1>3
<1>5. /\ \A q \in named : next[q] = Placeholder
      /\ \A q \in kept : next[q] = shown[q]
  BY <1>1, <1>4
<1> HIDE DEF next, named
<1>6. IsArguments(next)
  <2>1. DOMAIN next \subseteq Seq(E)
    BY <1>1, <1>2, <1>4
  <2>2. ASSUME NEW p \in DOMAIN next, NEW q \in DOMAIN next, IsPrefix(p, q) PROVE p = q
    <3>1. CASE p \in kept /\ q \in kept
      BY <1>2, <2>2, <3>1
    <3>2. CASE p \in kept /\ q \in named
      <4>1. PICK r \in DOMAIN shown : Reaches(pattern, r) /\ IsPrefix(q, r) /\ r \in Seq(E) /\ q \in Seq(E)
        BY <1>4, <3>2
      <4>2. IsPrefix(p, r)
        BY <1>2, <2>2, <3>2, <4>1, PrefixTransitive
      <4> QED BY <1>2, <3>2, <4>1, <4>2
    <3>3. CASE p \in named /\ q \in kept
      <4>1. p \in Seq(E) /\ Reaches(pattern, p) /\ q \in Seq(E)
        BY <1>2, <1>4, <3>3
      <4>2. Reaches(pattern, q)
        BY <2>2, <4>1, ReachesInside
      <4> QED BY <3>3, <4>2
    <3>4. CASE p \in named /\ q \in named
      <4>1. p \in Seq(E) /\ q \in Seq(E) /\ Len(p) = Len(pattern) /\ Len(q) = Len(pattern)
        BY <1>4, <3>4
      <4>2. \A i \in 1 .. Len(p) : p[i] = q[i]
        BY <2>2, <4>1, PrefixPointwise
      <4> QED BY <4>1, <4>2, SeqEqual
    <3> QED BY <1>1, <3>1, <3>2, <3>3, <3>4
  <2> QED BY <2>1, <2>2 DEF IsArguments
<1>7. ASSUME NEW p \in DOMAIN args PROVE \E q \in DOMAIN next : IsPrefix(q, p)
  <2>1. PICK q \in DOMAIN shown : IsPrefix(q, p)
    BY DEF Redacted
  <2>2. CASE q \in kept
    BY <1>1, <2>1, <2>2
  <2>3. CASE q \notin kept
    <3>1. part(q) \in named /\ part(q) \in Seq(E) /\ IsPrefix(part(q), q)
      BY <1>3, <2>3 DEF named
    <3>2. IsPrefix(part(q), p)
      BY <1>2, <2>1, <3>1, PrefixTransitive
    <3> QED BY <1>1, <3>1, <3>2
  <2> QED BY <2>2, <2>3
<1>8. ASSUME NEW p \in DOMAIN next PROVE \E q \in DOMAIN args : IsPrefix(p, q)
  <2>1. CASE p \in kept
    BY <2>1 DEF Redacted
  <2>2. CASE p \in named
    <3>1. PICK r \in DOMAIN shown : r \in Seq(E) /\ p \in Seq(E) /\ IsPrefix(p, r)
      BY <1>4, <2>2
    <3>2. PICK q \in DOMAIN args : IsPrefix(r, q)
      BY DEF Redacted
    <3>3. IsPrefix(p, q)
      BY <1>2, <3>1, <3>2, PrefixTransitive
    <3> QED BY <3>3
  <2> QED BY <1>1, <2>1, <2>2
<1>9. ASSUME NEW p \in DOMAIN next, NEW d \in done \cup {pattern}, Reaches(d, p)
      PROVE  next[p] = Placeholder
  <2>1. CASE p \in named
    BY <1>5, <2>1
  <2>2. CASE p \in kept
    <3>1. d \in done
      BY <1>9, <2>2
    <3> QED BY <1>5, <1>9, <2>2, <3>1 DEF Redacted
  <2> QED BY <1>1, <2>1, <2>2
<1>10. ASSUME NEW p \in DOMAIN args, \A d \in done \cup {pattern} : ~Reaches(d, p)
       PROVE  p \in DOMAIN next /\ next[p] = args[p]
  <2>1. p \in DOMAIN shown /\ shown[p] = args[p] /\ p \in kept
    BY <1>10 DEF Redacted
  <2> QED BY <1>1, <1>5, <2>1
<1> QED BY <1>6, <1>7, <1>8, <1>9, <1>10 DEF Redacted, next

(* The recurrence of redactCopy's loop is met by the function it names. *)
After(args, patterns) ==
  CHOOSE f : f = [i \in 0 .. Len(patterns) |->
                    IF i = 0 THEN args ELSE ApplyRedaction(f[i - 1], patterns[i])]

LEMMA LoopMeets ==
  ASSUME NEW args, NEW patterns, Len(patterns) \in Nat
  PROVE  LET f == After(args, patterns) IN
         /\ RedactCopy(args, patterns) = f[Len(patterns)]
         /\ f[0] = args
         /\ \A i \in 1 .. Len(patterns) : f[i] = ApplyRedaction(f[i - 1], patterns[i])
<1> DEFINE Meets(f, n) ==
      f = [i \in 0 .. n |-> IF i = 0 THEN args ELSE ApplyRedaction(f[i - 1], patterns[i])]
    G == {n \in Nat : \E f : Meets(f, n)}
    N == Len(patterns)
<1>1. 0 \in G
  <2>1. Meets([i \in 0 .. 0 |-> args], 0)
    OBVIOUS
  <2> QED BY <2>1
<1>2. ASSUME NEW n \in Nat, n \in G PROVE n + 1 \in G
  <2>1. PICK f : Meets(f, n)
    BY <1>2
  <2> DEFINE g == [i \in 0 .. n + 1 |->
                     IF i = n + 1 THEN ApplyRedaction(f[n], patterns[n + 1]) ELSE f[i]]
             h == [i \in 0 .. n + 1 |->
                     IF i = 0 THEN args ELSE ApplyRedaction(g[i - 1], patterns[i])]
  <2>2. ASSUME NEW i \in 0 .. n + 1 PROVE g[i] = h[i]
    <3>1. CASE i = n + 1
      <4>1. i # 0 /\ g[i - 1] = f[n]
        BY <3>1
      <4> QED BY <3>1, <4>1
    <3>2. CASE i # n + 1
      <4>1. i \in 0 .. n /\ (i # 0 => i - 1 \in 0 .. n /\ i - 1 \in 0 .. n + 1 /\ i - 1 # n + 1)
        BY <3>2
      <4>2. g[i] = f[i] /\ (i # 0 => g[i - 1] = f[i - 1])
        BY <3>2, <4>1
      <4>3. f[i] = IF i = 0 THEN args ELSE ApplyRedaction(f[i - 1], patterns[i])
        BY <2>1, <4>1
      <4> QED BY <4>2, <4>3
    <3> QED BY <3>1, <3>2
  <2>3. g = h
    BY <2>2
  <2>4. Meets(g, n + 1)
    BY <2>3
  <2> HIDE DEF g, Meets
  <2> QED BY <2>4
<1>3. N \in G
  <2> HIDE DEF G
  <2> QED BY <1>1, <1>2, SetInduction
<1>4. Meets(After(args, patterns), N)
  BY <1>3 DEF After
<1>5. RedactCopy(args, patterns) = After(args, patterns)[N]
  BY DEF RedactCopy, After
<1> QED BY <1>4, <1>5

(* What is left when all patterns are through. *)
LEMMA RedactsAll ==
  ASSUME NEW args, IsArguments(args), NEW S, NEW patterns \in Seq(Seq(S))
  PROVE  Redacted(args, RedactCopy(args, patterns), {patterns[i] : i \in DOMAIN patterns})
<1> DEFINE f == After(args, patterns)
           N == Len(patterns)
           upTo(k) == {patterns[i] : i \in 1 .. k}
           G == {k \in Nat : k <= N => Redacted(args, f[k], upTo(k))}
<1>1. N \in Nat /\ DOMAIN patterns = 1 .. N /\ \A i \in 1 .. N : patterns[i] \in Seq(S)
  OBVIOUS
<1>2. /\ RedactCopy(args, patterns) = f[N] /\ f[0] = args
      /\ \A i \in 1 .. N : f[i] = ApplyRedaction(f[i - 1], patterns[i])
  <2>1. Len(patterns) \in Nat
    OBVIOUS
  <2> QED BY <2>1, LoopMeets
<1> HIDE DEF f, N
<1>3. 0 \in G
  <2>1. upTo(0) = {}
    OBVIOUS
  <2>2. \A p \in DOMAIN args : IsPrefix(p, p)
    <3> TAKE p \in DOMAIN args
    <3>1. p \in Seq(Elements)
      BY DEF IsArguments
    <3> QED BY <3>1, PrefixPointwise
  <2>3. Redacted(args, args, {})
    BY <2>2 DEF Redacted
  <2> QED BY <1>2, <2>1, <2>3
<1>4. ASSUME NEW k \in Nat, k \in G PROVE k + 1 \in G
  <2> SUFFICES ASSUME k + 1 <= N PROVE Redacted(args, f[k + 1], upTo(k + 1))
    OBVIOUS
  <2>1. k + 1 \in 1 .. N /\ (k + 1) - 1 = k /\ k <= N
    BY <1>1
  <2>2. f[k + 1] = ApplyRedaction(f[k], patterns[k + 1])
    BY <1>2, <2>1
  <2>3. upTo(k + 1) = upTo(k) \cup {patterns[k + 1]}
    <3>1. 1 .. k + 1 = (1 .. k) \cup {k + 1}
      OBVIOUS
    <3> QED BY <3>1
  <2>4. Redacted(args, f[k], upTo(k))
    BY <1>4, <2>1
  <2>5. patterns[k + 1] \in Seq(S)
    BY <1>1, <2>1
  <2> HIDE DEF upTo
  <2> QED BY <2>2, <2>3, <2>4, <2>5, AppliedOnce
<1>5. N \in G
  <2> HIDE DEF G
  <2> QED BY <1>1, <1>3, <1>4, SetInduction
<1>6. upTo(N) = {patterns[i] : i \in DOMAIN patterns}
  BY <1>1
<1>7. Redacted(args, f[N], upTo(N))
  <2>1. N <= N
    BY <1>1
  <2> QED BY <1>5, <2>1
<1> HIDE DEF upTo
<1> QED BY <1>2, <1>6, <1>7

(* Exactly one thing is shown of a path that is covered. *)
LEMMA ShownOnce ==
  ASSUME NEW args, IsArguments(args), NEW shown, NEW done, Redacted(args, shown, done),
         NEW p \in DOMAIN args
  PROVE  Cardinality({q \in DOMAIN shown : IsPrefix(q, p)}) = 1
<1>1. p \in Seq(Elements) /\ DOMAIN shown \subseteq Seq(Elements)
  BY DEF Redacted, IsArguments
<1>2. PICK q \in DOMAIN shown : IsPrefix(q, p)
  BY DEF Redacted
<1>3. ASSUME NEW r \in DOMAIN shown, IsPrefix(r, p) PROVE r = q
  <2>1. IsPrefix(q, r) \/ IsPrefix(r, q)
    BY <1>1, <1>2, <1>3, PrefixesComparable
  <2> QED BY <2>1 DEF Redacted, IsArguments
<1>4. {r \in DOMAIN shown : IsPrefix(r, p)} = {q}
  BY <1>2, <1>3
<1> QED BY <1>4, FS_Singleton

(* For every list of patterns, however they overlap and in whatever order,  *)
(* and for all arguments, the log shows nothing of a value a pattern names, *)
(* one placeholder in its place, and everything else as it was.             *)
THEOREM RedactionIsComplete == Spec => []RedactionHides
<1>1. SessionInv => RedactionHides
  <2> SUFFICES ASSUME command \in Commands, NEW args \in Arguments
               PROVE  LET patterns == command.policy.redact
                          Hidden(p) == \E i \in DOMAIN patterns : Reaches(patterns[i], p)
                          shown == RedactCopy(args, patterns)
                      IN /\ \A p \in DOMAIN shown :
                              /\ Hidden(p) => shown[p] = Placeholder
                              /\ \E q \in DOMAIN args : IsPrefix(p, q)
                         /\ \A p \in DOMAIN args :
                              IF Hidden(p)
                              THEN Cardinality({q \in DOMAIN shown : IsPrefix(q, p)}) = 1
                              ELSE p \in DOMAIN shown /\ shown[p] = args[p]
    BY DEF SessionInv, RedactionHides
  <2> DEFINE patterns == command.policy.redact
             done == {patterns[i] : i \in DOMAIN patterns}
             shown == RedactCopy(args, patterns)
  <2>1. IsArguments(args) /\ patterns \in Seq(Seq(STRING))
    BY ArgumentsAssumption, CommandsAssumption DEF IsConfig
  <2> HIDE DEF patterns
  <2>2. Redacted(args, shown, done)
    BY <2>1, RedactsAll
  <2>3. \A p : (\E i \in DOMAIN patterns : Reaches(patterns[i], p))
                <=> \E pattern \in done : Reaches(pattern, p)
    OBVIOUS
  <2>4. \A p \in DOMAIN args : Cardinality({q \in DOMAIN shown : IsPrefix(q, p)}) = 1
    <3> HIDE DEF shown, done
    <3> QED BY <2>1, <2>2, ShownOnce
  <2> HIDE DEF shown, done
  <2>5. /\ \A p \in DOMAIN shown :
             (\E pattern \in done : Reaches(pattern, p)) => shown[p] = Placeholder
        /\ \A p \in DOMAIN shown : \E q \in DOMAIN args : IsPrefix(p, q)
        /\ \A p \in DOMAIN args : (\A pattern \in done : ~Reaches(pattern, p))
             => p \in DOMAIN shown /\ shown[p] = args[p]
    BY <2>2 DEF Redacted
  <2> QED BY <2>3, <2>4, <2>5 DEF shown, patterns
<1> QED BY <1>1, Invariance, PTL
=============================================================================
