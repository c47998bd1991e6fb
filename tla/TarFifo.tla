------------------------------- MODULE TarFifo -------------------------------
(***************************************************************************)
(* One compress task: tar runs as a child of the root service and writes   *)
(* the archive and its diagnostics into two FIFOs; two coroutines of the   *)
(* app read them, one of them into the target file; a third waits for tar. *)
(* TarCompressor and ZstdCompressor differ in how the archive is copied to *)
(* the target, which is Relay's business; the rest they share.             *)
(*                                                                         *)
(* The app opens the read ends without blocking and then restores blocking *)
(* reads.  Such a read waits while the FIFO is empty and has a writer, but *)
(* it returns end of file when the FIFO has no writer, also when none ever *)
(* came: a coroutine that reads before the root service opened its side    *)
(* meets an early end, and nothing in the code keeps it from that.         *)
(***************************************************************************)
EXTENDS Naturals, FiniteSets

CONSTANTS
  N,            \* bound on the chunks of an archive
  Capacity,     \* chunks a FIFO holds
  MaxFaults     \* bound on failing calls

ASSUME BoundsAssumption ==
  N \in Nat \ {0} /\ Capacity \in Nat \ {0} /\ MaxFaults \in Nat

Streams == {"relay", "stderr"}
Jobs == {"tar", "relay", "stderr"}    \* the three async blocks
Closers == {"pipes", "output"}        \* what TaskCancellation tracks
None == N + 1                         \* the target file is not there

VARIABLES
  fifo,       \* per stream: its path, read end, writers, chunks, whether ever opened for
              \* write, and whether its reader met the end before that
  jobs,       \* where each coroutine is
  tar,        \* the tar process, the length of its archive and its position there
  task,       \* where the task is, and what it told its callback
  target,     \* chunks in the target file, or None
  output,     \* whether the target's stream is open
  cancel,     \* where cancel() is
  closers,    \* TaskCancellation.closers
  fault       \* failing calls so far, and those whose result nobody asks for

vars == <<fifo, jobs, tar, task, target, output, cancel, closers, fault>>

FifoIn == [path : BOOLEAN, reader : BOOLEAN, writers : SUBSET {"anchor", "tar"},
           chunks : 0 .. Capacity, opened : BOOLEAN, early : BOOLEAN]
Unmade == [path |-> FALSE, reader |-> FALSE, writers |-> {}, chunks |-> 0, opened |-> FALSE,
           early |-> FALSE]

cancelled == cancel # "idle"
Job(j, label) == jobs' = [jobs EXCEPT ![j] = label]
MayFail == fault.count < MaxFaults
Faulty == fault' = [fault EXCEPT !.count = @ + 1]
Quietly == fault' = [fault EXCEPT !.count = @ + 1, !.silent = TRUE]
Ending == {"done", "error"}

\* A mutant: only the read end of the diagnostics is closed.
BreakStderrOnly(f) == [f EXCEPT !["stderr"].reader = FALSE]

BreakPipes(f) == [s \in Streams |-> [f[s] EXCEPT !.reader = FALSE]]

-----------------------------------------------------------------------------
(* The task: doCompress, streamToTarget, transferTarFifo.                  *)

Start ==
  /\ task = "new" /\ task' = "make"
  /\ UNCHANGED <<fifo, jobs, tar, target, output, cancel, closers, fault>>

\* Both FIFOs with their read ends open, or an error report and what was made.
MakeFifos ==
  /\ task = "make"
  /\ \/ /\ fifo' = [s \in Streams |-> [Unmade EXCEPT !.path = TRUE, !.reader = TRUE]]
        /\ task' = "track" /\ UNCHANGED fault
     \/ /\ MayFail /\ Faulty /\ task' = "refused"
        /\ \E made \in {{}, {"stderr"}, Streams}, open \in {{}, {"stderr"}} :
             /\ open # {} => made = Streams
             /\ fifo' = [s \in Streams |-> [Unmade EXCEPT !.path = s \in made,
                                                          !.reader = s \in open]]
  /\ UNCHANGED <<jobs, tar, target, output, cancel, closers>>

\* track adds the closer, then looks at the flag; cancel sets the flag, then
\* runs the closers.
TrackPipes ==
  /\ task = "track" /\ task' = "tracked" /\ closers' = closers \cup {"pipes"}
  /\ UNCHANGED <<fifo, jobs, tar, target, output, cancel, fault>>

\* track's look at the flag, ensureActive, then the three coroutines; a
\* cancelled task starts none.
Launch ==
  /\ task = "tracked"
  /\ \/ /\ cancelled /\ fifo' = BreakPipes(fifo) /\ task' = "failed" /\ UNCHANGED jobs
     \/ /\ ~cancelled /\ task' = "running" /\ UNCHANGED fifo
        /\ jobs' = [j \in Jobs |-> "ready"]
  /\ UNCHANGED <<tar, target, output, cancel, closers, fault>>

\* The scope waits for its coroutines, also after one of them failed, and a
\* coroutine that has not started by then never does.
Skip(j) ==
  /\ jobs[j] = "ready"
  /\ cancel \in {"job", "over"} \/ \E i \in Jobs : jobs[i] = "threw"
  /\ Job(j, "skipped")
  /\ UNCHANGED <<fifo, tar, task, target, output, cancel, closers, fault>>

Joined == task = "running" /\ \A j \in Jobs : jobs[j] \in {"ok", "threw", "skipped"}

Join ==
  /\ Joined
  /\ task' = IF ~cancelled /\ \A j \in Jobs : jobs[j] = "ok" THEN "transferred" ELSE "failed"
  /\ UNCHANGED <<fifo, jobs, tar, target, output, cancel, closers, fault>>

\* A mutant: the FIFOs stay when the transfer failed.
DropFifosOfDone ==
  /\ task \in {"transferred", "failed", "refused"}
  /\ fifo' = IF task = "failed" THEN fifo
             ELSE [s \in Streams |-> [fifo[s] EXCEPT !.reader = FALSE, !.path = FALSE]]
  /\ task' = CASE task = "transferred" -> "verdict" [] task = "failed" -> "report"
               [] OTHER -> "error"
  /\ UNCHANGED <<jobs, tar, target, output, cancel, closers, fault>>

\* The finally block closes the read ends and removes the paths; a path that
\* cannot be removed stays.
DropFifos ==
  /\ task \in {"transferred", "failed", "refused"}
  /\ \/ /\ fifo' = [s \in Streams |-> [fifo[s] EXCEPT !.reader = FALSE, !.path = FALSE]]
        /\ UNCHANGED fault
     \/ /\ MayFail /\ Quietly
        /\ fifo' = [s \in Streams |-> [fifo[s] EXCEPT !.reader = FALSE]]
  /\ task' = CASE task = "transferred" -> "verdict" [] task = "failed" -> "report"
               [] OTHER -> "error"
  /\ UNCHANGED <<jobs, tar, target, output, cancel, closers>>

\* finishCompress looks at the flag and at the target.  exists() answers FALSE
\* when it fails, and then the target is reported missing and left there.
Finish ==
  /\ task = "verdict"
  /\ \/ cancelled /\ task' = "report" /\ UNCHANGED fault
     \/ ~cancelled /\ target # None /\ task' = "done" /\ UNCHANGED fault
     \/ ~cancelled /\ target = None /\ task' = "error" /\ UNCHANGED fault
     \/ ~cancelled /\ MayFail /\ Quietly /\ task' = "error"
     \/ ~cancelled /\ target # None /\ MayFail /\ Faulty /\ task' = "report"
  /\ UNCHANGED <<fifo, jobs, tar, target, output, cancel, closers>>

\* onError, then the target is removed, if it can be.
Report ==
  /\ task = "report" /\ task' = "error"
  /\ \/ target' = None /\ UNCHANGED fault
     \/ MayFail /\ Quietly /\ UNCHANGED target
  /\ UNCHANGED <<fifo, jobs, tar, output, cancel, closers>>

-----------------------------------------------------------------------------
(* The tar coroutine and callTarCli in the root service.                   *)

\* A handle for reading and writing on both FIFOs, so that the open for write
\* does not wait for a reader.  The opens precede the try block: the first
\* handle, on the archive's FIFO, stays for good when the second open throws.
Anchored(f) == [f EXCEPT !.writers = @ \cup {"anchor"}, !.opened = TRUE]

OpenAnchors ==
  /\ jobs["tar"] = "ready"
  /\ \/ /\ Job("tar", "anchored") /\ UNCHANGED fault
        /\ fifo' = [s \in Streams |-> Anchored(fifo[s])]
     \/ /\ MayFail /\ Faulty /\ Job("tar", "failing")
        /\ \/ UNCHANGED fifo
           \/ fifo' = [fifo EXCEPT !["relay"] = Anchored(@)]
  /\ UNCHANGED <<tar, task, target, output, cancel, closers>>

\* ProcessBuilder starts tar, or the call answers -1; the anchors are closed.
StartTar ==
  /\ jobs["tar"] = "anchored"
  /\ \/ /\ Job("tar", "waiting") /\ UNCHANGED fault
        /\ tar' = [tar EXCEPT !.pc = "write"]
        /\ fifo' = [s \in Streams |-> [fifo[s] EXCEPT !.writers = {"tar"}]]
     \/ /\ MayFail /\ Faulty /\ Job("tar", "failing") /\ UNCHANGED tar
        /\ fifo' = [s \in Streams |-> [fifo[s] EXCEPT !.writers = {}]]
  /\ UNCHANGED <<task, target, output, cancel, closers>>

\* A mutant: tar's exit status is not looked at.
AwaitTarAnyhow ==
  /\ jobs["tar"] = "waiting" /\ tar.pc \in {"ok", "failed"}
  /\ Job("tar", "ok")
  /\ UNCHANGED <<fifo, tar, task, target, output, cancel, closers, fault>>

\* callTarCli returns tar's exit status; another one than 0 is thrown.  The
\* call fails at any time when the root service dies or its wait is interrupted,
\* and a tar that was running then goes on without it.
AwaitTar ==
  /\ jobs["tar"] = "waiting"
  /\ \/ /\ tar.pc \in {"ok", "failed"} /\ UNCHANGED fault
        /\ Job("tar", IF tar.pc = "ok" THEN "ok" ELSE "failing")
     \/ MayFail /\ Faulty /\ Job("tar", "failing")
  /\ UNCHANGED <<fifo, tar, task, target, output, cancel, closers>>

\* A coroutine that fails breaks both pipes before it throws.
Fail(j) ==
  /\ jobs[j] = "failing" /\ Job(j, "threw") /\ fifo' = BreakPipes(fifo)
  /\ UNCHANGED <<tar, task, target, output, cancel, closers, fault>>

\* tar: a chunk, or a line of diagnostics.  A write waits while the FIFO is
\* full and somebody may read it; with nobody it fails, and so does tar.
Readable(s) == fifo[s].reader \/ "anchor" \in fifo[s].writers
TarEnds(how) ==
  /\ tar' = [tar EXCEPT !.pc = how]
  /\ fifo' = [s \in Streams |-> [fifo[s] EXCEPT !.writers = @ \ {"tar"}]]

\* A mutant: a write never waits.
TarWriteOver(s) ==
  /\ tar.pc = "write" /\ IF s = "relay" THEN tar.sent < tar.length ELSE ~tar.warned
  /\ fifo' = [fifo EXCEPT ![s].chunks = @ + 1]
  /\ tar' = IF s = "relay" THEN [tar EXCEPT !.sent = @ + 1] ELSE [tar EXCEPT !.warned = TRUE]
  /\ UNCHANGED <<jobs, task, target, output, cancel, closers, fault>>

TarWrite(s) ==
  /\ tar.pc = "write" /\ IF s = "relay" THEN tar.sent < tar.length ELSE ~tar.warned
  /\ \/ /\ Readable(s) /\ fifo[s].chunks < Capacity
        /\ fifo' = [fifo EXCEPT ![s].chunks = @ + 1]
        /\ tar' = IF s = "relay" THEN [tar EXCEPT !.sent = @ + 1]
                                 ELSE [tar EXCEPT !.warned = TRUE]
     \/ ~Readable(s) /\ TarEnds("failed")
  /\ UNCHANGED <<jobs, task, target, output, cancel, closers, fault>>

TarExit ==
  /\ tar.pc = "write"
  /\ \/ tar.sent = tar.length /\ TarEnds("ok") /\ UNCHANGED fault
     \/ MayFail /\ Faulty /\ TarEnds("failed")
  /\ UNCHANGED <<jobs, task, target, output, cancel, closers>>

-----------------------------------------------------------------------------
(* The two reading coroutines.                                             *)

\* What a read may answer: a chunk, end of file, or an exception because the
\* descriptor was closed by somebody else.
GivesChunk(s) == fifo[s].reader /\ fifo[s].chunks > 0
GivesEof(s) == fifo[s].reader /\ fifo[s].chunks = 0 /\ fifo[s].writers = {}

BeginRead(s) ==
  /\ jobs[s] = "ready"
  /\ Job(s, IF s = "relay" THEN "open" ELSE "reading")
  /\ UNCHANGED <<fifo, tar, task, target, output, cancel, closers, fault>>

\* The reader of the diagnostics closes its end when it met the end of file.
ReadStderr ==
  /\ jobs["stderr"] = "reading"
  /\ \/ GivesChunk("stderr") /\ fifo' = [fifo EXCEPT !["stderr"].chunks = @ - 1]
        /\ UNCHANGED jobs
     \/ GivesEof("stderr") /\ Job("stderr", "ok")
        /\ fifo' = [fifo EXCEPT !["stderr"].reader = FALSE,
                                !["stderr"].early = ~fifo["stderr"].opened]
     \/ ~fifo["stderr"].reader /\ Job("stderr", "failing") /\ UNCHANGED fifo
  /\ UNCHANGED <<tar, task, target, output, cancel, closers, fault>>

OpenTarget ==
  /\ jobs["relay"] = "open"
  /\ \/ Job("relay", "track") /\ target' = 0 /\ output' = TRUE /\ UNCHANGED fault
     \/ MayFail /\ Faulty /\ Job("relay", "failing") /\ UNCHANGED <<target, output>>
  /\ UNCHANGED <<fifo, tar, task, cancel, closers>>

TrackOutput ==
  /\ jobs["relay"] = "track" /\ Job("relay", "tracked")
  /\ closers' = closers \cup {"output"}
  /\ UNCHANGED <<fifo, tar, task, target, output, cancel, fault>>

TrackedOutput ==
  /\ jobs["relay"] = "tracked" /\ Job("relay", "reading")
  /\ output' = (output /\ ~cancelled)
  /\ UNCHANGED <<fifo, tar, task, target, cancel, closers, fault>>

\* The copy, chunk by chunk; any failure of it closes the target's stream.
RelayChunk ==
  /\ jobs["relay"] = "reading"
  /\ \/ /\ GivesChunk("relay") /\ output
        /\ fifo' = [fifo EXCEPT !["relay"].chunks = @ - 1]
        /\ \/ target' = target + 1 /\ UNCHANGED <<jobs, output, fault>>
           \/ /\ MayFail /\ Faulty /\ UNCHANGED target
              /\ Job("relay", "failing") /\ output' = FALSE
     \/ /\ ~fifo["relay"].reader \/ (GivesChunk("relay") /\ ~output)
        /\ Job("relay", "failing") /\ output' = FALSE /\ UNCHANGED <<fifo, target, fault>>
  /\ UNCHANGED <<tar, task, cancel, closers>>

\* The copy leaves its read end open, for the finally block to close.
RelayEof ==
  /\ jobs["relay"] = "reading" /\ GivesEof("relay")
  /\ Job("relay", "ok") /\ output' = FALSE
  /\ fifo' = [fifo EXCEPT !["relay"].early = ~fifo["relay"].opened]
  /\ UNCHANGED <<tar, task, target, cancel, closers, fault>>

-----------------------------------------------------------------------------
(* TaskCancellation.cancel, from any thread: the flag, the closers, the    *)
(* coroutine.                                                              *)

Cancel ==
  /\ cancel = "idle" /\ task # "new" /\ cancel' = "flagged"
  /\ UNCHANGED <<fifo, jobs, tar, task, target, output, closers, fault>>

RunClosers ==
  /\ cancel = "flagged" /\ cancel' = "job"
  /\ fifo' = IF "pipes" \in closers THEN BreakPipes(fifo) ELSE fifo
  /\ output' = (output /\ "output" \notin closers)
  /\ UNCHANGED <<jobs, tar, task, target, closers, fault>>

CancelJob ==
  /\ cancel = "job" /\ cancel' = "over"
  /\ UNCHANGED <<fifo, jobs, tar, task, target, output, closers, fault>>

-----------------------------------------------------------------------------
Init ==
  /\ fifo = [s \in Streams |-> Unmade] /\ jobs = [j \in Jobs |-> "none"]
  /\ \E n \in 1 .. N : tar = [pc |-> "none", length |-> n, sent |-> 0, warned |-> FALSE]
  /\ task = "new" /\ target = None /\ output = FALSE /\ cancel = "idle"
  /\ closers = {} /\ fault = [count |-> 0, silent |-> FALSE]

Task == MakeFifos \/ TrackPipes \/ Launch \/ Join \/ DropFifos \/ Finish \/ Report
TarJob == Skip("tar") \/ OpenAnchors \/ StartTar \/ AwaitTar \/ Fail("tar")
Tar == TarExit \/ \E s \in Streams : TarWrite(s)
StderrJob == Skip("stderr") \/ BeginRead("stderr") \/ ReadStderr \/ Fail("stderr")
RelayJob ==
  \/ Skip("relay") \/ BeginRead("relay") \/ OpenTarget \/ TrackOutput \/ TrackedOutput
  \/ RelayChunk \/ RelayEof \/ Fail("relay")
Canceller == RunClosers \/ CancelJob

Next == Start \/ Task \/ TarJob \/ Tar \/ StderrJob \/ RelayJob \/ Cancel \/ Canceller

Spec == Init /\ [][Next]_vars

\* Threads of the app and processes of the system are scheduled; nothing
\* forces a cancellation, a start or a failing call.
Well == UNCHANGED fault

FairSpec ==
  /\ Spec /\ WF_vars(Task /\ Well) /\ WF_vars(TarJob /\ Well) /\ WF_vars(Tar /\ Well)
  /\ WF_vars(StderrJob /\ Well) /\ WF_vars(RelayJob /\ Well) /\ WF_vars(Canceller)

-----------------------------------------------------------------------------
(* Properties                                                              *)

\* Every variable keeps its type.
TypeOK ==
  /\ fifo \in [Streams -> FifoIn]
  /\ jobs \in [Jobs -> {"none", "ready", "anchored", "waiting", "open", "track", "tracked",
                        "reading", "failing", "ok", "threw", "skipped"}]
  /\ tar \in [pc : {"none", "write", "ok", "failed"}, length : 1 .. N, sent : 0 .. N,
              warned : BOOLEAN]
  /\ task \in Ending \cup {"new", "make", "track", "tracked", "running", "transferred",
                           "failed", "refused", "verdict", "report"}
  /\ target \in 0 .. None /\ output \in BOOLEAN
  /\ cancel \in {"idle", "flagged", "job", "over"} /\ closers \subseteq Closers
  /\ fault \in [count : 0 .. MaxFaults, silent : BOOLEAN]

\* The verdict is true: a task reported as done has the whole archive in its
\* target, or, when its copy met an early end, nothing of it.  An error leaves no
\* target, unless its removal failed or exists() lied, and has a reason: cancel(),
\* a failing call, or an early end of the diagnostics, whose reader then left.
VerdictIsTrue ==
  /\ task = "done" =>
       /\ tar.pc = "ok"
       /\ target = IF fifo["relay"].early THEN 0 ELSE tar.length
  /\ task = "error" =>
       /\ target = None \/ fault.silent
       /\ cancelled \/ fault.count > 0 \/ fifo["stderr"].early

\* When a task has ended nothing of it is left: no open end of the app, no path
\* but one that could not be removed.  What may be left in the root service is
\* of a call that threw: a tar that was still running, which finds no reader, or
\* the first of two anchors, of which the second could not be opened.
QuietAtEnd ==
  task \in Ending =>
    /\ ~output
    /\ tar.pc = "write" => jobs["tar"] = "threw"
    /\ \A s \in Streams :
         /\ ~fifo[s].reader
         /\ fifo[s].path => fault.silent
         /\ "anchor" \in fifo[s].writers =>
              s = "relay" /\ tar.pc = "none" /\ jobs["tar"] = "threw"

\* The copy is over before tar came, and tar waits at a full FIFO of which the
\* read end is still open.
Stuck ==
  /\ jobs["relay"] = "ok" /\ fifo["relay"].early /\ fifo["relay"].reader
  /\ tar.pc = "write" /\ fifo["relay"].chunks = Capacity

\* A task that began ends, also when tar waits at a full FIFO, a stage or a call
\* fails or cancel() comes; only after an early end of the copy it may be stuck,
\* and then cancel() ends it.  A tar that outlives its task ends as well.
Ends ==
  /\ task = "make" ~> task \in Ending \/ Stuck
  /\ cancelled ~> task \in Ending
  /\ task \in Ending ~> tar.pc # "write"
==============================================================================
