------------------------------ MODULE TarExtract ------------------------------
(***************************************************************************)
(* One decompress task.  A producer of the app writes the archive into a   *)
(* reliable pipe; a consumer hands the read end to the root service, which *)
(* forks tar on it to fill a scratch directory next to the target; only a  *)
(* stream that ended well is published, by two renames.  TarDecompressor   *)
(* and ZstdDecompressor share all of this; where one of them looks at the  *)
(* cancel flag once more, the model may look or not.                       *)
(*                                                                         *)
(* The archive is N chunks followed by one of padding, which tar does not  *)
(* read.  Trees are "none", "old" (what the target held), "part" and       *)
(* "whole" (the new one).                                                  *)
(***************************************************************************)
EXTENDS Naturals, FiniteSets

CONSTANTS
  N,          \* chunks tar reads
  Capacity,   \* chunks the pipe holds
  MaxFaults,  \* bound on failing calls
  MaxDeaths   \* bound on deaths of the app or the root service

ASSUME BoundsAssumption ==
  /\ N \in Nat \ {0} /\ Capacity \in Nat \ {0}
  /\ MaxFaults \in Nat /\ MaxDeaths \in Nat

Trees == {"none", "old", "part", "whole"}
Readers == {"local", "root", "tar"}   \* holders of the read end
Logs == {"stdout", "stderr"}          \* of extractTarCommand
Temps == {"stdout.tmp", "stderr.tmp"} \* of runTar

VARIABLES
  task,      \* where the task is
  had,       \* hadOriginal
  jobs,      \* where the producer and the consumer are
  sent,      \* chunks written into the pipe
  pipe,      \* its chunks and open ends, the word its writer left, aborted
  root,      \* where the call in the root service is, and its result so far
  tar,       \* the tar process and its position in the archive
  dirs,      \* the trees at target, backup and temp; the target before
  files,     \* log and temporary files in the cache of the root service
  cancel,    \* where cancel() is, and whether the task's pipe is tracked
  fault      \* failing calls, those nobody asks about, whether a move took effect
             \* though it was reported as failed, deaths

vars == <<task, had, jobs, sent, pipe, root, tar, dirs, files, cancel, fault>>
app == <<task, had, jobs, sent>>
service == <<root, tar, files>>

Ended == {"done", "error", "unsized", "recanted"}   \* the last two: an error after publication
MayFail == fault.count < MaxFaults
Faulty == fault' = [fault EXCEPT !.count = @ + 1]
Quietly == fault' = [fault EXCEPT !.count = @ + 1, !.silent = TRUE]
Unheard == fault' = [fault EXCEPT !.count = @ + 1, !.lost = TRUE]
cancelled == cancel.at # "idle"
Job(j, label) == jobs' = [jobs EXCEPT ![j] = label]
Eof == ~pipe.writer /\ pipe.chunks = 0
Broken == pipe.readers = {} \/ ~pipe.writer

\* A mutant: only the read end is closed.
AbortReader(p) ==
  [p EXCEPT !.aborted = TRUE, !.readers = @ \ {"local"}]

\* The first abort closes those local ends that are still open with an error.
\* A status that was waiting there is consumed, so the root service finds the
\* writer dead.
Abort(p) ==
  IF p.aborted \/ (~p.writer /\ "local" \notin p.readers) THEN [p EXCEPT !.aborted = TRUE]
  ELSE [p EXCEPT !.aborted = TRUE, !.writer = FALSE, !.readers = @ \ {"local"},
                 !.word = "error"]

-----------------------------------------------------------------------------
(* The task: streamDecompress and publishExtractedDirectory.               *)

Start ==
  /\ task = "new" /\ task' = "scratch"
  /\ UNCHANGED <<had, jobs, sent, pipe, service, dirs, cancel, fault>>

\* mkdirs of the scratch directory, the length of the source, the pipe.
MakeScratch ==
  /\ task = "scratch"
  /\ \/ /\ dirs' = [dirs EXCEPT !.temp = "part"] /\ task' = "track"
        /\ pipe' = [pipe EXCEPT !.writer = TRUE, !.readers = {"local"}]
        /\ UNCHANGED fault
     \/ /\ MayFail /\ Faulty /\ task' = "failed" /\ UNCHANGED pipe
        /\ \E t \in {"none", "part"} : dirs' = [dirs EXCEPT !.temp = t]
  /\ UNCHANGED <<had, jobs, sent, service, cancel>>

Track ==
  /\ task = "track" /\ task' = "tracked" /\ cancel' = [cancel EXCEPT !.tracked = TRUE]
  /\ UNCHANGED <<had, jobs, sent, pipe, service, dirs, fault>>

\* track's look at the flag, ensureActive, and the two coroutines.
Launch ==
  /\ task = "tracked"
  /\ \/ /\ cancelled /\ task' = "failed" /\ pipe' = Abort(pipe) /\ UNCHANGED jobs
     \/ /\ ~cancelled /\ task' = "running" /\ UNCHANGED pipe
        /\ jobs' = [j \in DOMAIN jobs |-> "ready"]
  /\ UNCHANGED <<had, sent, service, dirs, cancel, fault>>

\* A coroutine that has not started when the other failed, or when the task
\* is cancelled, never does.
Skip(j) ==
  /\ jobs[j] = "ready" /\ (cancelled \/ \E i \in DOMAIN jobs : jobs[i] = "threw")
  /\ Job(j, "skipped")
  /\ UNCHANGED <<task, had, sent, pipe, service, dirs, cancel, fault>>

Join ==
  /\ task = "running" /\ \A j \in DOMAIN jobs : jobs[j] \in {"ok", "threw", "skipped"}
  /\ task' = IF \A j \in DOMAIN jobs : jobs[j] = "ok" THEN "verdict" ELSE "failed"
  /\ pipe' = [pipe EXCEPT !.writer = FALSE, !.readers = @ \ {"local"}]
  /\ UNCHANGED <<had, jobs, sent, service, dirs, cancel, fault>>

\* shouldCommitExtract.
Decide ==
  /\ task = "verdict" /\ task' = IF cancelled THEN "failed" ELSE "exists"
  /\ UNCHANGED <<had, jobs, sent, pipe, service, dirs, cancel, fault>>

\* exists() answers FALSE when it fails.
AskTarget ==
  /\ task = "exists"
  /\ \/ had' = (dirs.target # "none") /\ UNCHANGED fault
     \/ MayFail /\ Faulty /\ had' = FALSE
  /\ task' = IF had' THEN "away" ELSE "in"
  /\ UNCHANGED <<jobs, sent, pipe, service, dirs, cancel>>

\* A move within a directory: all of it or nothing; it refuses a target that
\* is there.  When the root service dies after the rename its reply is lost, and
\* the caller takes the move for a failed one.
Rename(from, to) ==
  /\ dirs[from] # "none" /\ dirs[to] = "none"
  /\ dirs' = [dirs EXCEPT ![from] = "none", ![to] = dirs[from]]

Move(from, to, then, otherwise) ==
  \/ Rename(from, to) /\ task' = then /\ UNCHANGED fault
  \/ /\ dirs[from] = "none" \/ dirs[to] # "none"
     /\ task' = otherwise /\ UNCHANGED <<dirs, fault>>
  \/ MayFail /\ Faulty /\ task' = otherwise /\ UNCHANGED dirs
  \/ MayFail /\ Unheard /\ task' = otherwise /\ Rename(from, to)

\* A mutant: the old tree is deleted to make room.
DropOld ==
  /\ task = "away" /\ task' = "in" /\ dirs' = [dirs EXCEPT !.target = "none"]
  /\ UNCHANGED <<had, jobs, sent, pipe, service, cancel, fault>>

MoveAway ==
  /\ task = "away" /\ Move("target", "backup", "in", "clear")
  /\ UNCHANGED <<had, jobs, sent, pipe, service, cancel>>

\* A mutant: nobody asks whether the new tree was moved in.
MoveInUnasked ==
  /\ task = "in"
  /\ Move("temp", "target", IF had THEN "drop_backup" ELSE "size",
          IF had THEN "drop_backup" ELSE "size")
  /\ UNCHANGED <<had, jobs, sent, pipe, service, cancel>>

MoveIn ==
  /\ task = "in"
  /\ Move("temp", "target", IF had THEN "drop_backup" ELSE "size",
          IF had THEN "restore" ELSE "clear")
  /\ UNCHANGED <<had, jobs, sent, pipe, service, cancel>>

MoveBack ==
  /\ task = "restore" /\ Move("backup", "target", "clear", "clear")
  /\ UNCHANGED <<had, jobs, sent, pipe, service, cancel>>

\* A recursive delete whose result nobody asks for; while a tar whose parent
\* died is still writing, some of the tree may stay.
Drop(tree, then) ==
  /\ task' = then
  /\ \/ dirs' = [dirs EXCEPT ![tree] = "none"] /\ UNCHANGED fault
     \/ /\ dirs[tree] # "none" /\ dirs' = [dirs EXCEPT ![tree] = "part"]
        /\ \/ MayFail /\ Quietly
           \/ tree = "temp" /\ tar.pc \in {"exec", "read"} /\ UNCHANGED fault

DropBackup ==
  /\ task = "drop_backup" /\ Drop("backup", "size")
  /\ UNCHANGED <<had, jobs, sent, pipe, service, cancel>>

\* publishExtractedDirectory removes the scratch directory when it refuses,
\* the finally block whenever nothing was published.
DropTemp ==
  /\ \/ task = "clear" /\ Drop("temp", "failed")
     \/ task = "failed" /\ Drop("temp", "error")
  /\ UNCHANGED <<had, jobs, sent, pipe, service, cancel>>

\* The size of the published tree, then onDone; if the size fails an error is
\* reported for what is published nevertheless.
Measure ==
  /\ task = "size"
  /\ \/ task' = "told" /\ UNCHANGED fault
     \/ MayFail /\ Faulty /\ task' = "unsized"
  /\ UNCHANGED <<had, jobs, sent, pipe, service, dirs, cancel>>

\* TarDecompressor binds the Job of runBlocking, which throws when cancel() came
\* after the decision, so that an error follows onDone; ZstdDecompressor binds
\* none.
Return ==
  /\ task = "told" /\ task' \in {"done"} \cup (IF cancel.at = "over" THEN {"recanted"} ELSE {})
  /\ UNCHANGED <<had, jobs, sent, pipe, service, dirs, cancel, fault>>

-----------------------------------------------------------------------------
(* The two coroutines.                                                     *)

\* A coroutine that fails aborts the pipe before it throws.
Fail(j) ==
  /\ jobs[j] = "failing" /\ Job(j, "threw") /\ pipe' = Abort(pipe)
  /\ UNCHANGED <<task, had, sent, service, dirs, cancel, fault>>

OpenSource ==
  /\ jobs["producer"] = "ready"
  /\ \/ Job("producer", "copy") /\ UNCHANGED fault
     \/ MayFail /\ Faulty /\ Job("producer", "failing")
  /\ UNCHANGED <<task, had, sent, pipe, service, dirs, cancel>>

\* A mutant: a write never waits.
ProduceOver ==
  /\ jobs["producer"] = "copy" /\ sent < N + 1
  /\ pipe' = [pipe EXCEPT !.chunks = @ + 1] /\ sent' = sent + 1
  /\ UNCHANGED <<task, had, jobs, service, dirs, cancel, fault>>

\* A write waits while the pipe is full and fails once no reader is left or
\* the end was closed; a read of the source may fail, also at its very end,
\* where the checksum is.
Produce ==
  /\ jobs["producer"] = "copy"
  /\ \/ /\ ~Broken /\ pipe.chunks < Capacity /\ sent < N + 1
        /\ pipe' = [pipe EXCEPT !.chunks = @ + 1] /\ sent' = sent + 1
        /\ UNCHANGED <<jobs, fault>>
     \/ /\ (Broken /\ sent < N + 1) \/ cancelled
        /\ Job("producer", "failing") /\ UNCHANGED <<sent, pipe, fault>>
     \/ MayFail /\ Faulty /\ Job("producer", "failing") /\ UNCHANGED <<sent, pipe>>
     \/ /\ sent = N + 1 /\ UNCHANGED <<sent, pipe, fault>>
        /\ Job("producer", IF pipe.aborted THEN "failing" ELSE "close")
  /\ UNCHANGED <<task, had, service, dirs, cancel>>

\* The end is closed with the word "ok", unless it was closed already.
CloseWriter ==
  /\ jobs["producer"] = "close" /\ Job("producer", "ok")
  /\ pipe' = IF pipe.writer THEN [pipe EXCEPT !.writer = FALSE, !.word = "ok"] ELSE pipe
  /\ UNCHANGED <<task, had, sent, service, dirs, cancel, fault>>

\* The call carries a duplicate of the read end.
CallRoot ==
  /\ jobs["consumer"] = "ready"
  /\ \/ /\ "local" \in pipe.readers /\ Job("consumer", "waiting")
        /\ pipe' = [pipe EXCEPT !.readers = @ \cup {"root"}]
        /\ root' = [root EXCEPT !.pc = "logs"] /\ UNCHANGED fault
     \/ "local" \notin pipe.readers /\ Job("consumer", "failing")
        /\ UNCHANGED <<pipe, root, fault>>
     \/ MayFail /\ Faulty /\ Job("consumer", "failing") /\ UNCHANGED <<pipe, root>>
  /\ UNCHANGED <<task, had, sent, tar, dirs, files, cancel>>

CallReturns ==
  /\ jobs["consumer"] = "waiting" /\ root.pc \in {"returned", "dead"}
  /\ \/ /\ root.pc = "returned" /\ root.ok /\ Job("consumer", "ok")
        /\ pipe' = [pipe EXCEPT !.readers = @ \ {"local"}]
     \/ /\ root.pc = "dead" \/ ~root.ok \/ cancelled
        /\ Job("consumer", "failing") /\ UNCHANGED pipe
  /\ UNCHANGED <<task, had, sent, service, dirs, cancel, fault>>

-----------------------------------------------------------------------------
(* The root service: extractTarFromFd, extractTarCommand, runTar.          *)

Root(from, to) == root.pc = from /\ root' = [root EXCEPT !.pc = to]
RootFails(from, to) == root.pc = from /\ root' = [pc |-> to, ok |-> FALSE]

\* The log files.  If the second cannot be made the first stays for good.
MakeLogs ==
  /\ \/ Root("logs", "open") /\ files' = Logs /\ UNCHANGED fault
     \/ RootFails("logs", "close") /\ MayFail /\ Faulty /\ UNCHANGED files
     \/ RootFails("logs", "close") /\ MayFail /\ Quietly /\ files' = {"stdout"}
  /\ UNCHANGED <<app, pipe, tar, dirs, cancel>>

\* runTar up to the fork: two exclusive temporary files, the descriptors raised
\* above the standard ones; fail() unlinks what was made.
OpenTemps ==
  /\ \/ Root("open", "fork") /\ files' = files \cup Temps /\ UNCHANGED fault
     \/ RootFails("open", "clean") /\ MayFail /\ Faulty /\ UNCHANGED files
  /\ UNCHANGED <<app, pipe, tar, dirs, cancel>>

\* A mutant: a fork that fails leaves the temporary files.
ForkLeaving ==
  /\ \/ /\ Root("fork", "wait") /\ tar' = [tar EXCEPT !.pc = "exec"]
        /\ pipe' = [pipe EXCEPT !.readers = @ \cup {"tar"}] /\ UNCHANGED <<files, fault>>
     \/ RootFails("fork", "clean") /\ MayFail /\ Faulty /\ UNCHANGED <<files, pipe, tar>>
  /\ UNCHANGED <<app, dirs, cancel>>

Fork ==
  /\ \/ /\ Root("fork", "wait") /\ tar' = [tar EXCEPT !.pc = "exec"]
        /\ pipe' = [pipe EXCEPT !.readers = @ \cup {"tar"}] /\ UNCHANGED <<files, fault>>
     \/ /\ RootFails("fork", "clean") /\ MayFail /\ Faulty
        /\ files' = files \ Temps /\ UNCHANGED <<pipe, tar>>
  /\ UNCHANGED <<app, dirs, cancel>>

\* A mutant: the parent does not look at how the child ended.
WaitAnyhow ==
  /\ tar.pc \in {"ok", "failed"} /\ Root("wait", "clean")
  /\ files' = files \ Temps /\ UNCHANGED <<app, pipe, tar, dirs, cancel, fault>>

\* waitpid, then publishResults: a temporary file is renamed onto its log or
\* unlinked; a rename that fails turns success into failure.
Wait ==
  /\ tar.pc \in {"ok", "failed"}
  /\ \/ tar.pc = "ok" /\ Root("wait", "clean") /\ UNCHANGED fault
     \/ tar.pc = "failed" /\ RootFails("wait", "clean") /\ UNCHANGED fault
     \/ RootFails("wait", "clean") /\ MayFail /\ Faulty
  /\ files' = files \ Temps /\ UNCHANGED <<app, pipe, tar, dirs, cancel>>

\* A mutant: the padding is left in the pipe.
CloseUndrained ==
  /\ Root("clean", "close") /\ files' = files \ Logs
  /\ UNCHANGED <<app, pipe, tar, dirs, cancel, fault>>

CleanLogs ==
  /\ IF root.ok THEN Root("clean", "drain") ELSE Root("clean", "close")
  /\ \/ files' = files \ Logs /\ UNCHANGED fault
     \/ /\ MayFail /\ Quietly
        /\ \E l \in Logs : files' = (files \ Logs) \cup {l}
  /\ UNCHANGED <<app, pipe, tar, dirs, cancel>>

\* The padding is read to the end of the stream, then its writer's word counts.
Drain ==
  /\ root.pc = "drain"
  /\ \/ /\ pipe.chunks > 0 /\ pipe' = [pipe EXCEPT !.chunks = @ - 1] /\ UNCHANGED root
     \/ /\ Eof /\ UNCHANGED pipe
        /\ root' = [pc |-> "close", ok |-> pipe.word = "ok"]
  /\ UNCHANGED <<app, tar, dirs, files, cancel, fault>>

CloseRoot ==
  /\ Root("close", "returned") /\ pipe' = [pipe EXCEPT !.readers = @ \ {"root"}]
  /\ UNCHANGED <<app, tar, dirs, files, cancel, fault>>

-----------------------------------------------------------------------------
(* The tar process.                                                        *)

TarEnds(how) ==
  /\ tar' = [tar EXCEPT !.pc = how] /\ pipe' = [pipe EXCEPT !.readers = @ \ {"tar"}]
  /\ dirs' = IF how = "ok" THEN [dirs EXCEPT !.temp = "whole"] ELSE dirs

\* The child gives up if its parent is gone, a descriptor cannot be moved or
\* tar cannot be executed.
Exec ==
  /\ tar.pc = "exec"
  /\ \/ /\ root.pc # "dead" /\ tar' = [tar EXCEPT !.pc = "read"]
        /\ UNCHANGED <<pipe, dirs, fault>>
     \/ root.pc = "dead" /\ TarEnds("failed") /\ UNCHANGED fault
     \/ MayFail /\ Faulty /\ TarEnds("failed")
  /\ UNCHANGED <<app, root, files, cancel>>

\* tar stops at the end marker; an end before it, any error, and the signal it
\* gets when its parent dies make it fail.
TarRead ==
  /\ tar.pc = "read"
  /\ \/ /\ pipe.chunks > 0 /\ tar.got < N
        /\ pipe' = [pipe EXCEPT !.chunks = @ - 1] /\ tar' = [tar EXCEPT !.got = @ + 1]
        /\ UNCHANGED <<dirs, fault>>
     \/ tar.got = N /\ dirs.temp = "part" /\ TarEnds("ok") /\ UNCHANGED fault
     \/ /\ (Eof /\ tar.got < N) \/ dirs.temp # "part" \/ root.pc = "dead"
        /\ TarEnds("failed") /\ UNCHANGED fault
     \/ MayFail /\ Faulty /\ TarEnds("failed")
  /\ UNCHANGED <<app, root, files, cancel>>

-----------------------------------------------------------------------------
(* cancel(), and deaths of the two processes.                              *)

Cancel ==
  /\ cancel.at = "idle" /\ task \notin {"new", "gone"}
  /\ cancel' = [cancel EXCEPT !.at = "flagged"]
  /\ UNCHANGED <<app, pipe, service, dirs, fault>>

RunClosers ==
  /\ cancel.at = "flagged" /\ task # "gone" /\ cancel' = [cancel EXCEPT !.at = "over"]
  /\ pipe' = IF cancel.tracked THEN Abort(pipe) ELSE pipe
  /\ UNCHANGED <<app, service, dirs, fault>>

Dies == fault.deaths < MaxDeaths /\ fault' = [fault EXCEPT !.deaths = @ + 1]

RootDies ==
  /\ Dies /\ root.pc \notin {"none", "returned", "dead"}
  /\ root' = [pc |-> "dead", ok |-> FALSE]
  /\ pipe' = [pipe EXCEPT !.readers = @ \ {"root"}]
  /\ UNCHANGED <<app, tar, dirs, files, cancel>>

\* The ends of the app close without a word.
AppDies ==
  /\ Dies /\ task \notin Ended \cup {"new", "gone"} /\ task' = "gone"
  /\ jobs' = [j \in DOMAIN jobs |-> "threw"]
  /\ pipe' = [pipe EXCEPT !.writer = FALSE, !.readers = @ \ {"local"}]
  /\ UNCHANGED <<had, sent, service, dirs, cancel>>

-----------------------------------------------------------------------------
Init ==
  /\ task = "new" /\ had = FALSE /\ sent = 0
  /\ jobs = [j \in {"producer", "consumer"} |-> "none"]
  /\ pipe = [chunks |-> 0, writer |-> FALSE, readers |-> {}, word |-> "none",
             aborted |-> FALSE]
  /\ root = [pc |-> "none", ok |-> TRUE] /\ tar = [pc |-> "none", got |-> 0]
  /\ \E t \in {"old", "none"} :
       dirs = [original |-> t, target |-> t, backup |-> "none", temp |-> "none"]
  /\ files = {}
  /\ cancel = [at |-> "idle", tracked |-> FALSE]
  /\ fault = [count |-> 0, silent |-> FALSE, lost |-> FALSE, deaths |-> 0]

Task ==
  \/ MakeScratch \/ Track \/ Launch \/ Join \/ Decide \/ AskTarget
  \/ MoveAway \/ MoveIn \/ MoveBack \/ DropBackup \/ DropTemp \/ Measure \/ Return
Producer == Skip("producer") \/ OpenSource \/ Produce \/ CloseWriter \/ Fail("producer")
Consumer == Skip("consumer") \/ CallRoot \/ CallReturns \/ Fail("consumer")
Service == MakeLogs \/ OpenTemps \/ Fork \/ Wait \/ CleanLogs \/ Drain \/ CloseRoot
Tar == Exec \/ TarRead

Next ==
  \/ Start \/ Task \/ Producer \/ Consumer \/ Service \/ Tar
  \/ Cancel \/ RunClosers \/ RootDies \/ AppDies

Spec == Init /\ [][Next]_vars

\* Threads and processes are scheduled; nothing forces a start, a cancellation,
\* a death or a failing call.
Well == UNCHANGED fault

FairSpec ==
  /\ Spec /\ WF_vars(Task /\ Well) /\ WF_vars(Producer /\ Well) /\ WF_vars(Consumer /\ Well)
  /\ WF_vars(Service /\ Well) /\ WF_vars(Tar /\ Well) /\ WF_vars(RunClosers)

-----------------------------------------------------------------------------
(* Properties                                                              *)

\* Every variable keeps its type.
TypeOK ==
  /\ task \in {"new", "scratch", "track", "tracked", "running", "verdict", "exists",
               "away", "in", "restore", "drop_backup", "clear", "failed", "size",
               "told", "gone"} \cup Ended
  /\ had \in BOOLEAN /\ sent \in 0 .. N + 1
  /\ jobs \in [{"producer", "consumer"} ->
                 {"none", "ready", "copy", "close", "waiting", "failing", "ok", "threw",
                  "skipped"}]
  /\ pipe \in [chunks : 0 .. Capacity, writer : BOOLEAN, readers : SUBSET Readers,
               word : {"none", "ok", "error"}, aborted : BOOLEAN]
  /\ root \in [pc : {"none", "logs", "open", "fork", "wait", "clean", "drain", "close",
                     "returned", "dead"}, ok : BOOLEAN]
  /\ tar \in [pc : {"none", "exec", "read", "ok", "failed"}, got : 0 .. N]
  /\ dirs \in [original : {"old", "none"}, target : Trees, backup : Trees, temp : Trees]
  /\ files \subseteq Logs \cup Temps
  /\ cancel \in [at : {"idle", "flagged", "over"}, tracked : BOOLEAN]
  /\ fault \in [count : 0 .. MaxFaults, silent : BOOLEAN, lost : BOOLEAN,
                deaths : 0 .. MaxDeaths]

\* What the target held is there, or beside it, until the whole new tree is in
\* its place, also when moves fail or a process dies between them.
OldUntilNew == dirs.original \in {dirs.target, dirs.backup} \/ dirs.target = "whole"

\* A new tree is published only from a source that was read to its end without
\* an error, checksum included, and after tar has ended: tar's own success, at
\* the end marker, is not enough.
NewIsVerified ==
  dirs.target \notin {"none", "old"} =>
    /\ dirs.target = "whole" /\ sent = N + 1 /\ tar.pc = "ok" /\ pipe.word = "ok"

\* The verdict is true: after done the new tree is in place; after an error the
\* target is as it was, or what it held is beside it because it could not be
\* moved back.  An error is reported for a new tree that is in place only when
\* the reply to its move was lost, its size could not be asked for, or cancel()
\* came after the decision to publish.
VerdictIsTrue ==
  /\ task \in {"done", "unsized", "recanted"} => dirs.target = "whole"
  /\ task = "recanted" => cancelled
  /\ task = "error" =>
       \/ dirs.target = dirs.original
       \/ dirs.target = "none" /\ dirs.backup = dirs.original
       \/ dirs.target = "whole" /\ fault.lost

\* When a task has ended no descriptor, process, scratch directory or file of
\* it is left, but what a deletion nobody asks about left behind, and what a
\* root service that died could not clean.
QuietAtEnd ==
  task \in Ended =>
    /\ ~pipe.writer /\ "local" \notin pipe.readers
    /\ root.pc # "dead" =>
         /\ pipe.readers = {} /\ tar.pc \notin {"exec", "read"}
         /\ fault.silent \/ (files = {} /\ dirs.temp = "none")

\* An error has a reason: the producer is never cut off by a tar that stopped
\* before the padding.
ErrorHasReason == task = "error" => cancelled \/ fault.count + fault.deaths > 0

\* A task that began ends, whatever fails, dies or is cancelled.
Ends == task = "scratch" ~> task \in Ended \cup {"gone"}
==============================================================================
