-------------------------- MODULE TarExtractProofs --------------------------
(***************************************************************************)
(* TarExtract for every number of chunks, every pipe and any number of     *)
(* failing calls and deaths.  JobsOK, EndsOK, ServiceOK and FilesOK say    *)
(* what the labels of the task, its coroutines, the root service and tar   *)
(* imply about one another, the pipe and the files; DirsOK where the old   *)
(* and the new tree are at each label of the publication; CalmOK that      *)
(* without a fault, a death and a cancel() nothing takes a way out.        *)
(***************************************************************************)
EXTENDS TarExtract, TLAPS

Before == {"new", "scratch", "track", "tracked"}
Published == {"drop_backup", "size", "told", "done", "unsized", "recanted"}
Refused == {"restore", "clear", "failed", "error"}
Publishing == {"exists", "away", "in", "restore", "clear"} \cup Published
Calling == {"logs", "open", "fork", "wait", "clean", "drain", "close"}

Verified == sent = N + 1 /\ tar.pc = "ok" /\ pipe.word = "ok"

-----------------------------------------------------------------------------
(* The invariant.                                                          *)

\* The coroutines run while the task is "running", and a task goes on to publish
\* only if both ended well.
JobsOK ==
  /\ task \in Before => \A j \in DOMAIN jobs : jobs[j] = "none"
  /\ task = "running" => \A j \in DOMAIN jobs : jobs[j] # "none"
  /\ task \notin {"running"} =>
       \A j \in DOMAIN jobs : jobs[j] \in {"none", "ok", "threw", "skipped"}
  /\ task \in {"verdict"} \cup Publishing => \A j \in DOMAIN jobs : jobs[j] = "ok"
  /\ jobs["producer"] # "waiting" /\ jobs["consumer"] \notin {"copy", "close"}
  /\ jobs["producer"] = "close" => sent = N + 1

\* Who holds which end of the pipe; "ok" is the word of a producer at its end, and
\* what was sent is in the pipe or read until tar stops.
EndsOK ==
  /\ task \notin {"track", "tracked", "running"} => ~pipe.writer /\ "local" \notin pipe.readers
  /\ task \in {"new", "scratch", "track"} => ~cancel.tracked
  /\ task \in {"new", "scratch"} => ~pipe.aborted
  /\ pipe.aborted => ~pipe.writer /\ "local" \notin pipe.readers
  /\ "root" \in pipe.readers <=> root.pc \in Calling
  /\ "tar" \in pipe.readers <=> tar.pc \in {"exec", "read"}
  /\ pipe.word = "ok" =>
       sent = N + 1 /\ ~pipe.writer /\ jobs["producer"] \in {"ok", "threw"}
  /\ tar.pc \in {"none", "exec", "read"} => sent = tar.got + pipe.chunks

\* How far the call, the root service and tar are from one another; a call that
\* returns success saw tar succeed and the stream end well, unless it was cancelled.
ServiceOK ==
  /\ jobs["consumer"] \in {"none", "ready", "skipped"} => root.pc = "none"
  /\ jobs["consumer"] = "waiting" => root.pc # "none"
  /\ jobs["consumer"] = "ok" => root.pc = "returned" /\ root.ok
  /\ task # "gone" /\ jobs["consumer"] \in {"failing", "threw"} =>
       root.pc \in {"none", "returned", "dead"}
  /\ root.pc \in {"none", "logs", "open", "fork"} => tar.pc = "none"
  /\ root.pc = "wait" => tar.pc # "none"
  /\ root.pc \in {"clean", "drain", "close", "returned"} => tar.pc \in {"none", "ok", "failed"}
  /\ root.pc \in {"clean", "drain"} /\ root.ok => tar.pc = "ok"
  /\ root.pc \in {"none", "logs", "open", "fork", "wait", "drain"} => root.ok
  /\ root.pc \in {"close", "returned"} /\ root.ok =>
       /\ tar.pc = "ok" /\ sent = N + 1 /\ ~pipe.writer
       /\ pipe.word = "ok" \/ cancelled \/ jobs["consumer"] = "threw"

\* Which files the root service has at each label.
FilesOK ==
  /\ root.pc \in {"none", "logs"} => files = {}
  /\ root.pc \in {"open", "clean"} => files = Logs
  /\ root.pc \in {"fork", "wait"} => files = Logs \cup Temps
  /\ root.pc \in {"drain", "close", "returned"} => files = {} \/ fault.silent

\* The new tree was moved in and the reply to the move was lost.
InUnheard == dirs.target = "whole" /\ fault.lost

\* Where the old tree and the new one are at each label of the publication.
DirsOK ==
  /\ OldUntilNew
  /\ task \in Before \cup {"running", "verdict", "exists"} =>
       dirs.target = dirs.original /\ dirs.backup = "none"
  /\ task = "away" => had /\ dirs.target = "old" /\ dirs.original = "old" /\ dirs.backup = "none"
  /\ task = "in" => \/ had /\ dirs.target = "none" /\ dirs.backup = dirs.original
                    \/ ~had /\ dirs.target = dirs.original /\ dirs.backup = "none"
  /\ task = "restore" => (dirs.target = "none" /\ dirs.backup = dirs.original) \/ InUnheard
  /\ task \in {"clear", "failed", "error"} =>
       \/ dirs.target = dirs.original \/ InUnheard
       \/ dirs.target = "none" /\ dirs.backup = dirs.original
  /\ task \in Published => dirs.target = "whole" /\ dirs.temp = "none"
  /\ dirs.target \notin {"none", "old"} =>
       /\ dirs.target = "whole" /\ Verified
       /\ task \in Published \cup {"gone"} \/ (task \in Refused /\ fault.lost)
  /\ task = "recanted" => cancelled
  /\ task \in Publishing => Verified

\* The scratch directory holds a part until tar has ended well, and goes at last.
TempOK ==
  /\ task \in {"track", "tracked", "running", "verdict", "exists", "away", "in"} =>
       dirs.temp = IF tar.pc = "ok" THEN "whole" ELSE "part"
  /\ task = "error" => dirs.temp = "none" \/ fault.silent \/ root.pc = "dead"

\* Without a cancel(), a failing call and a death nothing leaves the way to success.
Calm == ~cancelled /\ fault.count = 0 /\ fault.deaths = 0
CalmOK ==
  /\ task \notin Refused \cup {"gone", "unsized", "recanted"}
  /\ \A j \in DOMAIN jobs : jobs[j] \notin {"failing", "threw", "skipped"}
  /\ root.ok /\ root.pc # "dead" /\ tar.pc # "failed"
  /\ ~pipe.aborted
  /\ jobs["producer"] = "ok" => pipe.word = "ok"
  /\ task \in {"track", "tracked", "running"} =>
       /\ pipe.writer \/ jobs["producer"] = "ok"
       /\ "local" \in pipe.readers \/ jobs["consumer"] = "ok"
  /\ task = "in" /\ ~had => dirs.target = "none"

\* Inv is inductive; what a calm run adds holds until it is disturbed.
Inv == TypeOK /\ JobsOK /\ EndsOK /\ ServiceOK /\ FilesOK /\ DirsOK /\ TempOK
EInv == Inv /\ (Calm => CalmOK)

-----------------------------------------------------------------------------
(* Operators.                                                              *)

Coroutines == {"producer", "consumer"}
PipeSet == [chunks : 0 .. Capacity, writer : BOOLEAN, readers : SUBSET Readers,
            word : {"none", "ok", "error"}, aborted : BOOLEAN]
DirSet == [original : {"old", "none"}, target : Trees, backup : Trees, temp : Trees]
Labels == {"new", "scratch", "track", "tracked", "running", "verdict", "exists", "away", "in",
           "restore", "drop_backup", "clear", "failed", "size", "told", "gone"} \cup Ended
JobLabels == {"none", "ready", "copy", "close", "waiting", "failing", "ok", "threw", "skipped"}
RootSet == [pc : {"none", "returned", "dead"} \cup Calling, ok : BOOLEAN]
TarSet == [pc : {"none", "exec", "read", "ok", "failed"}, got : 0 .. N]
CancelSet == [at : {"idle", "flagged", "over"}, tracked : BOOLEAN]
FaultSet == [count : 0 .. MaxFaults, silent : BOOLEAN, lost : BOOLEAN,
             deaths : 0 .. MaxDeaths]

\* The first abort leaves both local ends closed, with an error unless both were
\* closed before.
LEMMA Aborted ==
  ASSUME TypeOK, EndsOK
  PROVE  /\ Abort(pipe).aborted /\ ~Abort(pipe).writer /\ Abort(pipe).chunks = pipe.chunks
         /\ Abort(pipe).readers = pipe.readers \ {"local"}
         /\ Abort(pipe).word =
              IF pipe.writer \/ "local" \in pipe.readers THEN "error" ELSE pipe.word
         /\ Abort(pipe) \in PipeSet
<1>1. /\ DOMAIN pipe = {"chunks", "writer", "readers", "word", "aborted"}
      /\ pipe \in PipeSet /\ pipe.readers \subseteq Readers
      /\ pipe.chunks \in 0 .. Capacity /\ pipe.writer \in BOOLEAN
      /\ pipe.word \in {"none", "ok", "error"}
  BY DEF TypeOK, PipeSet
<1>2. CASE pipe.aborted \/ (~pipe.writer /\ "local" \notin pipe.readers)
  <2>1. ~pipe.writer /\ "local" \notin pipe.readers
    BY <1>2 DEF EndsOK
  <2>2. Abort(pipe) = [pipe EXCEPT !.aborted = TRUE]
    BY <1>2 DEF Abort
  <2>3. pipe.readers = pipe.readers \ {"local"}
    BY <2>1
  <2>4. Abort(pipe) \in PipeSet
    BY <1>1, <2>2 DEF PipeSet
  <2>5. Abort(pipe).aborted = TRUE /\ Abort(pipe).writer = pipe.writer
        /\ Abort(pipe).chunks = pipe.chunks /\ Abort(pipe).readers = pipe.readers
        /\ Abort(pipe).word = pipe.word
    BY <1>1, <2>2
  <2>. QED BY <2>1, <2>3, <2>4, <2>5
<1>3. CASE ~pipe.aborted /\ (pipe.writer \/ "local" \in pipe.readers)
  <2>1. Abort(pipe) = [pipe EXCEPT !.aborted = TRUE, !.writer = FALSE,
                                   !.readers = @ \ {"local"}, !.word = "error"]
    BY <1>3 DEF Abort
  <2>2. Abort(pipe) \in PipeSet
    BY <1>1, <2>1 DEF PipeSet, Readers
  <2>3. Abort(pipe).aborted = TRUE /\ Abort(pipe).writer = FALSE
        /\ Abort(pipe).chunks = pipe.chunks
        /\ Abort(pipe).readers = pipe.readers \ {"local"} /\ Abort(pipe).word = "error"
    BY <1>1, <2>1
  <2>. QED BY <1>3, <2>2, <2>3
<1>4. pipe.aborted \in BOOLEAN
  BY DEF TypeOK
<1>. QED BY <1>2, <1>3, <1>4

\* What a failing call adds to fault.
LEMMA Failed ==
  ASSUME TypeOK, MayFail, Faulty \/ Quietly \/ Unheard
  PROVE  /\ fault' \in FaultSet /\ fault'.count > 0
         /\ fault.silent => fault'.silent
         /\ fault.lost => fault'.lost
         /\ Quietly => fault'.silent
         /\ Unheard => fault'.lost
         /\ fault'.deaths = fault.deaths
<1>1. fault \in FaultSet /\ fault.count \in Nat /\ fault.count + 1 \in 0 .. MaxFaults
  BY BoundsAssumption DEF TypeOK, MayFail, FaultSet
<1>2. CASE Faulty
  <2>1. fault' = [fault EXCEPT !.count = fault.count + 1]
    BY <1>2 DEF Faulty
  <2>2. fault' \in FaultSet
    BY <1>1, <2>1 DEF FaultSet
  <2>3. /\ fault'.count = fault.count + 1 /\ fault'.silent = fault.silent
        /\ fault'.lost = fault.lost /\ fault'.deaths = fault.deaths
    BY <1>1, <2>1 DEF FaultSet
  <2>4. (Quietly => fault'.silent) /\ (Unheard => fault'.lost)
    BY <1>1 DEF Quietly, Unheard, FaultSet
  <2>. QED BY <1>1, <2>2, <2>3, <2>4
<1>3. CASE Quietly
  <2>1. fault' = [fault EXCEPT !.count = fault.count + 1, !.silent = TRUE]
    BY <1>3 DEF Quietly
  <2>2. fault' \in FaultSet
    BY <1>1, <2>1 DEF FaultSet
  <2>3. /\ fault'.count = fault.count + 1 /\ fault'.silent = TRUE
        /\ fault'.lost = fault.lost /\ fault'.deaths = fault.deaths
    BY <1>1, <2>1 DEF FaultSet
  <2>4. Unheard => fault'.lost
    BY <1>1 DEF Unheard, FaultSet
  <2>. QED BY <1>1, <2>2, <2>3, <2>4
<1>4. CASE Unheard
  <2>1. fault' = [fault EXCEPT !.count = fault.count + 1, !.lost = TRUE]
    BY <1>4 DEF Unheard
  <2>2. fault' \in FaultSet
    BY <1>1, <2>1 DEF FaultSet
  <2>3. /\ fault'.count = fault.count + 1 /\ fault'.lost = TRUE
        /\ fault'.silent = fault.silent /\ fault'.deaths = fault.deaths
    BY <1>1, <2>1 DEF FaultSet
  <2>4. Quietly => fault'.silent
    BY <1>1 DEF Quietly, FaultSet
  <2>. QED BY <1>1, <2>2, <2>3, <2>4
<1>. QED BY <1>2, <1>3, <1>4

\* A recursive delete touches one tree, and leaves some of it only after a
\* failing call or under a tar that is still writing.
LEMMA Dropped ==
  ASSUME TypeOK, NEW tree \in {"backup", "temp"}, NEW then, Drop(tree, then)
  PROVE  /\ task' = then /\ fault' \in FaultSet /\ (fault.silent => fault'.silent)
         /\ fault.lost => fault'.lost
         /\ fault'.count = 0 => fault.count = 0
         /\ fault'.deaths = fault.deaths
         /\ dirs' \in DirSet /\ dirs'.original = dirs.original /\ dirs'.target = dirs.target
         /\ dirs.backup = "none" => dirs'.backup = "none"
         /\ dirs.temp = "none" => dirs'.temp = "none"
         /\ tree # "temp" => dirs'.temp = dirs.temp
         /\ tree # "backup" => dirs'.backup = dirs.backup
         /\ \/ dirs'[tree] = "none" \/ fault'.silent
            \/ tree = "temp" /\ tar.pc \in {"exec", "read"}
<1>1. dirs \in DirSet /\ fault \in FaultSet
  BY DEF TypeOK, FaultSet, DirSet
<1>2. CASE dirs' = [dirs EXCEPT ![tree] = "none"] /\ UNCHANGED fault
  BY <1>1, <1>2 DEF Drop, Trees, DirSet
<1>3. CASE dirs' = [dirs EXCEPT ![tree] = "part"] /\ dirs[tree] # "none" /\ MayFail /\ Quietly
  BY <1>1, <1>3, Failed DEF Drop, Trees, Quietly, DirSet
<1>4. CASE /\ dirs' = [dirs EXCEPT ![tree] = "part"] /\ dirs[tree] # "none"
           /\ tree = "temp" /\ tar.pc \in {"exec", "read"} /\ UNCHANGED fault
  BY <1>1, <1>4 DEF Drop, Trees, DirSet
<1>. QED BY <1>2, <1>3, <1>4 DEF Drop

\* One way to go through the steps.
LEMMA Steps ==
  ASSUME [Next]_vars
  PROVE  \/ Start \/ MakeScratch \/ Track \/ Launch \/ Join \/ Decide \/ AskTarget \/ MoveAway
         \/ MoveIn \/ MoveBack \/ DropBackup \/ DropTemp \/ Measure \/ Return
         \/ \E j \in Coroutines : Skip(j) \/ Fail(j)
         \/ OpenSource \/ Produce \/ CloseWriter \/ CallRoot \/ CallReturns
         \/ MakeLogs \/ OpenTemps \/ Fork \/ Wait \/ CleanLogs \/ Drain \/ CloseRoot
         \/ Exec \/ TarRead \/ Cancel \/ RunClosers \/ RootDies \/ AppDies
         \/ UNCHANGED vars
BY DEF Next, Task, Producer, Consumer, Service, Tar, Coroutines

USE DEF Before, Published, Refused, Publishing, InUnheard, Calling, Trees, Readers, Logs, Temps,
        Ended, cancelled, app, service, MayFail, Faulty, Quietly, Unheard, Rename, Job, Root,
        RootFails, Dies, Eof, Broken, Move, TarEnds, Verified, OldUntilNew, PipeSet, DirSet,
        FaultSet, Labels, JobLabels, RootSet, TarSet, CancelSet, Coroutines

\* cancel() and faults stay: a calm step started calm.
LEMMA CalmBefore ==
  ASSUME Inv, Calm => CalmOK, Calm', [Next]_vars
  PROVE  Calm /\ CalmOK
<1>. TypeOK
  BY DEF Inv
<1>1. fault.count \in Nat /\ fault.deaths \in Nat
  BY BoundsAssumption DEF TypeOK
<1>2. cancel'.at = "idle" /\ fault'.count = 0 /\ fault'.deaths = 0
  BY DEF Calm
<1>3. CASE Cancel \/ RunClosers \/ Track
  BY <1>1, <1>2, <1>3 DEF TypeOK, Calm, Cancel, RunClosers, Track
<1>4. CASE RootDies \/ AppDies
  BY <1>1, <1>2, <1>4 DEF TypeOK, Calm, RootDies, AppDies
<1>5. CASE DropBackup \/ DropTemp
  BY <1>1, <1>2, <1>5, Dropped DEF Calm, DropBackup, DropTemp
<1>6. CASE Start \/ Launch \/ Join \/ Decide \/ CloseWriter \/ CallReturns \/ Drain
           \/ CloseRoot \/ (\E j \in Coroutines : Skip(j) \/ Fail(j)) \/ UNCHANGED vars
  BY <1>2, <1>6 DEF Calm, Start, Launch, Join, Decide, CloseWriter, CallReturns, Drain,
         CloseRoot, Skip, Fail, vars
<1>7. CASE MakeScratch \/ AskTarget \/ Measure \/ Return \/ OpenSource \/ Produce \/ CallRoot
  BY <1>1, <1>2, <1>7 DEF TypeOK, Calm, MakeScratch, AskTarget, Measure, Return, OpenSource,
         Produce, CallRoot
<1>8. CASE MakeLogs \/ OpenTemps \/ Fork \/ Wait \/ CleanLogs \/ Exec \/ TarRead
  BY <1>1, <1>2, <1>8, Failed DEF TypeOK, Calm, MakeLogs, OpenTemps, Fork, Wait, CleanLogs,
         Exec, TarRead
<1>9. CASE MoveAway \/ MoveIn \/ MoveBack
  <2>1. UNCHANGED fault
    BY <1>2, <1>9, Failed DEF MoveAway, MoveIn, MoveBack
  <2>. QED BY <1>2, <1>9, <2>1 DEF Calm, MoveAway, MoveIn, MoveBack
<1>10. Calm
  BY <1>3, <1>4, <1>5, <1>6, <1>7, <1>8, <1>9, Steps
<1>. QED BY <1>10

-----------------------------------------------------------------------------
(* Types.                                                                  *)

\* The values a conditional Move writes, whatever its outcome.
LEMMA Moved ==
  ASSUME TypeOK, NEW from \in {"target", "backup", "temp"}, NEW to \in {"target", "backup"},
         dirs' = [dirs EXCEPT ![from] = "none", ![to] = dirs[from]]
  PROVE  dirs' \in DirSet
BY DEF TypeOK

\* Every variable keeps its type.
LEMMA TypesNext ==
  ASSUME Inv, [Next]_vars
  PROVE  TypeOK'
<1>. TypeOK /\ JobsOK /\ EndsOK /\ ServiceOK
  BY DEF Inv
<1>1. task' \in Labels
  <2>1. task \in Labels
    BY DEF TypeOK
  <2>2. CASE Start \/ MakeScratch \/ Track \/ Launch \/ Join \/ Decide \/ AskTarget \/ Measure
           \/ Return
    BY <2>1, <2>2, Aborted DEF Start, MakeScratch, Track, Launch, Join,
           Decide, AskTarget, Measure, Return
  <2>3. CASE MoveAway \/ MoveIn \/ MoveBack \/ DropBackup \/ DropTemp \/ AppDies
    BY <2>1, <2>3, Dropped DEF MoveAway, MoveIn, MoveBack, DropBackup,
           DropTemp, AppDies
  <2>4. CASE UNCHANGED task
    BY <2>1, <2>4
  <2>. QED BY <2>2, <2>3, <2>4, Steps DEF vars, Skip, OpenSource, Produce, CloseWriter, Fail,
           CallRoot, CallReturns, MakeLogs, OpenTemps, Fork, Wait, CleanLogs, Drain, CloseRoot,
           Exec, TarRead, Cancel, RunClosers, RootDies
<1>2. had' \in BOOLEAN
  <2>1. CASE AskTarget
    BY <2>1 DEF TypeOK, AskTarget
  <2>2. CASE UNCHANGED had
    BY <2>2 DEF TypeOK
  <2>. QED BY <2>1, <2>2, Steps DEF vars, Start, MakeScratch, Track, Launch, Join, Decide,
           MoveAway, MoveIn, MoveBack, DropBackup, DropTemp, Measure, Return, Skip, OpenSource,
           Produce, CloseWriter, Fail, CallRoot, CallReturns, MakeLogs, OpenTemps, Fork, Wait, CleanLogs,
           Drain, CloseRoot, Exec, TarRead, Cancel, RunClosers, RootDies, AppDies
<1>3. sent' \in 0 .. N + 1
  <2>1. CASE Produce
    BY <2>1, BoundsAssumption DEF TypeOK, Produce
  <2>2. CASE UNCHANGED sent
    BY <2>2 DEF TypeOK
  <2>. QED BY <2>1, <2>2, Steps DEF vars, Start, MakeScratch, Track, Launch, Join, Decide,
           AskTarget, MoveAway, MoveIn, MoveBack, DropBackup, DropTemp, Measure, Return, Skip,
           OpenSource, CloseWriter, Fail, CallRoot, CallReturns, MakeLogs, OpenTemps, Fork,
           Wait, CleanLogs, Drain, CloseRoot, Exec, TarRead, Cancel, RunClosers, RootDies,
           AppDies
<1>4. jobs' \in [Coroutines -> JobLabels]
  <2>1. jobs \in [Coroutines -> JobLabels]
    BY DEF TypeOK
  <2>2. CASE Launch \/ AppDies
    BY <2>1, <2>2, Aborted DEF TypeOK, Launch, AppDies
  <2>3. CASE \E j \in Coroutines : Skip(j) \/ Fail(j)
    BY <2>1, <2>3, Aborted DEF TypeOK, Skip, Fail
  <2>4. CASE OpenSource \/ Produce \/ CloseWriter \/ CallRoot \/ CallReturns
    BY <2>1, <2>4 DEF TypeOK, OpenSource, Produce, CloseWriter, CallRoot,
           CallReturns
  <2>5. CASE UNCHANGED jobs
    BY <2>1, <2>5
  <2>. QED BY <2>2, <2>3, <2>4, <2>5, Steps DEF vars, Start, MakeScratch, Track, Join, Decide,
           AskTarget, MoveAway, MoveIn, MoveBack, DropBackup, DropTemp, Measure, Return, MakeLogs,
           OpenTemps, Fork, Wait, CleanLogs, Drain, CloseRoot, Exec, TarRead, Cancel,
           RunClosers, RootDies
<1>5. pipe' \in PipeSet
  <2>1. pipe \in PipeSet
    BY DEF TypeOK
  <2>2. CASE MakeScratch
    BY <2>1, <2>2 DEF MakeScratch
  <2>3. CASE Join
    BY <2>1, <2>3 DEF Join
  <2>4. CASE AppDies
    BY <2>1, <2>4 DEF AppDies
  <2>5. CASE Launch \/ RunClosers \/ (\E j \in Coroutines : Fail(j))
    BY <2>1, <2>5, Aborted DEF Launch, Fail, RunClosers
  <2>6. CASE Produce
    BY <2>1, <2>6, BoundsAssumption DEF Produce
  <2>7. CASE CloseWriter
    BY <2>1, <2>7 DEF CloseWriter
  <2>8. CASE CallReturns
    BY <2>1, <2>8 DEF CallReturns
  <2>9. CASE CallRoot \/ Fork
    BY <2>1, <2>9 DEF CallRoot, Fork
  <2>10. CASE Drain
    BY <2>1, <2>10, BoundsAssumption DEF Drain
  <2>11. CASE CloseRoot \/ RootDies
    BY <2>1, <2>11 DEF CloseRoot, RootDies
  <2>12. CASE Exec
    BY <2>1, <2>12 DEF Exec
  <2>13. CASE TarRead
    BY <2>1, <2>13, BoundsAssumption DEF TarRead
  <2>14. CASE UNCHANGED pipe
    BY <2>1, <2>14
  <2>. QED BY <2>2, <2>3, <2>4, <2>5, <2>6, <2>7, <2>8, <2>9, <2>10, <2>11, <2>12, <2>13, <2>14,
           Steps DEF vars, Start, Track, Decide, AskTarget, MoveAway, MoveIn, MoveBack,
           DropBackup, DropTemp, Measure, Return, Skip, OpenSource, MakeLogs, OpenTemps, Wait,
           CleanLogs, Cancel
<1>6. root' \in RootSet
  <2>1. root \in RootSet
    BY DEF TypeOK
  <2>2. CASE CallRoot
    BY <2>1, <2>2 DEF CallRoot
  <2>3. CASE MakeLogs
    <3>1. CASE root' = [root EXCEPT !.pc = "open"]
      BY <2>1, <3>1
    <3>2. CASE root' = [pc |-> "close", ok |-> FALSE]
      BY <3>2
    <3>. QED BY <2>3, <3>1, <3>2 DEF MakeLogs
  <2>4. CASE OpenTemps
    <3>1. CASE root' = [root EXCEPT !.pc = "fork"]
      BY <2>1, <3>1
    <3>2. CASE root' = [pc |-> "clean", ok |-> FALSE]
      BY <3>2
    <3>. QED BY <2>4, <3>1, <3>2 DEF OpenTemps
  <2>5. CASE Fork
    <3>1. CASE root' = [root EXCEPT !.pc = "wait"]
      BY <2>1, <3>1
    <3>2. CASE root' = [pc |-> "clean", ok |-> FALSE]
      BY <3>2
    <3>. QED BY <2>5, <3>1, <3>2 DEF Fork
  <2>6. CASE Wait
    <3>1. CASE root' = [root EXCEPT !.pc = "clean"]
      BY <2>1, <3>1
    <3>2. CASE root' = [pc |-> "clean", ok |-> FALSE]
      BY <3>2
    <3>. QED BY <2>6, <3>1, <3>2 DEF Wait
  <2>7. CASE CleanLogs
    BY <2>1, <2>7 DEF CleanLogs
  <2>8. CASE Drain
    <3>1. CASE root' = [pc |-> "close", ok |-> pipe.word = "ok"]
      BY <3>1
    <3>. QED BY <2>1, <2>8, <3>1 DEF Drain
  <2>9. CASE CloseRoot
    BY <2>1, <2>9 DEF CloseRoot
  <2>10. CASE RootDies
    BY <2>1, <2>10 DEF RootDies
  <2>11. CASE UNCHANGED root
    BY <2>1, <2>11
  <2>. QED BY <2>2, <2>3, <2>4, <2>5, <2>6, <2>7, <2>8, <2>9, <2>10, <2>11, Steps DEF vars,
           Start, MakeScratch, Track, Launch, Join, Decide, AskTarget, MoveAway, MoveIn,
           MoveBack, DropBackup, DropTemp, Measure, Return, Skip, OpenSource, Produce, CloseWriter,
           Fail, CallReturns, Exec, TarRead, Cancel, RunClosers, AppDies
<1>7. tar' \in TarSet
  <2>1. tar \in TarSet
    BY DEF TypeOK
  <2>2. CASE Fork
    BY <2>1, <2>2 DEF TypeOK, Fork
  <2>3. CASE Exec \/ TarRead
    BY <2>1, <2>3, BoundsAssumption DEF TypeOK, Exec, TarRead
  <2>4. CASE UNCHANGED tar
    BY <2>1, <2>4
  <2>. QED BY <2>2, <2>3, <2>4, Steps DEF vars, Start, MakeScratch, Track, Launch, Join, Decide,
           AskTarget, MoveAway, MoveIn, MoveBack, DropBackup, DropTemp, Measure, Return, Skip,
           OpenSource, Produce, CloseWriter, Fail, CallRoot, CallReturns, MakeLogs, OpenTemps,
           Wait, CleanLogs, Drain, CloseRoot, Cancel, RunClosers, RootDies, AppDies
<1>8. dirs' \in DirSet
  <2>1. dirs \in DirSet
    BY DEF TypeOK
  <2>2. CASE MakeScratch
    BY <2>1, <2>2 DEF TypeOK, MakeScratch
  <2>3. CASE MoveAway \/ MoveIn \/ MoveBack
    BY <2>1, <2>3, Moved DEF TypeOK, MoveAway, MoveIn, MoveBack
  <2>4. CASE DropBackup \/ DropTemp
    BY <2>1, <2>4, Dropped DEF TypeOK, DropBackup, DropTemp
  <2>5. CASE Exec \/ TarRead
    BY <2>1, <2>5 DEF TypeOK, Exec, TarRead
  <2>6. CASE UNCHANGED dirs
    BY <2>1, <2>6
  <2>. QED BY <2>2, <2>3, <2>4, <2>5, <2>6, Steps DEF vars, Start, Track, Launch, Join, Decide,
           AskTarget, Measure, Return, Skip, OpenSource, Produce, CloseWriter, Fail, CallRoot,
           CallReturns, MakeLogs, OpenTemps, Fork, Wait, CleanLogs, Drain, CloseRoot, Cancel,
           RunClosers, RootDies, AppDies
<1>9. files' \subseteq Logs \cup Temps
  <2>1. CASE MakeLogs \/ OpenTemps \/ Fork \/ Wait \/ CleanLogs
    BY <2>1 DEF TypeOK, MakeLogs, OpenTemps, Fork, Wait, CleanLogs
  <2>2. CASE UNCHANGED files
    BY <2>2 DEF TypeOK
  <2>. QED BY <2>1, <2>2, Steps DEF vars, Start, MakeScratch, Track, Launch, Join, Decide,
           AskTarget, MoveAway, MoveIn, MoveBack, DropBackup, DropTemp, Measure, Return, Skip,
           OpenSource, Produce, CloseWriter, Fail, CallRoot, CallReturns, Drain, CloseRoot,
           Exec, TarRead, Cancel, RunClosers, RootDies, AppDies
<1>10. cancel' \in CancelSet
  <2>1. cancel \in CancelSet
    BY DEF TypeOK
  <2>2. CASE Track \/ Cancel \/ RunClosers
    BY <2>1, <2>2, Aborted DEF Track, Cancel, RunClosers
  <2>3. CASE UNCHANGED cancel
    BY <2>1, <2>3
  <2>. QED BY <2>2, <2>3, Steps DEF vars, Start, MakeScratch, Launch, Join, Decide, AskTarget,
           MoveAway, MoveIn, MoveBack, DropBackup, DropTemp, Measure, Return, Skip, OpenSource,
           Produce, CloseWriter, Fail, CallRoot, CallReturns, MakeLogs, OpenTemps, Fork, Wait, CleanLogs,
           Drain, CloseRoot, Exec, TarRead, RootDies, AppDies
<1>11. fault' \in FaultSet
  <2>1. fault \in FaultSet
    BY DEF TypeOK
  <2>2. CASE MakeScratch \/ AskTarget \/ MoveAway \/ MoveIn \/ MoveBack \/ Measure \/ Return
    BY <2>1, <2>2, Failed DEF TypeOK, MakeScratch, AskTarget, MoveAway,
           MoveIn, MoveBack, Measure, Return
  <2>3. CASE DropBackup \/ DropTemp
    BY <2>1, <2>3, Dropped DEF TypeOK, DropBackup, DropTemp
  <2>4. CASE OpenSource \/ Produce \/ CallRoot
    BY <2>1, <2>4, Failed DEF TypeOK, OpenSource, Produce, CallRoot
  <2>5. CASE MakeLogs \/ OpenTemps \/ Fork \/ Wait \/ CleanLogs \/ Exec \/ TarRead
    BY <2>1, <2>5, Failed DEF TypeOK, MakeLogs, OpenTemps, Fork, Wait,
           CleanLogs, Exec, TarRead
  <2>6. CASE RootDies \/ AppDies
    BY <2>1, <2>6, BoundsAssumption DEF TypeOK, RootDies, AppDies
  <2>7. CASE UNCHANGED fault
    BY <2>1, <2>7
  <2>. QED BY <2>2, <2>3, <2>4, <2>5, <2>6, <2>7, Steps DEF vars, Start, Track, Launch, Join,
           Decide, Skip, CloseWriter, Fail, CallReturns, Drain, CloseRoot, Cancel, RunClosers
<1>. QED BY <1>1, <1>2, <1>3, <1>4, <1>5, <1>6, <1>7, <1>8, <1>9, <1>10, <1>11 DEF TypeOK

-----------------------------------------------------------------------------
(* The steps.                                                              *)

\* The labels of the task and of its two coroutines.
LEMMA JobsNext ==
  ASSUME Inv, [Next]_vars
  PROVE  JobsOK'
<1>. TypeOK /\ JobsOK /\ EndsOK /\ ServiceOK /\ FilesOK /\ DirsOK /\ TempOK
  BY DEF Inv
<1>1. CASE Start \/ MakeScratch \/ Track \/ Join \/ Decide \/ AskTarget
  BY <1>1 DEF JobsOK, TypeOK, Start, MakeScratch, Track, Join, Decide,
         AskTarget
<1>2. CASE Launch
  BY <1>2, Aborted DEF JobsOK, TypeOK, Launch
<1>3. CASE MoveAway \/ MoveIn \/ MoveBack \/ DropBackup \/ DropTemp \/ Measure \/ Return
  BY <1>3, Dropped DEF JobsOK, TypeOK, MoveAway, MoveIn, MoveBack, DropBackup,
         DropTemp, Measure, Return
<1>4. CASE \E j \in Coroutines : Skip(j)
  BY <1>4 DEF JobsOK, TypeOK, Coroutines, Skip
<1>5. CASE OpenSource \/ Produce \/ CallRoot \/ CallReturns
  BY <1>5 DEF JobsOK, TypeOK, OpenSource, Produce, CallRoot, CallReturns
<1>6. CASE CloseWriter
  BY <1>6 DEF JobsOK, TypeOK, CloseWriter
<1>7. CASE \E j \in Coroutines : Fail(j)
  BY <1>7, Aborted DEF JobsOK, TypeOK, Coroutines, Fail
<1>8. CASE MakeLogs \/ OpenTemps \/ Fork \/ Wait \/ CleanLogs \/ Drain
  BY <1>8 DEF JobsOK, TypeOK, MakeLogs, OpenTemps, Fork, Wait, CleanLogs,
         Drain
<1>9. CASE CloseRoot \/ Exec \/ TarRead
  BY <1>9 DEF JobsOK, TypeOK, CloseRoot, Exec, TarRead
<1>10. CASE Cancel \/ RunClosers \/ RootDies
  BY <1>10, Aborted DEF JobsOK, TypeOK, Cancel, RunClosers, RootDies
<1>11. CASE AppDies
  BY <1>11 DEF JobsOK, TypeOK, AppDies
<1>12. CASE UNCHANGED vars
  BY <1>12 DEF vars, JobsOK
<1>. QED BY <1>1, <1>2, <1>3, <1>4, <1>5, <1>6, <1>7, <1>8, <1>9, <1>10, <1>11, <1>12, Steps

\* The ends of the pipe, its word and its chunks.
LEMMA EndsNext ==
  ASSUME Inv, [Next]_vars
  PROVE  EndsOK'
<1>. TypeOK /\ JobsOK /\ EndsOK /\ ServiceOK /\ FilesOK /\ DirsOK /\ TempOK
  BY DEF Inv
<1>1. CASE Start \/ Track
  BY <1>1 DEF EndsOK, TypeOK, Start, Track
<1>2. CASE MakeScratch
  <2>1. /\ task = "scratch" /\ \A j \in DOMAIN jobs : jobs[j] = "none"
        /\ root.pc = "none" /\ tar.pc = "none" /\ pipe.word # "ok"
        /\ ~pipe.aborted /\ ~cancel.tracked
    BY <1>2 DEF MakeScratch, TypeOK, JobsOK, EndsOK, ServiceOK
  <2>2. UNCHANGED <<jobs, sent, root, tar, cancel>> /\ task' \in {"track", "failed"}
    BY <1>2 DEF MakeScratch
  <2>3. CASE task' = "failed" /\ UNCHANGED pipe
    BY <2>1, <2>2, <2>3 DEF EndsOK
  <2>4. CASE task' = "track" /\ pipe' = [pipe EXCEPT !.writer = TRUE, !.readers = {"local"}]
    <3>1. /\ pipe'.writer = TRUE /\ pipe'.readers = {"local"} /\ pipe'.word = pipe.word
          /\ pipe'.aborted = pipe.aborted /\ pipe'.chunks = pipe.chunks
      BY <2>4 DEF TypeOK
    <3>. QED BY <2>1, <2>2, <2>4, <3>1 DEF EndsOK
  <2>. QED BY <1>2, <2>3, <2>4 DEF MakeScratch
<1>3. CASE Launch
  BY <1>3, Aborted DEF EndsOK, TypeOK, JobsOK, Launch
<1>4. CASE Join
  BY <1>4 DEF EndsOK, TypeOK, Join
<1>5. CASE Decide \/ AskTarget \/ MoveAway
  BY <1>5 DEF EndsOK, TypeOK, Decide, AskTarget, MoveAway
<1>6. CASE MoveIn \/ MoveBack \/ DropBackup \/ DropTemp \/ Measure \/ Return
  BY <1>6, Dropped DEF EndsOK, TypeOK, MoveIn, MoveBack, DropBackup, DropTemp,
         Measure, Return
<1>7. CASE \E j \in Coroutines : Skip(j)
  BY <1>7 DEF EndsOK, TypeOK, Coroutines, Skip
<1>8. CASE OpenSource
  BY <1>8 DEF EndsOK, TypeOK, OpenSource
<1>9. CASE Produce \/ CallRoot
  BY <1>9 DEF EndsOK, TypeOK, Produce, CallRoot
<1>10. CASE CloseWriter
  BY <1>10 DEF EndsOK, TypeOK, JobsOK, CloseWriter
<1>11. CASE \E j \in Coroutines : Fail(j)
  BY <1>11, Aborted DEF EndsOK, TypeOK, JobsOK, Coroutines, Fail
<1>12. CASE CallReturns
  BY <1>12 DEF EndsOK, TypeOK, CallReturns
<1>13. CASE MakeLogs \/ OpenTemps \/ Wait \/ CleanLogs \/ Exec \/ TarRead
  BY <1>13 DEF EndsOK, TypeOK, MakeLogs, OpenTemps, Wait, CleanLogs, Exec,
         TarRead
<1>14. CASE Fork
  BY <1>14 DEF EndsOK, TypeOK, ServiceOK, Fork
<1>15. CASE Drain
  BY <1>15 DEF EndsOK, TypeOK, ServiceOK, Drain
<1>16. CASE CloseRoot
  BY <1>16 DEF EndsOK, TypeOK, CloseRoot
<1>17. CASE Cancel
  BY <1>17 DEF EndsOK, TypeOK, Cancel
<1>18. CASE RunClosers
  BY <1>18, Aborted DEF EndsOK, TypeOK, RunClosers
<1>19. CASE RootDies
  BY <1>19 DEF EndsOK, TypeOK, RootDies
<1>20. CASE AppDies
  BY <1>20 DEF EndsOK, TypeOK, AppDies
<1>21. CASE UNCHANGED vars
  BY <1>21 DEF vars, EndsOK
<1>. QED BY <1>1, <1>2, <1>3, <1>4, <1>5, <1>6, <1>7, <1>8, <1>9, <1>10, <1>11, <1>12, <1>13,
             <1>14, <1>15, <1>16, <1>17, <1>18, <1>19, <1>20, <1>21, Steps

\* The call, the root service and tar.
LEMMA ServiceNext ==
  ASSUME Inv, [Next]_vars
  PROVE  ServiceOK'
<1>. TypeOK /\ JobsOK /\ EndsOK /\ ServiceOK /\ FilesOK /\ DirsOK /\ TempOK
  BY DEF Inv
<1>1. CASE Start
  BY <1>1 DEF ServiceOK, TypeOK, Start
<1>2. CASE MakeScratch
  BY <1>2 DEF ServiceOK, TypeOK, JobsOK, MakeScratch
<1>3. CASE Track
  BY <1>3 DEF ServiceOK, TypeOK, Track
<1>4. CASE Launch
  BY <1>4, Aborted DEF ServiceOK, TypeOK, JobsOK, Launch
<1>5. CASE Join
  BY <1>5 DEF ServiceOK, TypeOK, Join
<1>6. CASE Decide \/ AskTarget \/ MoveAway
  BY <1>6 DEF ServiceOK, TypeOK, Decide, AskTarget, MoveAway
<1>7. CASE MoveIn \/ MoveBack \/ DropBackup \/ DropTemp \/ Measure \/ Return
  BY <1>7, Dropped DEF ServiceOK, TypeOK, MoveIn, MoveBack, DropBackup,
         DropTemp, Measure, Return
<1>8. CASE \E j \in Coroutines : Skip(j)
  BY <1>8 DEF ServiceOK, TypeOK, Coroutines, Skip
<1>9. CASE OpenSource \/ Produce \/ CallReturns
  BY <1>9 DEF ServiceOK, TypeOK, OpenSource, Produce, CallReturns
<1>10. CASE CloseWriter
  BY <1>10 DEF ServiceOK, TypeOK, CloseWriter
<1>11. CASE \E j \in Coroutines : Fail(j)
  BY <1>11, Aborted DEF ServiceOK, TypeOK, EndsOK, Coroutines, Fail
<1>12. CASE CallRoot
  BY <1>12 DEF ServiceOK, TypeOK, JobsOK, CallRoot
<1>13. CASE MakeLogs \/ OpenTemps \/ Fork \/ Wait \/ CleanLogs \/ Exec
  BY <1>13 DEF ServiceOK, TypeOK, MakeLogs, OpenTemps, Fork, Wait, CleanLogs,
         Exec
<1>14. CASE Drain
  BY <1>14 DEF ServiceOK, TypeOK, EndsOK, Drain
<1>15. CASE CloseRoot
  BY <1>15 DEF ServiceOK, TypeOK, CloseRoot
<1>16. CASE TarRead
  BY <1>16 DEF ServiceOK, TypeOK, TarRead
<1>17. CASE Cancel
  BY <1>17 DEF ServiceOK, TypeOK, Cancel
<1>18. CASE RunClosers
  BY <1>18, Aborted DEF ServiceOK, TypeOK, RunClosers
<1>19. CASE RootDies
  BY <1>19 DEF ServiceOK, TypeOK, RootDies
<1>20. CASE AppDies
  BY <1>20 DEF ServiceOK, TypeOK, AppDies
<1>21. CASE UNCHANGED vars
  BY <1>21 DEF vars, ServiceOK
<1>. QED BY <1>1, <1>2, <1>3, <1>4, <1>5, <1>6, <1>7, <1>8, <1>9, <1>10, <1>11, <1>12, <1>13,
             <1>14, <1>15, <1>16, <1>17, <1>18, <1>19, <1>20, <1>21, Steps

\* The files of the root service.
LEMMA FilesNext ==
  ASSUME Inv, [Next]_vars
  PROVE  FilesOK'
<1>. TypeOK /\ JobsOK /\ EndsOK /\ ServiceOK /\ FilesOK /\ DirsOK /\ TempOK
  BY DEF Inv
<1>1. CASE Start \/ Track \/ Launch \/ Join \/ Decide
  BY <1>1, Aborted DEF FilesOK, TypeOK, Start, Track, Launch, Join, Decide
<1>2. CASE MakeScratch \/ AskTarget \/ MoveAway \/ MoveIn \/ MoveBack \/ Measure \/ Return
  BY <1>2, Failed DEF FilesOK, TypeOK, MakeScratch, AskTarget, MoveAway,
         MoveIn, MoveBack, Measure, Return
<1>3. CASE DropBackup
  BY <1>3, Dropped DEF FilesOK, TypeOK, DropBackup
<1>4. CASE DropTemp
  BY <1>4, Dropped DEF FilesOK, TypeOK, DropTemp
<1>5. CASE (\E j \in Coroutines : Skip(j)) \/ CloseWriter \/ (\E j \in Coroutines : Fail(j)) \/
         CallReturns
  BY <1>5, Aborted DEF FilesOK, TypeOK, Coroutines, Skip, CloseWriter, Fail,
         CallReturns
<1>6. CASE OpenSource \/ Produce
  BY <1>6, Failed DEF FilesOK, TypeOK, OpenSource, Produce
<1>7. CASE CallRoot
  BY <1>7, Failed DEF FilesOK, TypeOK, ServiceOK, CallRoot
<1>8. CASE MakeLogs
  BY <1>8, Failed DEF FilesOK, TypeOK, MakeLogs
<1>9. CASE OpenTemps \/ Fork \/ Wait
  BY <1>9, Failed DEF FilesOK, TypeOK, OpenTemps, Fork, Wait
<1>10. CASE CleanLogs
  BY <1>10, Failed DEF FilesOK, TypeOK, CleanLogs
<1>11. CASE Drain
  BY <1>11 DEF FilesOK, TypeOK, Drain
<1>12. CASE CloseRoot
  BY <1>12 DEF FilesOK, TypeOK, CloseRoot
<1>13. CASE Exec \/ TarRead
  BY <1>13, Failed DEF FilesOK, TypeOK, ServiceOK, Exec, TarRead
<1>14. CASE Cancel \/ RunClosers
  BY <1>14, Aborted DEF FilesOK, TypeOK, Cancel, RunClosers
<1>15. CASE RootDies
  BY <1>15 DEF FilesOK, TypeOK, RootDies
<1>16. CASE AppDies
  BY <1>16 DEF FilesOK, TypeOK, AppDies
<1>17. CASE UNCHANGED vars
  BY <1>17 DEF vars, FilesOK
<1>. QED BY <1>1, <1>2, <1>3, <1>4, <1>5, <1>6, <1>7, <1>8, <1>9, <1>10, <1>11, <1>12, <1>13,
             <1>14, <1>15, <1>16, <1>17, Steps

\* The old and the new tree.
LEMMA DirsNext ==
  ASSUME Inv, [Next]_vars
  PROVE  DirsOK'
<1>. TypeOK /\ JobsOK /\ EndsOK /\ ServiceOK /\ FilesOK /\ DirsOK /\ TempOK
  BY DEF Inv
<1>1. CASE Start \/ Track \/ Launch \/ Join \/ Measure \/ Return
  BY <1>1, Aborted DEF DirsOK, TypeOK, Start, Track, Launch, Join, Measure, Return
<1>2. CASE MakeScratch \/ MoveBack \/ DropBackup \/ DropTemp
  <2>1. CASE MakeScratch
    BY <1>2, <2>1 DEF DirsOK, TypeOK, MakeScratch
  <2>2. CASE MoveBack
    <3>1. fault.lost => fault'.lost
      BY <2>2, Failed DEF MoveBack
    <3>2. /\ task' = "clear" /\ UNCHANGED <<had, jobs, sent, pipe, tar, cancel>>
          /\ UNCHANGED dirs \/ Rename("backup", "target")
      BY <2>2 DEF MoveBack
    <3>. QED BY <2>2, <3>1, <3>2 DEF DirsOK, TypeOK, MoveBack
  <2>3. CASE DropBackup \/ DropTemp
    BY <2>3, Dropped DEF DirsOK, TypeOK, DropBackup, DropTemp
  <2>. QED BY <1>2, <2>1, <2>2, <2>3
<1>3. CASE Decide
  BY <1>3 DEF DirsOK, TypeOK, JobsOK, ServiceOK, Decide
<1>4. CASE AskTarget
  BY <1>4 DEF DirsOK, TypeOK, EndsOK, AskTarget
<1>5. CASE MoveAway
  BY <1>5 DEF DirsOK, TypeOK, EndsOK, MoveAway
<1>6. CASE MoveIn
  <2>1. UNCHANGED <<had, jobs, sent, pipe, tar, cancel>> /\ Verified
    BY <1>6 DEF DirsOK, MoveIn
  <2>2. CASE Rename("temp", "target") /\ task' = IF had THEN "drop_backup" ELSE "size"
    BY <1>6, <2>1, <2>2 DEF DirsOK, TypeOK, TempOK, MoveIn
  <2>3. CASE UNCHANGED dirs /\ task' = IF had THEN "restore" ELSE "clear"
    BY <1>6, <2>1, <2>3 DEF DirsOK, TypeOK, MoveIn
  <2>4. CASE /\ MayFail /\ Unheard /\ Rename("temp", "target")
             /\ task' = IF had THEN "restore" ELSE "clear"
    <3>1. fault'.lost
      BY <2>4, Failed
    <3>2. dirs'.target = "whole" /\ dirs'.backup = dirs.backup /\ dirs'.original = dirs.original
      BY <1>6, <2>1, <2>4 DEF TempOK, TypeOK, MoveIn
    <3>. QED BY <1>6, <2>1, <2>4, <3>1, <3>2 DEF DirsOK, TypeOK, MoveIn
  <2>. QED BY <1>6, <2>2, <2>3, <2>4 DEF MoveIn
<1>7. CASE (\E j \in Coroutines : Skip(j)) \/ OpenSource
  BY <1>7 DEF DirsOK, TypeOK, Coroutines, Skip, OpenSource
<1>8. CASE Produce
  BY <1>8 DEF DirsOK, TypeOK, Produce
<1>9. CASE CloseWriter
  BY <1>9 DEF DirsOK, TypeOK, CloseWriter
<1>10. CASE (\E j \in Coroutines : Fail(j)) \/ CallRoot
  BY <1>10, Aborted DEF DirsOK, TypeOK, EndsOK, Coroutines, Fail, CallRoot
<1>11. CASE CallReturns
  BY <1>11 DEF DirsOK, TypeOK, CallReturns
<1>12. CASE MakeLogs \/ OpenTemps \/ Wait
  <2>1. fault.lost => fault'.lost
    BY <1>12, Failed DEF MakeLogs, OpenTemps, Wait
  <2>. QED BY <1>12, <2>1 DEF DirsOK, TypeOK, MakeLogs, OpenTemps, Wait
<1>13. CASE Fork
  BY <1>13 DEF DirsOK, TypeOK, ServiceOK, Fork
<1>14. CASE CleanLogs
  <2>1. fault.lost => fault'.lost
    BY <1>14, Failed DEF CleanLogs
  <2>2. UNCHANGED <<task, had, jobs, sent, pipe, tar, dirs, cancel>>
    BY <1>14 DEF CleanLogs
  <2>. QED BY <2>1, <2>2 DEF DirsOK
<1>15. CASE Drain \/ TarRead
  BY <1>15 DEF DirsOK, TypeOK, Drain, TarRead
<1>16. CASE CloseRoot
  BY <1>16 DEF DirsOK, TypeOK, CloseRoot
<1>17. CASE Exec
  BY <1>17 DEF DirsOK, TypeOK, Exec
<1>18. CASE Cancel
  BY <1>18 DEF DirsOK, TypeOK, Cancel
<1>19. CASE RunClosers
  BY <1>19, Aborted DEF DirsOK, TypeOK, EndsOK, RunClosers
<1>20. CASE RootDies
  BY <1>20 DEF DirsOK, TypeOK, RootDies
<1>21. CASE AppDies
  BY <1>21 DEF DirsOK, TypeOK, AppDies
<1>22. CASE UNCHANGED vars
  BY <1>22 DEF vars, DirsOK
<1>. QED BY <1>1, <1>2, <1>3, <1>4, <1>5, <1>6, <1>7, <1>8, <1>9, <1>10, <1>11, <1>12, <1>13,
             <1>14, <1>15, <1>16, <1>17, <1>18, <1>19, <1>20, <1>21, <1>22, Steps

\* The scratch directory.
LEMMA TempNext ==
  ASSUME Inv, [Next]_vars
  PROVE  TempOK'
<1>. TypeOK /\ JobsOK /\ EndsOK /\ ServiceOK /\ FilesOK /\ DirsOK /\ TempOK
  BY DEF Inv
<1>1. CASE Start \/ Track \/ Launch \/ Join \/ Decide \/ AskTarget
  BY <1>1, Aborted DEF TempOK, TypeOK, Start, Track, Launch, Join, Decide,
         AskTarget
<1>2. CASE MakeScratch
  BY <1>2, Failed DEF TempOK, TypeOK, JobsOK, ServiceOK, MakeScratch
<1>3. CASE MoveAway
  BY <1>3 DEF TempOK, TypeOK, MoveAway
<1>4. CASE MoveIn \/ MoveBack \/ DropBackup \/ Measure \/ Return
  BY <1>4, Dropped DEF TempOK, TypeOK, MoveIn, MoveBack, DropBackup, Measure, Return
<1>5. CASE DropTemp
  BY <1>5, Dropped DEF TempOK, TypeOK, JobsOK, EndsOK, ServiceOK, DropTemp
<1>6. CASE (\E j \in Coroutines : Skip(j)) \/ CloseWriter \/ (\E j \in Coroutines : Fail(j)) \/
         CallReturns
  BY <1>6, Aborted DEF TempOK, TypeOK, Coroutines, Skip, CloseWriter, Fail,
         CallReturns
<1>7. CASE OpenSource \/ Produce
  BY <1>7 DEF TempOK, TypeOK, OpenSource, Produce
<1>8. CASE CallRoot
  BY <1>8 DEF TempOK, TypeOK, EndsOK, CallRoot
<1>9. CASE MakeLogs
  BY <1>9, Failed DEF TempOK, TypeOK, MakeLogs
<1>10. CASE OpenTemps \/ Wait \/ Exec \/ TarRead
  BY <1>10 DEF TempOK, TypeOK, OpenTemps, Wait, Exec, TarRead
<1>11. CASE Fork
  BY <1>11 DEF TempOK, TypeOK, ServiceOK, Fork
<1>12. CASE CleanLogs
  BY <1>12, Failed DEF TempOK, TypeOK, CleanLogs
<1>13. CASE Drain \/ CloseRoot
  BY <1>13 DEF TempOK, TypeOK, Drain, CloseRoot
<1>14. CASE Cancel \/ RunClosers \/ RootDies \/ AppDies
  BY <1>14, Aborted DEF TempOK, TypeOK, Cancel, RunClosers, RootDies, AppDies
<1>15. CASE UNCHANGED vars
  BY <1>15 DEF vars, TempOK
<1>. QED BY <1>1, <1>2, <1>3, <1>4, <1>5, <1>6, <1>7, <1>8, <1>9, <1>10, <1>11, <1>12, <1>13,
             <1>14, <1>15, Steps

\* Without a fault, a death and a cancel().
LEMMA CalmNext ==
  ASSUME Inv, Calm => CalmOK, Calm', [Next]_vars
  PROVE  CalmOK'
<1>. CalmOK /\ Calm
  BY CalmBefore
<1>. TypeOK /\ JobsOK /\ EndsOK /\ ServiceOK /\ DirsOK /\ TempOK
  BY DEF Inv
<1>1. CASE Start \/ Track
  BY <1>1 DEF CalmOK, TypeOK, Calm, Start, Track
<1>2. CASE MakeScratch
  <2>1. \A j \in DOMAIN jobs : jobs[j] = "none"
    BY <1>2 DEF MakeScratch, JobsOK
  <2>2. ~MayFail \/ ~Faulty
    BY Failed DEF Calm
  <2>3. /\ UNCHANGED <<jobs, root, tar>> /\ task' = "track"
        /\ pipe' = [pipe EXCEPT !.writer = TRUE, !.readers = {"local"}]
    BY <1>2, <2>2 DEF MakeScratch
  <2>4. pipe'.writer = TRUE /\ pipe'.readers = {"local"} /\ pipe'.aborted = pipe.aborted
    BY <2>3 DEF TypeOK
  <2>. QED BY <2>1, <2>3, <2>4 DEF CalmOK, TypeOK
<1>3. CASE Launch
  BY <1>3, Aborted DEF CalmOK, TypeOK, JobsOK, Calm, Launch
<1>4. CASE Join
  BY <1>4 DEF CalmOK, TypeOK, Calm, Join
<1>5. CASE Decide \/ MoveBack \/ DropBackup
  BY <1>5, Dropped DEF CalmOK, TypeOK, Calm, Decide, MoveBack, DropBackup
<1>6. CASE AskTarget \/ Measure \/ Return
  BY <1>6 DEF CalmOK, TypeOK, Calm, AskTarget, Measure, Return
<1>7. CASE MoveAway
  <2>1. ~(MayFail /\ (Faulty \/ Unheard))
    BY Failed DEF Calm
  <2>2. task' = "in" /\ UNCHANGED <<had, jobs, sent, pipe, root, tar>> /\ had
    BY <1>7, <2>1 DEF DirsOK, MoveAway
  <2>. QED BY <2>2 DEF CalmOK, TypeOK
<1>8. CASE MoveIn
  <2>1. ~(MayFail /\ (Faulty \/ Unheard))
    BY Failed DEF Calm
  <2>2. dirs.target = "none" /\ dirs.temp = "whole"
    BY <1>8 DEF DirsOK, TempOK, CalmOK, MoveIn
  <2>3. /\ task' \in {"drop_backup", "size"}
        /\ UNCHANGED <<had, jobs, sent, pipe, root, tar>>
    BY <1>8, <2>1, <2>2 DEF MoveIn
  <2>. QED BY <2>3 DEF CalmOK, TypeOK
<1>9. CASE DropTemp
  BY <1>9, Dropped DEF CalmOK, TypeOK, Calm, DropTemp
<1>10. CASE \E j \in Coroutines : Skip(j)
  BY <1>10 DEF CalmOK, TypeOK, Calm, Coroutines, Skip
<1>11. CASE OpenSource \/ (\E j \in Coroutines : Fail(j)) \/ CallReturns
  BY <1>11, Aborted DEF CalmOK, TypeOK, Calm, Coroutines, OpenSource, Fail,
         CallReturns
<1>12. CASE Produce
  BY <1>12 DEF CalmOK, TypeOK, JobsOK, ServiceOK, Calm, Produce
<1>13. CASE CloseWriter
  BY <1>13 DEF CalmOK, TypeOK, JobsOK, Calm, CloseWriter
<1>14. CASE CallRoot
  BY <1>14 DEF CalmOK, TypeOK, JobsOK, Calm, CallRoot
<1>15. CASE MakeLogs
  BY <1>15, Failed DEF CalmOK, TypeOK, Calm, MakeLogs
<1>16. CASE OpenTemps \/ Fork \/ Wait \/ CleanLogs \/ Exec
  BY <1>16 DEF CalmOK, TypeOK, Calm, OpenTemps, Fork, Wait, CleanLogs, Exec
<1>17. CASE Drain
  BY <1>17 DEF CalmOK, TypeOK, JobsOK, ServiceOK, Calm, Drain
<1>18. CASE CloseRoot
  BY <1>18 DEF CalmOK, TypeOK, Calm, CloseRoot
<1>19. CASE TarRead
  BY <1>19, BoundsAssumption DEF CalmOK, TypeOK, JobsOK, EndsOK, ServiceOK, DirsOK, TempOK,
         Calm, TarRead
<1>20. CASE Cancel \/ RunClosers
  BY <1>20, Aborted DEF CalmOK, TypeOK, Calm, Cancel, RunClosers
<1>21. CASE RootDies
  BY <1>21 DEF CalmOK, TypeOK, Calm, RootDies
<1>22. CASE AppDies
  BY <1>22 DEF CalmOK, TypeOK, Calm, AppDies
<1>23. CASE UNCHANGED vars
  BY <1>23 DEF vars, CalmOK, Calm
<1>. QED BY <1>1, <1>2, <1>3, <1>4, <1>5, <1>6, <1>7, <1>8, <1>9, <1>10, <1>11, <1>12, <1>13,
             <1>14, <1>15, <1>16, <1>17, <1>18, <1>19, <1>20, <1>21, <1>22, <1>23, Steps

-----------------------------------------------------------------------------
(* The invariant and what follows from it.                                 *)

LEMMA InitOK ==
  ASSUME Init
  PROVE  EInv
<1>1. TypeOK
  <2>1. jobs \in [Coroutines -> JobLabels] /\ pipe \in PipeSet /\ fault \in FaultSet
    BY BoundsAssumption DEF Init
  <2>2. root \in RootSet /\ tar \in TarSet /\ dirs \in DirSet /\ cancel \in CancelSet
    BY BoundsAssumption DEF Init
  <2>3. task \in Labels /\ had \in BOOLEAN /\ files \subseteq Logs \cup Temps
    BY DEF Init
  <2>4. sent \in 0 .. N + 1
    BY BoundsAssumption DEF Init
  <2>. QED BY <2>1, <2>2, <2>3, <2>4 DEF TypeOK
<1>2. JobsOK /\ EndsOK
  BY BoundsAssumption DEF Init, JobsOK, EndsOK
<1>3. ServiceOK /\ FilesOK /\ DirsOK /\ TempOK
  BY DEF Init, ServiceOK, FilesOK, DirsOK, TempOK
<1>4. CalmOK
  BY DEF Init, CalmOK
<1>. QED BY <1>1, <1>2, <1>3, <1>4 DEF Inv, EInv

LEMMA Preserved ==
  ASSUME EInv, [Next]_vars
  PROVE  EInv'
<1>1. Inv'
  BY TypesNext, JobsNext, EndsNext, ServiceNext, FilesNext, DirsNext, TempNext DEF Inv, EInv
<1>2. (Calm => CalmOK)'
  BY CalmNext DEF EInv
<1>. QED BY <1>1, <1>2 DEF EInv

LEMMA Invariant == Spec => []EInv
BY InitOK, Preserved, PTL DEF Spec

\* Every variable keeps its type, whatever the number of chunks, the capacity of
\* the pipe and the failures.
THEOREM TypeCorrect == Spec => []TypeOK
<1>1. EInv => TypeOK
  BY DEF EInv, Inv
<1>. QED BY <1>1, Invariant, PTL

\* streamDecompress never loses what the target held: until the whole new tree is
\* in place it is at the target or at the backup beside it.
THEOREM OldIsKept == Spec => []OldUntilNew
<1>1. EInv => OldUntilNew
  BY DEF EInv, Inv, DirsOK
<1>. QED BY <1>1, Invariant, PTL

\* What streamDecompress publishes was read to its end without an error, and
\* unpacked by a tar that succeeded.
THEOREM PublishedIsVerified == Spec => []NewIsVerified
<1>1. EInv => NewIsVerified
  BY DEF EInv, Inv, DirsOK, NewIsVerified
<1>. QED BY <1>1, Invariant, PTL

\* The verdict of a decompress task tells whether the new tree is in place, but for
\* a move whose reply was lost; an error after the success was told needs a cancel().
THEOREM VerdictHolds == Spec => []VerdictIsTrue
<1>1. EInv => VerdictIsTrue
  BY DEF EInv, Inv, DirsOK, VerdictIsTrue
<1>. QED BY <1>1, Invariant, PTL

\* A decompress task that ended leaves nothing behind but what a deletion nobody
\* asks about, or a root service that died, left.
THEOREM EndIsQuiet == Spec => []QuietAtEnd
<1>1. ASSUME EInv, task \in Ended
      PROVE  QuietAtEnd
  <2>. TypeOK /\ JobsOK /\ EndsOK /\ ServiceOK /\ FilesOK /\ DirsOK /\ TempOK
    BY <1>1 DEF EInv, Inv
  <2>1. ~pipe.writer /\ "local" \notin pipe.readers
    BY <1>1 DEF EndsOK
  <2>2. jobs["consumer"] \in {"none", "ok", "threw", "skipped"}
    BY <1>1 DEF JobsOK, TypeOK
  <2>3. root.pc \in {"none", "returned", "dead"}
    BY <1>1, <2>2 DEF ServiceOK
  <2>4. ASSUME root.pc # "dead"
        PROVE  /\ pipe.readers = {} /\ tar.pc \notin {"exec", "read"}
               /\ fault.silent \/ (files = {} /\ dirs.temp = "none")
    <3>1. tar.pc \notin {"exec", "read"}
      BY <2>3, <2>4 DEF ServiceOK
    <3>2. pipe.readers = {}
      BY <2>1, <2>3, <3>1 DEF EndsOK, TypeOK
    <3>3. fault.silent \/ files = {}
      BY <2>3, <2>4 DEF FilesOK
    <3>4. fault.silent \/ dirs.temp = "none"
      BY <1>1, <2>4 DEF DirsOK, TempOK
    <3>. QED BY <3>1, <3>2, <3>3, <3>4
  <2>. QED BY <2>1, <2>4 DEF QuietAtEnd
<1>2. EInv => QuietAtEnd
  BY <1>1 DEF QuietAtEnd
<1>. QED BY <1>2, Invariant, PTL

\* A decompress task fails only after a cancel(), a failing call or a death; the
\* padding after the end marker does not make it fail.
THEOREM ErrorsHaveReasons == Spec => []ErrorHasReason
<1>1. ASSUME EInv, task = "error"
      PROVE  cancelled \/ fault.count + fault.deaths > 0
  <2>1. fault.count \in Nat /\ fault.deaths \in Nat
    BY <1>1 DEF EInv, Inv, TypeOK
  <2>2. ~Calm
    BY <1>1 DEF EInv, CalmOK
  <2>. QED BY <2>1, <2>2 DEF Calm
<1>2. EInv => ErrorHasReason
  BY <1>1 DEF ErrorHasReason
<1>. QED BY <1>2, Invariant, PTL

=============================================================================
