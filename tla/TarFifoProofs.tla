---------------------------- MODULE TarFifoProofs ----------------------------
(***************************************************************************)
(* TarFifo for every length of the archive, every FIFO and any number of   *)
(* failing calls.  JobsOK says what the label of the task implies about    *)
(* its coroutines; TarOK and FifoOK what the label of the tar coroutine    *)
(* implies about tar and the writers of the FIFOs; DropOK when the read    *)
(* ends and the paths go; TargetOK that what tar sent is in the FIFO or in *)
(* the target until the copy fails; FlowOK that an end of file ends a copy *)
(* either before tar came or after it wrote its last chunk; ReasonOK that  *)
(* without a reason nothing fails and no end is closed before tar ended.   *)
(***************************************************************************)
EXTENDS TarFifo, TLAPS

Before == {"new", "make", "track", "tracked", "refused"}
Over == {"none", "ok", "threw", "skipped"}
Dropped == {"verdict", "report", "done", "error"}

-----------------------------------------------------------------------------
(* The invariant.                                                          *)

\* Which labels each coroutine has; all three ended well before a verdict.
JobsOK ==
  /\ task \in Before \ {"refused"} => \A j \in Jobs : jobs[j] = "none"
  /\ task = "refused" => jobs["relay"] = "none"
  /\ task # "running" => \A j \in Jobs : jobs[j] \in Over
  /\ task \in {"transferred", "verdict", "done"} => \A j \in Jobs : jobs[j] = "ok"
  /\ jobs["tar"] \notin {"open", "track", "tracked", "reading"}
  /\ jobs["stderr"] \notin {"anchored", "waiting", "open", "track", "tracked"}
  /\ jobs["relay"] \notin {"anchored", "waiting"}

\* Where tar is when its coroutine is at a label.
TarOK ==
  /\ jobs["tar"] \in {"none", "ready", "anchored", "skipped"} => tar.pc = "none"
  /\ jobs["tar"] = "waiting" => tar.pc # "none"
  /\ jobs["tar"] = "ok" => tar.pc = "ok"
  /\ tar.pc = "none" => tar.sent = 0
  /\ tar.pc = "ok" => tar.sent = tar.length

\* Who holds the write ends, and whether anyone ever did.
FifoOK ==
  \A s \in Streams :
    /\ jobs["tar"] = "anchored" => "anchor" \in fifo[s].writers
    /\ "anchor" \in fifo[s].writers =>
         \/ jobs["tar"] = "anchored"
         \/ s = "relay" /\ tar.pc = "none" /\ jobs["tar"] \in {"failing", "threw"}
    /\ "tar" \in fifo[s].writers <=> tar.pc = "write"
    /\ jobs["tar"] \in {"none", "ready", "skipped"} => ~fifo[s].opened
    /\ jobs["tar"] = "anchored" \/ tar.pc # "none" => fifo[s].opened
    /\ jobs[s] \in {"none", "ready", "open", "track", "tracked", "reading"} => ~fifo[s].early

\* The read ends are closed and the paths removed before a verdict.
DropOK ==
  task \in Dropped => \A s \in Streams : ~fifo[s].reader /\ (fifo[s].path => fault.silent)

\* The target appears when the copy opens it, its stream is open while the copy
\* goes on, and a chunk that left the FIFO is in it unless the copy failed.
TargetOK ==
  /\ output => jobs["relay"] \in {"track", "tracked", "reading"}
  /\ jobs["relay"] \in {"none", "ready", "open", "skipped"} => target = None
  /\ jobs["relay"] \in {"track", "tracked"} => target = 0
  /\ jobs["relay"] \in {"none", "ready", "open", "track", "tracked"} =>
       fifo["relay"].chunks = tar.sent
  /\ jobs["relay"] = "reading" => target + fifo["relay"].chunks = tar.sent
  /\ task = "error" => target = None \/ fault.silent

\* A copy that ended well copied all that tar wrote, and tar writes no more, or
\* it ended before tar came and copied nothing.
FlowOK ==
  jobs["relay"] = "ok" =>
    /\ ~fifo["relay"].early =>
         jobs["tar"] \in {"waiting", "failing", "ok", "threw"} /\ tar.pc # "write"
    /\ task \in {"running", "transferred", "verdict", "done"} =>
         target = IF fifo["relay"].early THEN 0 ELSE tar.sent

\* Why a task may fail.
Reason == cancelled \/ fault.count > 0 \/ fifo["stderr"].early

\* Without a reason no coroutine fails, tar does not, the read ends stay open
\* until tar has ended, and the target's stream until the copy has.
Sound ==
  /\ \A j \in Jobs : jobs[j] \notin {"failing", "threw", "skipped"}
  /\ tar.pc # "failed" /\ task \notin {"failed", "refused", "report", "error"}
  /\ task \in {"track", "tracked", "running"} =>
       /\ fifo["relay"].reader
       /\ fifo["stderr"].reader \/ jobs["stderr"] = "ok"
  /\ jobs["stderr"] = "ok" => tar.pc = "ok"
  /\ jobs["relay"] \in {"track", "tracked", "reading"} => output

ReasonOK == Reason \/ Sound

Inv == TypeOK /\ JobsOK /\ TarOK /\ FifoOK /\ DropOK /\ TargetOK
EInv == Inv /\ FlowOK /\ ReasonOK

-----------------------------------------------------------------------------
(* Operators.                                                              *)

Labels == Ending \cup {"new", "make", "track", "tracked", "running", "transferred", "failed",
                       "refused", "verdict", "report"}
JobLabels == {"none", "ready", "anchored", "waiting", "open", "track", "tracked", "reading",
              "failing", "ok", "threw", "skipped"}
TarSet == [pc : {"none", "write", "ok", "failed"}, length : 1 .. N, sent : 0 .. N,
           warned : BOOLEAN]
FaultSet == [count : 0 .. MaxFaults, silent : BOOLEAN]

\* What a failing call adds to fault.
LEMMA Failed ==
  ASSUME TypeOK, MayFail, Faulty \/ Quietly
  PROVE  /\ fault' \in FaultSet
         /\ fault.silent => fault'.silent
         /\ Quietly => fault'.silent
         /\ fault'.count > 0
<1>1. fault \in FaultSet /\ fault.count \in Nat /\ fault.count + 1 \in 0 .. MaxFaults
  BY BoundsAssumption DEF TypeOK, MayFail, FaultSet
<1>2. CASE Faulty
  <2>1. fault' = [fault EXCEPT !.count = fault.count + 1]
    BY <1>2 DEF Faulty
  <2>2. fault' \in FaultSet
    BY <1>1, <2>1 DEF FaultSet
  <2>3. fault'.silent = fault.silent /\ fault'.count = fault.count + 1
    BY <1>1, <2>1 DEF FaultSet
  <2>4. Quietly => fault'.silent
    BY <1>1 DEF Quietly, FaultSet
  <2>. QED BY <1>1, <2>2, <2>3, <2>4
<1>3. CASE Quietly
  <2>1. fault' = [fault EXCEPT !.count = fault.count + 1, !.silent = TRUE]
    BY <1>3 DEF Quietly
  <2>2. fault' \in FaultSet
    BY <1>1, <2>1 DEF FaultSet
  <2>3. fault'.silent = TRUE /\ fault'.count = fault.count + 1
    BY <1>1, <2>1 DEF FaultSet
  <2>. QED BY <1>1, <2>2, <2>3
<1>. QED BY <1>2, <1>3


\* A FIFO that was just made, with or without a path and an open read end.
LEMMA New ==
  ASSUME NEW p \in BOOLEAN, NEW r \in BOOLEAN, NEW g,
         g = [path |-> p, reader |-> r, writers |-> {}, chunks |-> 0, opened |-> FALSE,
              early |-> FALSE]
  PROVE  g \in FifoIn /\ g.writers = {} /\ g.chunks = 0 /\ g.opened = FALSE
         /\ g.early = FALSE /\ g.reader = r
<1>1. 0 \in 0 .. Capacity /\ {} \in SUBSET {"anchor", "tar"}
  BY BoundsAssumption
<1>2. g \in FifoIn
  BY <1>1 DEF FifoIn
<1>. QED BY <1>2

\* MakeFifos leaves FIFOs that nobody wrote to.
LEMMA Made ==
  ASSUME MakeFifos
  PROVE  /\ fifo' \in [Streams -> FifoIn]
         /\ \A s \in Streams :
              /\ fifo'[s].writers = {} /\ fifo'[s].chunks = 0 /\ fifo'[s].opened = FALSE
              /\ fifo'[s].early = FALSE
<1>1. ASSUME NEW P, NEW R,
             fifo' = [s \in Streams |-> [Unmade EXCEPT !.path = s \in P, !.reader = s \in R]]
      PROVE  /\ fifo' \in [Streams -> FifoIn]
             /\ \A s \in Streams :
                  /\ fifo'[s].writers = {} /\ fifo'[s].chunks = 0 /\ fifo'[s].opened = FALSE
                  /\ fifo'[s].early = FALSE
  <2>1. ASSUME NEW s \in Streams
        PROVE  /\ fifo'[s] \in FifoIn
               /\ fifo'[s].writers = {} /\ fifo'[s].chunks = 0 /\ fifo'[s].opened = FALSE
               /\ fifo'[s].early = FALSE
    <3>1. fifo'[s] = [path |-> s \in P, reader |-> s \in R,
                      writers |-> {}, chunks |-> 0, opened |-> FALSE, early |-> FALSE]
      BY <1>1 DEF Unmade
    <3>2. (s \in P) \in BOOLEAN /\ (s \in R) \in BOOLEAN
      OBVIOUS
    <3>. QED BY <3>1, <3>2, New
  <2>2. fifo' = [s \in Streams |-> fifo'[s]]
    BY <1>1
  <2>3. fifo' \in [Streams -> FifoIn]
    BY <2>1, <2>2
  <2>. QED BY <2>1, <2>3
<1>2. CASE fifo' = [s \in Streams |-> [Unmade EXCEPT !.path = TRUE, !.reader = TRUE]]
  <2>1. \A s \in Streams : (s \in Streams) = TRUE
    OBVIOUS
  <2>2. fifo' = [s \in Streams |->
                   [Unmade EXCEPT !.path = s \in Streams, !.reader = s \in Streams]]
    BY <1>2, <2>1
  <2>. QED BY <2>2, <1>1
<1>3. CASE \E made \in {{}, {"stderr"}, Streams}, open \in {{}, {"stderr"}} :
             fifo' = [s \in Streams |-> [Unmade EXCEPT !.path = s \in made,
                                                       !.reader = s \in open]]
  <2>1. PICK P \in {{}, {"stderr"}, Streams}, R \in {{}, {"stderr"}} :
              fifo' = [s \in Streams |-> [Unmade EXCEPT !.path = s \in P, !.reader = s \in R]]
    BY <1>3
  <2>. QED BY <1>1, <2>1
<1>. QED BY <1>2, <1>3, Zenon DEF MakeFifos

\* Closing the read ends leaves the rest of the FIFOs as it was.
LEMMA Broken ==
  ASSUME TypeOK
  PROVE  /\ BreakPipes(fifo) \in [Streams -> FifoIn]
         /\ \A s \in Streams :
              /\ BreakPipes(fifo)[s].reader = FALSE
              /\ BreakPipes(fifo)[s].path = fifo[s].path
              /\ BreakPipes(fifo)[s].writers = fifo[s].writers
              /\ BreakPipes(fifo)[s].chunks = fifo[s].chunks
              /\ BreakPipes(fifo)[s].opened = fifo[s].opened
              /\ BreakPipes(fifo)[s].early = fifo[s].early
<1>1. \A s \in Streams : fifo[s] \in FifoIn
  BY DEF TypeOK
<1>2. BreakPipes(fifo) = [s \in Streams |-> [fifo[s] EXCEPT !.reader = FALSE]]
  BY DEF BreakPipes
<1>3. ASSUME NEW s \in Streams, NEW g, g = BreakPipes(fifo)[s]
      PROVE  /\ g \in FifoIn /\ g.reader = FALSE /\ g.path = fifo[s].path
             /\ g.writers = fifo[s].writers /\ g.chunks = fifo[s].chunks
             /\ g.opened = fifo[s].opened /\ g.early = fifo[s].early
  <2>1. g = [fifo[s] EXCEPT !.reader = FALSE]
    BY <1>2, <1>3
  <2>2. g \in FifoIn
    BY <1>1, <2>1 DEF FifoIn
  <2>3. /\ g.reader = FALSE /\ g.path = fifo[s].path /\ g.writers = fifo[s].writers
        /\ g.chunks = fifo[s].chunks /\ g.opened = fifo[s].opened
        /\ g.early = fifo[s].early
    BY <1>1, <2>1 DEF FifoIn
  <2>. QED BY <2>2, <2>3
<1>4. BreakPipes(fifo) = [s \in Streams |-> BreakPipes(fifo)[s]]
  BY <1>2
<1>5. BreakPipes(fifo) \in [Streams -> FifoIn]
  BY <1>3, <1>4
<1>. QED BY <1>3, <1>5

\* The finally block, whether or not the paths can be removed.
LEMMA Removed ==
  ASSUME TypeOK, DropFifos
  PROVE  /\ fifo' \in [Streams -> FifoIn]
         /\ \A s \in Streams :
              /\ fifo'[s].reader = FALSE /\ fifo'[s].writers = fifo[s].writers
              /\ fifo'[s].chunks = fifo[s].chunks /\ fifo'[s].opened = fifo[s].opened
              /\ fifo'[s].early = fifo[s].early
              /\ fifo'[s].path => fault'.silent
         /\ fault' \in FaultSet /\ (fault.silent => fault'.silent)
<1>1. \A s \in Streams : fifo[s] \in FifoIn
  BY DEF TypeOK
<1>2. \/ /\ fifo' = [s \in Streams |-> [fifo[s] EXCEPT !.reader = FALSE, !.path = FALSE]]
         /\ UNCHANGED fault
      \/ /\ fifo' = [s \in Streams |-> [fifo[s] EXCEPT !.reader = FALSE]]
         /\ MayFail /\ Quietly
  BY DEF DropFifos
<1>3. /\ fault' \in FaultSet /\ (fault.silent => fault'.silent)
      /\ UNCHANGED fault \/ fault'.silent
  BY <1>2, Failed DEF TypeOK, FaultSet
<1>4. ASSUME NEW s \in Streams, NEW g, g = fifo'[s]
      PROVE  /\ g \in FifoIn /\ g.reader = FALSE /\ g.writers = fifo[s].writers
             /\ g.chunks = fifo[s].chunks /\ g.opened = fifo[s].opened
             /\ g.early = fifo[s].early
             /\ g.path => fault'.silent
  <2>1. CASE fifo' = [t \in Streams |-> [fifo[t] EXCEPT !.reader = FALSE, !.path = FALSE]]
    <3>1. g = [fifo[s] EXCEPT !.reader = FALSE, !.path = FALSE]
      BY <1>4, <2>1
    <3>2. g \in FifoIn
      BY <1>1, <3>1 DEF FifoIn
    <3>3. /\ g.reader = FALSE /\ g.path = FALSE /\ g.writers = fifo[s].writers
          /\ g.chunks = fifo[s].chunks /\ g.opened = fifo[s].opened
          /\ g.early = fifo[s].early
      BY <1>1, <3>1 DEF FifoIn
    <3>. QED BY <3>2, <3>3
  <2>2. CASE /\ fifo' = [t \in Streams |-> [fifo[t] EXCEPT !.reader = FALSE]]
             /\ MayFail /\ Quietly
    <3>1. g = [fifo[s] EXCEPT !.reader = FALSE]
      BY <1>4, <2>2
    <3>2. fault'.silent
      BY <2>2, Failed
    <3>3. g \in FifoIn
      BY <1>1, <3>1 DEF FifoIn
    <3>4. /\ g.reader = FALSE /\ g.writers = fifo[s].writers /\ g.chunks = fifo[s].chunks
          /\ g.opened = fifo[s].opened /\ g.early = fifo[s].early
      BY <1>1, <3>1 DEF FifoIn
    <3>. QED BY <3>2, <3>3, <3>4
  <2>. QED BY <1>2, <2>1, <2>2
<1>5. fifo' = [s \in Streams |-> fifo'[s]]
  BY <1>2
<1>6. fifo' \in [Streams -> FifoIn]
  BY <1>4, <1>5
<1>. QED BY <1>3, <1>4, <1>6

\* An anchor is a writer; the rest of its FIFO stays as it was.
LEMMA AnAnchor ==
  ASSUME NEW f \in FifoIn, NEW g, g = Anchored(f)
  PROVE  /\ g \in FifoIn /\ g.reader = f.reader /\ g.path = f.path
         /\ g.chunks = f.chunks /\ g.early = f.early /\ g.opened = TRUE
         /\ g.writers = f.writers \cup {"anchor"}
BY DEF Anchored, FifoIn

\* Both anchors, or none, or the first one.
LEMMA Anchors ==
  ASSUME TypeOK, OpenAnchors
  PROVE  /\ fifo' \in [Streams -> FifoIn]
         /\ \A s \in Streams :
              /\ fifo'[s].reader = fifo[s].reader /\ fifo'[s].path = fifo[s].path
              /\ fifo'[s].chunks = fifo[s].chunks /\ fifo'[s].early = fifo[s].early
              /\ \/ /\ fifo'[s].writers = fifo[s].writers \cup {"anchor"}
                    /\ fifo'[s].opened = TRUE
                    /\ jobs'["tar"] = "anchored" \/ s = "relay"
                 \/ /\ jobs'["tar"] = "failing" /\ fifo'[s].writers = fifo[s].writers
                    /\ fifo'[s].opened = fifo[s].opened
<1>1. \A s \in Streams : fifo[s] \in FifoIn
  BY DEF TypeOK
<1>2. CASE Job("tar", "anchored") /\ fifo' = [s \in Streams |-> Anchored(fifo[s])]
  <2>1. jobs'["tar"] = "anchored"
    BY <1>2 DEF Job, TypeOK, Jobs
  <2>2. ASSUME NEW s \in Streams
        PROVE  fifo'[s] = Anchored(fifo[s])
    BY <1>2
  <2>3. \A s \in Streams : fifo'[s] \in FifoIn
    BY <1>1, <2>2, AnAnchor
  <2>4. fifo' \in [Streams -> FifoIn]
    BY <1>2, <2>3
  <2>. QED BY <1>1, <2>1, <2>2, <2>4, AnAnchor
<1>3. CASE Job("tar", "failing") /\ UNCHANGED fifo
  BY <1>1, <1>3 DEF Job, TypeOK, Jobs
<1>4. CASE /\ Job("tar", "failing")
           /\ fifo' = [fifo EXCEPT !["relay"] = Anchored(fifo["relay"])]
  <2>1. jobs'["tar"] = "failing"
    BY <1>4 DEF Job, TypeOK, Jobs
  <2>2. /\ fifo'["relay"] = Anchored(fifo["relay"]) /\ fifo'["stderr"] = fifo["stderr"]
        /\ fifo' = [s \in Streams |-> fifo'[s]]
    BY <1>4 DEF TypeOK, Streams
  <2>3. \A s \in Streams : fifo'[s] \in FifoIn
    BY <1>1, <2>2, AnAnchor DEF Streams
  <2>4. fifo' \in [Streams -> FifoIn]
    BY <2>2, <2>3
  <2>5. fifo["relay"] \in FifoIn
    BY <1>1 DEF Streams
  <2>6. LET g == fifo'["relay"] IN
        /\ g.reader = fifo["relay"].reader /\ g.path = fifo["relay"].path
        /\ g.chunks = fifo["relay"].chunks /\ g.early = fifo["relay"].early
        /\ g.opened = TRUE /\ g.writers = fifo["relay"].writers \cup {"anchor"}
    BY <2>2, <2>5, AnAnchor
  <2>. QED BY <2>1, <2>2, <2>4, <2>6 DEF Streams
<1>5. \/ Job("tar", "anchored") /\ fifo' = [s \in Streams |-> Anchored(fifo[s])]
      \/ Job("tar", "failing") /\ UNCHANGED fifo
      \/ /\ Job("tar", "failing")
         /\ fifo' = [fifo EXCEPT !["relay"] = Anchored(fifo["relay"])]
  BY DEF OpenAnchors
<1>. QED BY <1>2, <1>3, <1>4, <1>5

\* One way to go through the steps.
LEMMA Steps ==
  ASSUME [Next]_vars
  PROVE  \/ Start \/ MakeFifos \/ TrackPipes \/ Launch \/ Join \/ DropFifos \/ Finish \/ Report
         \/ \E j \in Jobs : Skip(j) \/ Fail(j)
         \/ OpenAnchors \/ StartTar \/ AwaitTar \/ (\E j \in Streams : TarWrite(j)) \/ TarExit
         \/ \E j \in {"relay", "stderr"} : BeginRead(j)
         \/ ReadStderr \/ OpenTarget \/ TrackOutput \/ TrackedOutput \/ RelayChunk \/ RelayEof
         \/ Cancel \/ RunClosers \/ CancelJob \/ UNCHANGED vars
BY DEF Next, Task, TarJob, Tar, StderrJob, RelayJob, Canceller, Jobs

USE DEF Before, Over, Dropped, Ending, Streams, Jobs, Closers, None, Unmade, cancelled, Job,
        MayFail, Faulty, Quietly, BreakPipes, Readable, TarEnds, GivesChunk, GivesEof,
        FifoIn, Joined, Labels, JobLabels, TarSet, FaultSet

-----------------------------------------------------------------------------
(* The steps.                                                              *)

\* Every variable keeps its type.
LEMMA TypesNext ==
  ASSUME Inv, [Next]_vars
  PROVE  TypeOK'
<1>. TypeOK /\ JobsOK /\ TarOK /\ TargetOK
  BY DEF Inv
<1>1. task' \in Labels
  <2>1. task \in Labels
    BY DEF TypeOK
  <2>2. CASE Start \/ MakeFifos \/ TrackPipes \/ Launch \/ Join \/ DropFifos \/ Finish \/ Report
    BY <2>1, <2>2 DEF Start, MakeFifos, TrackPipes, Launch, Join, DropFifos, Finish, Report
  <2>3. CASE UNCHANGED task
    BY <2>1, <2>3
  <2>. QED BY <2>2, <2>3, Steps DEF vars, Skip, Fail, OpenAnchors, StartTar, AwaitTar, TarWrite,
           TarExit, BeginRead, ReadStderr, OpenTarget, TrackOutput, TrackedOutput, RelayChunk,
           RelayEof, Cancel, RunClosers, CancelJob
<1>2. jobs' \in [Jobs -> JobLabels]
  <2>1. jobs \in [Jobs -> JobLabels]
    BY DEF TypeOK
  <2>2. CASE Launch
    BY <2>1, <2>2 DEF Launch
  <2>3. CASE \E j \in Jobs : Skip(j)
    BY <2>1, <2>3 DEF Skip
  <2>4. CASE \E j \in Jobs : Fail(j)
    BY <2>1, <2>4 DEF Fail
  <2>5. CASE OpenAnchors \/ StartTar \/ AwaitTar
    BY <2>1, <2>5 DEF OpenAnchors, StartTar, AwaitTar
  <2>6. CASE \E j \in {"relay", "stderr"} : BeginRead(j)
    BY <2>1, <2>6 DEF BeginRead
  <2>7. CASE ReadStderr \/ OpenTarget \/ TrackOutput \/ TrackedOutput \/ RelayChunk \/ RelayEof
    BY <2>1, <2>7 DEF ReadStderr, OpenTarget, TrackOutput, TrackedOutput, RelayChunk, RelayEof
  <2>8. CASE UNCHANGED jobs
    BY <2>1, <2>8
  <2>. QED BY <2>2, <2>3, <2>4, <2>5, <2>6, <2>7, <2>8, Steps DEF vars, Start, MakeFifos,
           TrackPipes, Join, DropFifos, Finish, Report, TarWrite, TarExit, Cancel, RunClosers,
           CancelJob
<1>3. fifo' \in [Streams -> FifoIn]
  <2>1. fifo \in [Streams -> FifoIn]
    BY DEF TypeOK
  <2>2. CASE MakeFifos
    BY <2>1, <2>2, Made DEF MakeFifos
  <2>3. CASE DropFifos
    BY <2>1, <2>3, Removed DEF DropFifos
  <2>4. CASE OpenAnchors
    BY <2>1, <2>4, Anchors DEF OpenAnchors
  <2>5. CASE Launch \/ RunClosers
    BY <2>1, <2>5, Broken DEF Launch, RunClosers
  <2>6. CASE \E j \in Jobs : Fail(j)
    BY <2>1, <2>6, Broken DEF Fail
  <2>7. CASE StartTar
    BY <2>1, <2>7 DEF StartTar
  <2>8. CASE \E j \in Streams : TarWrite(j)
    BY <2>1, <2>8, BoundsAssumption DEF TarWrite
  <2>9. CASE TarExit
    BY <2>1, <2>9 DEF TarExit
  <2>10. CASE ReadStderr
    <3>1. fifo["stderr"] \in FifoIn
      BY <2>1
    <3>2. CASE /\ fifo["stderr"].chunks > 0
               /\ fifo' = [fifo EXCEPT !["stderr"].chunks = fifo["stderr"].chunks - 1]
      <4>1. fifo["stderr"].chunks - 1 \in 0 .. Capacity
        BY <3>1, <3>2, BoundsAssumption
      <4>. QED BY <2>1, <3>1, <3>2, <4>1
    <3>3. CASE fifo' = [fifo EXCEPT !["stderr"].reader = FALSE,
                                    !["stderr"].early = ~fifo["stderr"].opened]
      BY <2>1, <3>1, <3>3
    <3>. QED BY <2>1, <2>10, <3>2, <3>3 DEF ReadStderr
  <2>11. CASE RelayChunk
    BY <2>1, <2>11, BoundsAssumption DEF RelayChunk
  <2>12. CASE RelayEof
    BY <2>1, <2>12 DEF RelayEof
  <2>13. CASE UNCHANGED fifo
    BY <2>1, <2>13
  <2>. QED BY <2>2, <2>3, <2>4, <2>5, <2>6, <2>7, <2>8, <2>9, <2>10, <2>11, <2>12, <2>13,
           Steps DEF vars, Start, TrackPipes, Join, Finish, Report, Skip, AwaitTar, BeginRead,
           OpenTarget, TrackOutput, TrackedOutput, Cancel, CancelJob
<1>4. tar' \in TarSet
  <2>1. tar \in TarSet
    BY DEF TypeOK
  <2>2. CASE StartTar
    BY <2>1, <2>2 DEF StartTar
  <2>3. CASE \E j \in Streams : TarWrite(j)
    <3>1. CASE tar.sent < tar.length /\ tar' = [tar EXCEPT !.sent = tar.sent + 1]
      <4>1. tar.sent + 1 \in 0 .. N
        BY <2>1, <3>1, BoundsAssumption
      <4>. QED BY <2>1, <3>1, <4>1
    <3>2. CASE tar' = [tar EXCEPT !.warned = TRUE]
      BY <2>1, <3>2
    <3>3. CASE tar' = [tar EXCEPT !.pc = "failed"]
      BY <2>1, <3>3
    <3>. QED BY <2>3, <3>1, <3>2, <3>3 DEF TarWrite
  <2>4. CASE TarExit
    BY <2>1, <2>4 DEF TarExit
  <2>5. CASE UNCHANGED tar
    BY <2>1, <2>5
  <2>. QED BY <2>2, <2>3, <2>4, <2>5, Steps DEF vars, Start, MakeFifos, TrackPipes, Launch,
           Join, DropFifos, Finish, Report, Skip, Fail, OpenAnchors, AwaitTar, BeginRead,
           ReadStderr, OpenTarget, TrackOutput, TrackedOutput, RelayChunk, RelayEof, Cancel,
           RunClosers, CancelJob
<1>5. target' \in 0 .. None
  <2>1. target \in 0 .. None
    BY DEF TypeOK
  <2>2. CASE Report \/ OpenTarget
    BY <2>1, <2>2, BoundsAssumption DEF TargetOK, Report, OpenTarget
  <2>3. CASE RelayChunk
    <3>1. fifo["relay"].chunks \in 0 .. Capacity /\ tar.sent \in 0 .. N
      BY DEF TypeOK
    <3>2. \/ fifo["relay"].chunks > 0 /\ target + fifo["relay"].chunks = tar.sent
          \/ UNCHANGED target
      BY <2>3 DEF RelayChunk, TargetOK
    <3>3. UNCHANGED target \/ target' = target + 1
      BY <2>3 DEF RelayChunk
    <3>4. target + 1 \in 0 .. None \/ UNCHANGED target
      BY <2>1, <3>1, <3>2, BoundsAssumption
    <3>. QED BY <2>1, <3>3, <3>4
  <2>4. CASE UNCHANGED target
    BY <2>1, <2>4
  <2>. QED BY <2>2, <2>3, <2>4, Steps DEF vars, Start, MakeFifos, TrackPipes, Launch, Join,
           DropFifos, Finish, Skip, Fail, OpenAnchors, StartTar, AwaitTar, TarWrite, TarExit,
           BeginRead, ReadStderr, TrackOutput, TrackedOutput, RelayEof, Cancel, RunClosers,
           CancelJob
<1>6. output' \in BOOLEAN
  <2>1. output \in BOOLEAN
    BY DEF TypeOK
  <2>2. CASE OpenTarget \/ TrackedOutput \/ RelayChunk \/ RelayEof \/ RunClosers
    BY <2>1, <2>2 DEF OpenTarget, TrackedOutput, RelayChunk, RelayEof, RunClosers
  <2>3. CASE UNCHANGED output
    BY <2>1, <2>3
  <2>. QED BY <2>2, <2>3, Steps DEF vars, Start, MakeFifos, TrackPipes, Launch, Join, DropFifos,
           Finish, Report, Skip, Fail, OpenAnchors, StartTar, AwaitTar, TarWrite, TarExit,
           BeginRead, ReadStderr, TrackOutput, Cancel, CancelJob
<1>7. cancel' \in {"idle", "flagged", "job", "over"} /\ closers' \subseteq Closers
  <2>1. cancel \in {"idle", "flagged", "job", "over"} /\ closers \subseteq Closers
    BY DEF TypeOK
  <2>. QED BY <2>1, Steps DEF vars, Start, MakeFifos, TrackPipes, Launch, Join, DropFifos,
           Finish, Report, Skip, Fail, OpenAnchors, StartTar, AwaitTar, TarWrite, TarExit,
           BeginRead, ReadStderr, OpenTarget, TrackOutput, TrackedOutput, RelayChunk, RelayEof,
           Cancel, RunClosers, CancelJob
<1>8. fault' \in FaultSet
  <2>1. fault \in FaultSet
    BY DEF TypeOK
  <2>2. CASE DropFifos
    BY <2>1, <2>2, Removed DEF DropFifos
  <2>3. CASE MakeFifos \/ Finish \/ Report
    BY <2>1, <2>3, Failed DEF MakeFifos, Finish, Report
  <2>4. CASE OpenAnchors \/ StartTar \/ AwaitTar \/ TarExit \/ OpenTarget \/ RelayChunk
    BY <2>1, <2>4, Failed DEF OpenAnchors, StartTar, AwaitTar, TarExit, OpenTarget, RelayChunk
  <2>5. CASE UNCHANGED fault
    BY <2>1, <2>5
  <2>. QED BY <2>2, <2>3, <2>4, <2>5, Steps DEF vars, Start, TrackPipes, Launch, Join, Skip,
           Fail, TarWrite, BeginRead, ReadStderr, TrackOutput, TrackedOutput, RelayEof, Cancel,
           RunClosers, CancelJob
<1>. QED BY <1>1, <1>2, <1>3, <1>4, <1>5, <1>6, <1>7, <1>8 DEF TypeOK

\* The labels of the task and of its coroutines.
LEMMA JobsNext ==
  ASSUME Inv, [Next]_vars
  PROVE  JobsOK'
<1>. TypeOK /\ JobsOK /\ TarOK /\ FifoOK /\ DropOK /\ TargetOK
  BY DEF Inv
<1>1. CASE Start \/ MakeFifos \/ TrackPipes \/ Launch
  BY <1>1 DEF JobsOK, TypeOK, Start, MakeFifos, TrackPipes, Launch
<1>2. CASE Join \/ DropFifos \/ Finish \/ Report
  BY <1>2 DEF JobsOK, TypeOK, Join, DropFifos, Finish, Report
<1>3. CASE (\E j \in Jobs : Skip(j)) \/ (\E j \in Jobs : Fail(j))
  BY <1>3 DEF JobsOK, TypeOK, Skip, Fail
<1>4. CASE OpenAnchors \/ StartTar
  BY <1>4 DEF JobsOK, TypeOK, OpenAnchors, StartTar
<1>5. CASE AwaitTar
  BY <1>5 DEF JobsOK, TypeOK, AwaitTar
<1>6. CASE \E j \in Streams : TarWrite(j)
  BY <1>6 DEF JobsOK, TypeOK, TarWrite
<1>7. CASE TarExit
  BY <1>7 DEF JobsOK, TypeOK, TarExit
<1>8. CASE \E j \in {"relay", "stderr"} : BeginRead(j)
  BY <1>8 DEF JobsOK, TypeOK, TarOK, BeginRead
<1>9. CASE ReadStderr \/ OpenTarget \/ TrackOutput \/ TrackedOutput
  BY <1>9 DEF JobsOK, TypeOK, ReadStderr, OpenTarget, TrackOutput,
         TrackedOutput
<1>10. CASE RelayChunk \/ RelayEof
  BY <1>10 DEF JobsOK, TypeOK, RelayChunk, RelayEof
<1>11. CASE Cancel \/ RunClosers \/ CancelJob
  BY <1>11 DEF JobsOK, TypeOK, Cancel, RunClosers, CancelJob
<1>12. CASE UNCHANGED vars
  BY <1>12 DEF vars, JobsOK
<1>. QED BY <1>1, <1>2, <1>3, <1>4, <1>5, <1>6, <1>7, <1>8, <1>9, <1>10, <1>11, <1>12, Steps

\* Where tar is.
LEMMA TarNext ==
  ASSUME Inv, [Next]_vars
  PROVE  TarOK'
<1>. TypeOK /\ JobsOK /\ TarOK /\ FifoOK /\ DropOK /\ TargetOK
  BY DEF Inv
<1>1. CASE Start \/ MakeFifos \/ TrackPipes
  BY <1>1 DEF TarOK, TypeOK, Start, MakeFifos, TrackPipes
<1>2. CASE Launch
  BY <1>2 DEF TarOK, TypeOK, JobsOK, Launch
<1>3. CASE Join \/ DropFifos \/ Finish \/ Report
  BY <1>3 DEF TarOK, TypeOK, Join, DropFifos, Finish, Report
<1>4. CASE (\E j \in Jobs : Skip(j)) \/ (\E j \in Jobs : Fail(j))
  BY <1>4 DEF TarOK, TypeOK, Skip, Fail
<1>5. CASE OpenAnchors \/ StartTar \/ AwaitTar \/ (\E j \in Streams : TarWrite(j))
  BY <1>5 DEF TarOK, TypeOK, OpenAnchors, StartTar, AwaitTar, TarWrite
<1>6. CASE TarExit
  BY <1>6 DEF TarOK, TypeOK, TarExit
<1>7. CASE (\E j \in {"relay", "stderr"} : BeginRead(j)) \/ ReadStderr \/ OpenTarget \/
         TrackOutput
  BY <1>7 DEF TarOK, TypeOK, BeginRead, ReadStderr, OpenTarget, TrackOutput
<1>8. CASE TrackedOutput \/ RelayChunk \/ RelayEof
  BY <1>8 DEF TarOK, TypeOK, TrackedOutput, RelayChunk, RelayEof
<1>9. CASE Cancel \/ RunClosers \/ CancelJob
  BY <1>9 DEF TarOK, TypeOK, Cancel, RunClosers, CancelJob
<1>10. CASE UNCHANGED vars
  BY <1>10 DEF vars, TarOK
<1>. QED BY <1>1, <1>2, <1>3, <1>4, <1>5, <1>6, <1>7, <1>8, <1>9, <1>10, Steps

\* The write ends.
LEMMA FifoNext ==
  ASSUME Inv, [Next]_vars
  PROVE  FifoOK'
<1>. TypeOK /\ JobsOK /\ TarOK /\ FifoOK /\ DropOK /\ TargetOK
  BY DEF Inv
<1>1. CASE Start
  BY <1>1 DEF FifoOK, TypeOK, Start
<1>2. CASE MakeFifos
  <2>1. \A j \in Jobs : jobs[j] = "none"
    BY <1>2 DEF MakeFifos, JobsOK, Before
  <2>2. jobs["tar"] = "none" /\ tar.pc = "none" /\ UNCHANGED <<jobs, tar>>
    BY <1>2, <2>1 DEF TarOK, MakeFifos, Jobs
  <2>. QED BY <1>2, <2>2, Made DEF FifoOK
<1>3. CASE TrackPipes
  BY <1>3 DEF FifoOK, TypeOK, TrackPipes
<1>4. CASE Launch
  BY <1>4 DEF FifoOK, TypeOK, JobsOK, Launch
<1>5. CASE Join
  BY <1>5 DEF FifoOK, TypeOK, Join
<1>6. CASE DropFifos
  <2>1. UNCHANGED <<jobs, tar>>
    BY <1>6 DEF DropFifos
  <2>. QED BY <1>6, <2>1, Removed DEF FifoOK
<1>7. CASE Finish \/ Report
  BY <1>7 DEF FifoOK, TypeOK, Finish, Report
<1>8. CASE (\E j \in Jobs : Skip(j)) \/ (\E j \in Jobs : Fail(j))
  BY <1>8 DEF FifoOK, TypeOK, Skip, Fail
<1>9. CASE OpenAnchors
  <2>1. jobs["tar"] = "ready" /\ jobs'["tar"] \in {"anchored", "failing"} /\ UNCHANGED tar
    BY <1>9 DEF OpenAnchors, Job, Jobs, TypeOK
  <2>2. tar.pc = "none"
    BY <2>1 DEF TarOK
  <2>3. \A s \in Streams : "tar" \notin fifo[s].writers /\ "anchor" \notin fifo[s].writers
    BY <2>1, <2>2 DEF FifoOK
  <2>4. \A s \in Streams : jobs'[s] = jobs[s]
    BY <1>9 DEF OpenAnchors, Job, Jobs, Streams, TypeOK
  <2>5. ASSUME NEW s \in Streams
        PROVE  /\ jobs'["tar"] = "anchored" =>
                    "anchor" \in fifo'[s].writers /\ fifo'[s].opened
               /\ "anchor" \in fifo'[s].writers => jobs'["tar"] = "anchored" \/ s = "relay"
               /\ "tar" \notin fifo'[s].writers /\ fifo'[s].early = fifo[s].early
    <3>1. /\ fifo'[s].early = fifo[s].early
          /\ \/ /\ fifo'[s].writers = fifo[s].writers \cup {"anchor"}
                /\ fifo'[s].opened = TRUE
                /\ jobs'["tar"] = "anchored" \/ s = "relay"
             \/ /\ jobs'["tar"] = "failing" /\ fifo'[s].writers = fifo[s].writers
      BY <1>9, Anchors
    <3>2. "tar" \notin fifo[s].writers /\ "anchor" \notin fifo[s].writers
      BY <2>3
    <3>. QED BY <3>1, <3>2
  <2>. QED BY <2>1, <2>2, <2>4, <2>5 DEF FifoOK
<1>10. CASE StartTar
  BY <1>10 DEF FifoOK, TypeOK, TarOK, StartTar
<1>11. CASE AwaitTar \/ (\E j \in Streams : TarWrite(j)) \/ TarExit
  BY <1>11 DEF FifoOK, TypeOK, AwaitTar, TarWrite, TarExit
<1>12. CASE (\E j \in {"relay", "stderr"} : BeginRead(j)) \/ ReadStderr \/ OpenTarget \/
         TrackOutput
  BY <1>12 DEF FifoOK, TypeOK, BeginRead, ReadStderr, OpenTarget, TrackOutput
<1>13. CASE TrackedOutput
  BY <1>13 DEF FifoOK, TypeOK, TrackedOutput
<1>17. CASE RelayChunk
  <2>1. /\ jobs'["relay"] \in {"reading", "failing"} /\ jobs["relay"] = "reading"
        /\ jobs'["tar"] = jobs["tar"] /\ jobs'["stderr"] = jobs["stderr"] /\ UNCHANGED tar
    BY <1>17 DEF RelayChunk, TypeOK
  <2>2. \A s \in Streams :
          /\ fifo'[s].writers = fifo[s].writers /\ fifo'[s].opened = fifo[s].opened
          /\ fifo'[s].early = fifo[s].early
    BY <1>17 DEF RelayChunk, TypeOK
  <2>. QED BY <2>1, <2>2 DEF FifoOK
<1>16. CASE RelayEof
  <2>1. /\ jobs'["relay"] = "ok" /\ jobs'["tar"] = jobs["tar"]
        /\ jobs'["stderr"] = jobs["stderr"] /\ UNCHANGED tar
    BY <1>16 DEF RelayEof, TypeOK
  <2>2. \A s \in Streams :
          /\ fifo'[s].writers = fifo[s].writers /\ fifo'[s].opened = fifo[s].opened
          /\ s = "relay" \/ fifo'[s].early = fifo[s].early
    BY <1>16 DEF RelayEof, TypeOK
  <2>. QED BY <2>1, <2>2 DEF FifoOK
<1>14. CASE Cancel \/ RunClosers \/ CancelJob
  BY <1>14 DEF FifoOK, TypeOK, Cancel, RunClosers, CancelJob
<1>15. CASE UNCHANGED vars
  BY <1>15 DEF vars, FifoOK
<1>. QED BY <1>1, <1>2, <1>3, <1>4, <1>5, <1>6, <1>7, <1>8, <1>9, <1>10, <1>11, <1>12, <1>13,
             <1>14, <1>15, <1>16, <1>17, Steps

\* The read ends and the paths.
LEMMA DropNext ==
  ASSUME Inv, [Next]_vars
  PROVE  DropOK'
<1>. TypeOK /\ JobsOK /\ TarOK /\ FifoOK /\ DropOK /\ TargetOK
  BY DEF Inv
<1>1. CASE Start \/ MakeFifos \/ TrackPipes \/ Launch
  BY <1>1 DEF DropOK, TypeOK, Start, MakeFifos, TrackPipes, Launch
<1>2. CASE Join
  BY <1>2 DEF DropOK, TypeOK, Join
<1>3. CASE DropFifos
  <2>. QED BY <1>3, Removed DEF DropOK
<1>4. CASE Finish
  <2>1. task = "verdict" /\ UNCHANGED fifo
    BY <1>4 DEF Finish
  <2>2. fault.silent => fault'.silent
    BY <1>4, Failed DEF Finish
  <2>. QED BY <2>1, <2>2 DEF DropOK, Dropped
<1>5. CASE Report
  <2>1. task = "report" /\ UNCHANGED fifo
    BY <1>5 DEF Report
  <2>2. fault.silent => fault'.silent
    BY <1>5, Failed DEF Report
  <2>. QED BY <2>1, <2>2 DEF DropOK, Dropped
<1>6. CASE (\E j \in Jobs : Skip(j)) \/ (\E j \in Jobs : Fail(j))
  BY <1>6 DEF DropOK, TypeOK, Skip, Fail
<1>7. CASE OpenAnchors
  BY <1>7 DEF DropOK, TypeOK, JobsOK, OpenAnchors
<1>8. CASE StartTar \/ AwaitTar \/ (\E j \in Streams : TarWrite(j)) \/ TarExit
  BY <1>8 DEF DropOK, TypeOK, StartTar, AwaitTar, TarWrite, TarExit
<1>9. CASE (\E j \in {"relay", "stderr"} : BeginRead(j)) \/ ReadStderr \/ OpenTarget \/
         TrackOutput
  BY <1>9 DEF DropOK, TypeOK, BeginRead, ReadStderr, OpenTarget, TrackOutput
<1>10. CASE TrackedOutput \/ RelayChunk \/ RelayEof
  BY <1>10 DEF DropOK, TypeOK, TrackedOutput, RelayChunk, RelayEof
<1>11. CASE Cancel \/ RunClosers \/ CancelJob
  BY <1>11 DEF DropOK, TypeOK, Cancel, RunClosers, CancelJob
<1>12. CASE UNCHANGED vars
  BY <1>12 DEF vars, DropOK
<1>. QED BY <1>1, <1>2, <1>3, <1>4, <1>5, <1>6, <1>7, <1>8, <1>9, <1>10, <1>11, <1>12, Steps

\* The target and the chunks on their way.
LEMMA TargetNext ==
  ASSUME Inv, [Next]_vars
  PROVE  TargetOK'
<1>. TypeOK /\ JobsOK /\ TarOK /\ FifoOK /\ DropOK /\ TargetOK
  BY DEF Inv
<1>1. CASE Start
  BY <1>1 DEF TargetOK, TypeOK, Start
<1>2. CASE MakeFifos
  <2>1. \A j \in Jobs : jobs[j] = "none"
    BY <1>2 DEF MakeFifos, JobsOK, Before
  <2>2. /\ jobs["tar"] = "none" /\ jobs["relay"] = "none"
        /\ UNCHANGED <<jobs, tar, target, output>> /\ task' \in {"track", "refused"}
    BY <1>2, <2>1 DEF MakeFifos, Jobs
  <2>3. tar.sent = 0 /\ fifo'["relay"].chunks = 0
    BY <1>2, <2>2, Made DEF TarOK, Streams
  <2>. QED BY <2>2, <2>3 DEF TargetOK
<1>3. CASE TrackPipes
  BY <1>3 DEF TargetOK, TypeOK, TrackPipes
<1>4. CASE Launch
  BY <1>4 DEF TargetOK, TypeOK, JobsOK, Launch
<1>5. CASE Join
  BY <1>5 DEF TargetOK, TypeOK, Join
<1>6. CASE DropFifos
  <2>1. UNCHANGED <<jobs, tar, target, output>> /\ fifo'["relay"].chunks = fifo["relay"].chunks
    BY <1>6, Removed DEF DropFifos, Streams
  <2>2. task' = "error" => task = "refused"
    BY <1>6 DEF DropFifos
  <2>3. task = "refused" => target = None
    BY DEF JobsOK, TargetOK
  <2>. QED BY <2>1, <2>2, <2>3 DEF TargetOK
<1>7. CASE Finish
  <2>1. UNCHANGED <<fifo, jobs, tar, target, output>>
    BY <1>7 DEF Finish
  <2>2. task' = "error" => target = None \/ fault'.silent
    BY <1>7, Failed DEF Finish
  <2>. QED BY <2>1, <2>2 DEF TargetOK
<1>8. CASE Report
  <2>1. UNCHANGED <<fifo, jobs, tar, output>> /\ (target' = target \/ target' = None)
    BY <1>8 DEF Report
  <2>2. target' = None \/ fault'.silent
    BY <1>8, Failed DEF Report
  <2>3. jobs["relay"] \in Over
    BY <1>8 DEF Report, JobsOK, Jobs
  <2>. QED BY <2>1, <2>2, <2>3 DEF TargetOK, Over
<1>9. CASE (\E j \in Jobs : Skip(j)) \/ (\E j \in Jobs : Fail(j))
  BY <1>9 DEF TargetOK, TypeOK, Skip, Fail
<1>10. CASE OpenAnchors
  <2>1. UNCHANGED <<task, tar, target, output>> /\ jobs'["relay"] = jobs["relay"]
        /\ fifo'["relay"].chunks = fifo["relay"].chunks /\ task = "running"
    BY <1>10, Anchors DEF OpenAnchors, Job, Jobs, Streams, TypeOK, JobsOK, Over
  <2>. QED BY <2>1 DEF TargetOK
<1>11. CASE StartTar \/ AwaitTar \/ (\E j \in Streams : TarWrite(j)) \/ TarExit
  BY <1>11 DEF TargetOK, TypeOK, StartTar, AwaitTar, TarWrite, TarExit
<1>12. CASE (\E j \in {"relay", "stderr"} : BeginRead(j)) \/ ReadStderr
  BY <1>12 DEF TargetOK, TypeOK, BeginRead, ReadStderr
<1>13. CASE OpenTarget
  BY <1>13 DEF TargetOK, TypeOK, JobsOK, OpenTarget
<1>14. CASE TrackOutput \/ TrackedOutput \/ RelayChunk \/ RelayEof
  BY <1>14, BoundsAssumption DEF TargetOK, TypeOK, TrackOutput, TrackedOutput, RelayChunk,
         RelayEof
<1>15. CASE Cancel \/ RunClosers \/ CancelJob
  BY <1>15 DEF TargetOK, TypeOK, Cancel, RunClosers, CancelJob
<1>16. CASE UNCHANGED vars
  BY <1>16 DEF vars, TargetOK
<1>. QED BY <1>1, <1>2, <1>3, <1>4, <1>5, <1>6, <1>7, <1>8, <1>9, <1>10, <1>11, <1>12, <1>13,
             <1>14, <1>15, <1>16, Steps

\* The end of the copy.
LEMMA FlowNext ==
  ASSUME Inv, FlowOK, [Next]_vars
  PROVE  FlowOK'
<1>. TypeOK /\ JobsOK /\ TarOK /\ FifoOK /\ DropOK /\ TargetOK
  BY DEF Inv
<1>1. CASE Start \/ TrackPipes \/ Launch
  BY <1>1 DEF FlowOK, TypeOK, Start, TrackPipes, Launch
<1>11. CASE MakeFifos
  BY <1>11 DEF FlowOK, JobsOK, MakeFifos
<1>2. CASE Join \/ Finish \/ Report
  BY <1>2 DEF FlowOK, TypeOK, Join, Finish, Report
<1>12. CASE DropFifos
  <2>1. /\ UNCHANGED <<jobs, tar, target>> /\ fifo'["relay"].early = fifo["relay"].early
        /\ task' = "verdict" => task = "transferred"
        /\ task' \in {"verdict", "report", "error"}
    BY <1>12, Removed DEF DropFifos
  <2>. QED BY <2>1 DEF FlowOK
<1>3. CASE (\E j \in Jobs : Skip(j)) \/ (\E j \in Jobs : Fail(j))
  BY <1>3 DEF FlowOK, TypeOK, Skip, Fail
<1>4. CASE OpenAnchors
  <2>1. /\ UNCHANGED <<tar, task, target>> /\ fifo'["relay"].early = fifo["relay"].early
        /\ jobs["tar"] = "ready" /\ jobs'["relay"] = jobs["relay"]
    BY <1>4, Anchors DEF OpenAnchors, TypeOK
  <2>. QED BY <2>1 DEF FlowOK
<1>13. CASE StartTar \/ AwaitTar
  BY <1>13 DEF FlowOK, TypeOK, StartTar, AwaitTar
<1>14. CASE \E j \in Streams : TarWrite(j)
  <2>1. /\ tar.pc = "write" /\ UNCHANGED <<jobs, task, target>>
        /\ fifo'["relay"].early = fifo["relay"].early
    BY <1>14 DEF TarWrite, TypeOK
  <2>. QED BY <2>1 DEF FlowOK
<1>5. CASE TarExit
  BY <1>5 DEF FlowOK, TypeOK, TarExit
<1>6. CASE (\E j \in {"relay", "stderr"} : BeginRead(j)) \/ ReadStderr \/ OpenTarget \/
         TrackOutput
  BY <1>6 DEF FlowOK, TypeOK, BeginRead, ReadStderr, OpenTarget, TrackOutput
<1>7. CASE TrackedOutput \/ RelayChunk
  BY <1>7 DEF FlowOK, TypeOK, TrackedOutput, RelayChunk
<1>8. CASE RelayEof
  <2>1. /\ jobs["relay"] = "reading" /\ jobs'["tar"] = jobs["tar"]
        /\ UNCHANGED <<tar, task, target>>
        /\ fifo["relay"].chunks = 0 /\ fifo["relay"].writers = {}
        /\ fifo'["relay"].early = ~fifo["relay"].opened
    BY <1>8 DEF RelayEof, TypeOK
  <2>2. target = tar.sent
    BY <2>1 DEF TargetOK, TypeOK
  <2>3. ~fifo["relay"].opened => tar.sent = 0
    BY DEF FifoOK, TarOK
  <2>4. fifo["relay"].opened =>
          jobs["tar"] \in {"waiting", "failing", "ok", "threw"} /\ tar.pc # "write"
    BY <2>1 DEF FifoOK, TypeOK, JobsOK
  <2>. QED BY <2>1, <2>2, <2>3, <2>4 DEF FlowOK, TypeOK
<1>9. CASE Cancel \/ RunClosers \/ CancelJob
  BY <1>9 DEF FlowOK, TypeOK, Cancel, RunClosers, CancelJob
<1>10. CASE UNCHANGED vars
  BY <1>10 DEF vars, FlowOK
<1>. QED BY <1>1, <1>2, <1>3, <1>4, <1>5, <1>6, <1>7, <1>8, <1>9, <1>10, <1>11, <1>12,
             <1>13, <1>14, Steps

\* A step after which there is no reason has none before it and nothing failed.
LEMMA NoReason ==
  ASSUME Inv, [Next]_vars, ~Reason'
  PROVE  ~Reason /\ UNCHANGED fault /\ ~cancelled /\ ~cancelled'
<1>. TypeOK /\ JobsOK /\ FifoOK
  BY DEF Inv
<1>1. ~cancelled' /\ ~(fault'.count > 0) /\ ~fifo'["stderr"].early
  BY DEF Reason
<1>2. UNCHANGED fault
  <2>1. CASE MakeFifos \/ DropFifos \/ Finish \/ Report
    BY <1>1, <2>1, Failed DEF MakeFifos, DropFifos, Finish, Report
  <2>2. CASE OpenAnchors \/ StartTar \/ AwaitTar \/ TarExit \/ OpenTarget \/ RelayChunk
    BY <1>1, <2>2, Failed DEF OpenAnchors, StartTar, AwaitTar, TarExit, OpenTarget, RelayChunk
  <2>3. CASE UNCHANGED fault
    BY <2>3
  <2>. QED BY <2>1, <2>2, <2>3, Steps DEF vars, Start, TrackPipes, Launch, Join, Skip, Fail,
           TarWrite, BeginRead, ReadStderr, TrackOutput, TrackedOutput, RelayEof, Cancel,
           RunClosers, CancelJob
<1>3. ~cancelled
  <2>1. CASE Cancel \/ RunClosers \/ CancelJob
    BY <1>1, <2>1 DEF Cancel, RunClosers, CancelJob
  <2>2. CASE UNCHANGED cancel
    BY <1>1, <2>2
  <2>. QED BY <2>1, <2>2, Steps DEF vars, Start, MakeFifos, TrackPipes, Launch, Join, DropFifos,
           Finish, Report, Skip, Fail, OpenAnchors, StartTar, AwaitTar, TarWrite, TarExit,
           BeginRead, ReadStderr, OpenTarget, TrackOutput, TrackedOutput, RelayChunk, RelayEof
<1>4. ~fifo["stderr"].early
  <2>1. CASE MakeFifos \/ ReadStderr
    <3>1. jobs["stderr"] \in {"none", "reading"}
      BY <2>1 DEF JobsOK, MakeFifos, ReadStderr
    <3>. QED BY <3>1 DEF FifoOK
  <2>2. CASE Launch \/ RunClosers \/ \E j \in Jobs : Fail(j)
    BY <1>1, <2>2, Broken DEF Launch, RunClosers, Fail
  <2>3. CASE DropFifos
    BY <1>1, <2>3, Removed
  <2>4. CASE OpenAnchors
    BY <1>1, <2>4, Anchors
  <2>5. CASE StartTar \/ (\E j \in Streams : TarWrite(j)) \/ TarExit \/ RelayChunk \/ RelayEof
    BY <1>1, <2>5 DEF TypeOK, StartTar, TarWrite, TarExit, RelayChunk, RelayEof
  <2>6. CASE UNCHANGED fifo
    BY <1>1, <2>6
  <2>. QED BY <2>1, <2>2, <2>3, <2>4, <2>5, <2>6, Steps DEF vars, Start, TrackPipes, Join,
           Finish, Report, Skip, AwaitTar, BeginRead, OpenTarget, TrackOutput, TrackedOutput,
           Cancel, CancelJob
<1>. QED BY <1>1, <1>2, <1>3, <1>4 DEF Reason

\* What fails has a reason.
LEMMA ReasonNext ==
  ASSUME Inv, FlowOK, ReasonOK, [Next]_vars
  PROVE  ReasonOK'
<1>. TypeOK /\ JobsOK /\ TarOK /\ FifoOK /\ DropOK /\ TargetOK
  BY DEF Inv
<1>. SUFFICES ASSUME ~Reason' PROVE Sound'
  BY DEF ReasonOK, Sound
<1>1. Sound /\ UNCHANGED fault /\ ~cancelled /\ ~cancelled' /\ ~Reason
  BY NoReason DEF ReasonOK, Sound
<1>2. ~Faulty /\ ~Quietly
  <2>1. fault \in FaultSet /\ fault'.count = fault.count
    BY <1>1 DEF TypeOK
  <2>2. fault.count + 1 # fault.count
    BY <2>1
  <2>3. Faulty \/ Quietly => fault'.count = fault.count + 1
    BY <2>1
  <2>. QED BY <2>1, <2>2, <2>3
<1>3. CASE Start \/ TrackPipes \/ Join \/ Report
  BY <1>1, <1>3 DEF Sound, Start, TrackPipes, Join, Report
<1>4. CASE MakeFifos
  <2>1. /\ fifo' = [s \in Streams |-> [Unmade EXCEPT !.path = TRUE, !.reader = TRUE]]
        /\ task' = "track" /\ UNCHANGED <<jobs, tar, output>>
    BY <1>2, <1>4 DEF MakeFifos
  <2>2. fifo'["relay"].reader /\ fifo'["stderr"].reader
    BY <2>1
  <2>. QED BY <1>1, <2>1, <2>2 DEF Sound
<1>5. CASE Launch
  BY <1>1, <1>5 DEF Sound, JobsOK, Launch
<1>6. CASE DropFifos
  <2>1. UNCHANGED <<jobs, tar, output>> /\ task' = "verdict"
    BY <1>1, <1>6 DEF DropFifos, Sound
  <2>. QED BY <1>1, <2>1 DEF Sound
<1>7. CASE Finish
  <2>1. UNCHANGED <<fifo, jobs, tar, output>> /\ task = "verdict"
    BY <1>7 DEF Finish
  <2>2. target # None
    <3>1. target = IF fifo["relay"].early THEN 0 ELSE tar.sent
      BY <2>1 DEF FlowOK, JobsOK
    <3>. QED BY <3>1, BoundsAssumption DEF TypeOK
  <2>3. task' = "done"
    BY <1>1, <1>2, <1>7, <2>2 DEF Finish
  <2>. QED BY <1>1, <2>1, <2>3 DEF Sound
<1>8. CASE \E j \in Jobs : Skip(j) \/ Fail(j)
  BY <1>1, <1>8 DEF Sound, Skip, Fail
<1>9. CASE OpenAnchors
  <2>1. /\ jobs' = [jobs EXCEPT !["tar"] = "anchored"] /\ UNCHANGED <<tar, task, output>>
        /\ jobs["tar"] = "ready"
    BY <1>2, <1>9 DEF OpenAnchors
  <2>2. fifo'["relay"].reader = fifo["relay"].reader /\ fifo'["stderr"].reader = fifo["stderr"].reader
    BY <1>9, Anchors
  <2>. QED BY <1>1, <2>1, <2>2 DEF Sound, TypeOK
<1>10. CASE StartTar
  <2>1. /\ jobs' = [jobs EXCEPT !["tar"] = "waiting"] /\ UNCHANGED <<task, output>>
        /\ tar'.pc = "write" /\ jobs["tar"] = "anchored" /\ tar.pc = "none"
        /\ \A s \in Streams : fifo'[s].reader = fifo[s].reader
    BY <1>2, <1>10 DEF StartTar, TypeOK, TarOK
  <2>. QED BY <1>1, <2>1 DEF Sound, TypeOK
<1>11. CASE AwaitTar
  <2>1. jobs' = [jobs EXCEPT !["tar"] = "ok"] /\ UNCHANGED <<fifo, tar, task, output>>
    BY <1>1, <1>2, <1>11 DEF AwaitTar, Sound
  <2>. QED BY <1>1, <2>1 DEF Sound, TypeOK
<1>12. ASSUME NEW s \in Streams, TarWrite(s)
       PROVE  Sound'
  <2>1. tar.pc = "write" /\ UNCHANGED <<jobs, task, output>>
    BY <1>12 DEF TarWrite
  <2>2. jobs["tar"] = "waiting"
    BY <1>1, <2>1 DEF TarOK, Sound, TypeOK, JobsOK
  <2>3. task = "running" /\ jobs["stderr"] # "ok"
    BY <1>1, <2>1, <2>2 DEF JobsOK, Sound
  <2>4. fifo[s].reader
    BY <1>1, <2>3 DEF Sound
  <2>5. tar'.pc = "write" /\ \A t \in Streams : fifo'[t].reader = fifo[t].reader
    BY <1>12, <2>1, <2>4 DEF TarWrite, TypeOK
  <2>. QED BY <1>1, <2>1, <2>5 DEF Sound
<1>13. CASE TarExit
  <2>1. /\ UNCHANGED <<jobs, task, output>> /\ tar'.pc = "ok"
        /\ \A t \in Streams : fifo'[t].reader = fifo[t].reader
    BY <1>2, <1>13 DEF TarExit, TypeOK
  <2>. QED BY <1>1, <2>1 DEF Sound
<1>14. CASE \E j \in {"relay", "stderr"} : BeginRead(j)
  BY <1>1, <1>14 DEF Sound, TypeOK, BeginRead
<1>15. CASE ReadStderr
  <2>1. /\ jobs["stderr"] = "reading" /\ UNCHANGED <<tar, task, output>>
        /\ fifo'["relay"] = fifo["relay"] /\ task = "running"
    BY <1>15 DEF ReadStderr, TypeOK, JobsOK
  <2>2. fifo["stderr"].reader
    BY <1>1, <2>1 DEF Sound
  <2>3. CASE GivesChunk("stderr") /\ UNCHANGED jobs
             /\ fifo' = [fifo EXCEPT !["stderr"].chunks = fifo["stderr"].chunks - 1]
    <3>1. fifo'["stderr"].reader
      BY <2>2, <2>3 DEF TypeOK
    <3>. QED BY <1>1, <2>1, <2>3, <3>1 DEF Sound
  <2>4. CASE /\ GivesEof("stderr") /\ jobs' = [jobs EXCEPT !["stderr"] = "ok"]
             /\ fifo' = [fifo EXCEPT !["stderr"].reader = FALSE,
                                     !["stderr"].early = ~fifo["stderr"].opened]
    <3>1. fifo["stderr"].opened /\ fifo["stderr"].writers = {}
      BY <2>4, NoReason DEF TypeOK, Reason
    <3>2. tar.pc = "ok"
      BY <1>1, <3>1 DEF FifoOK, TarOK, Sound, TypeOK, JobsOK
    <3>. QED BY <1>1, <2>1, <2>4, <3>2 DEF Sound, TypeOK
  <2>. QED BY <1>15, <2>2, <2>3, <2>4 DEF ReadStderr
<1>16. CASE OpenTarget
  <2>1. /\ jobs' = [jobs EXCEPT !["relay"] = "track"] /\ output' = TRUE
        /\ UNCHANGED <<fifo, tar, task>>
    BY <1>2, <1>16 DEF OpenTarget
  <2>. QED BY <1>1, <2>1 DEF Sound, TypeOK
<1>17. CASE TrackOutput \/ TrackedOutput
  BY <1>1, <1>17 DEF Sound, TypeOK, TrackOutput, TrackedOutput
<1>18. CASE RelayChunk
  <2>1. jobs["relay"] = "reading" /\ task = "running"
    BY <1>18 DEF RelayChunk, JobsOK
  <2>2. fifo["relay"].reader /\ output
    BY <1>1, <2>1 DEF Sound
  <2>3. /\ fifo' = [fifo EXCEPT !["relay"].chunks = fifo["relay"].chunks - 1]
        /\ UNCHANGED <<jobs, output, tar, task>>
    BY <1>2, <1>18, <2>2 DEF RelayChunk
  <2>4. \A t \in Streams : fifo'[t].reader = fifo[t].reader
    BY <2>3 DEF TypeOK
  <2>. QED BY <1>1, <2>3, <2>4 DEF Sound
<1>19. CASE RelayEof
  <2>1. /\ jobs' = [jobs EXCEPT !["relay"] = "ok"] /\ UNCHANGED <<tar, task>>
        /\ \A t \in Streams : fifo'[t].reader = fifo[t].reader
    BY <1>19 DEF RelayEof, TypeOK
  <2>. QED BY <1>1, <2>1 DEF Sound, TypeOK
<1>20. CASE Cancel \/ RunClosers \/ CancelJob
  BY <1>1, <1>20 DEF Cancel, RunClosers, CancelJob
<1>21. CASE UNCHANGED vars
  BY <1>1, <1>21 DEF vars, Sound
<1>. QED BY <1>3, <1>4, <1>5, <1>6, <1>7, <1>8, <1>9, <1>10, <1>11, <1>12, <1>13, <1>14, <1>15,
             <1>16, <1>17, <1>18, <1>19, <1>20, <1>21, Steps

-----------------------------------------------------------------------------
(* The invariant and what follows from it.                                 *)

LEMMA InitOK ==
  ASSUME Init
  PROVE  EInv
<1>1. /\ fifo = [s \in Streams |-> Unmade] /\ jobs = [j \in Jobs |-> "none"]
      /\ task = "new" /\ target = None /\ output = FALSE /\ cancel = "idle"
      /\ closers = {} /\ fault = [count |-> 0, silent |-> FALSE]
  BY DEF Init
<1>2. PICK n \in 1 .. N : tar = [pc |-> "none", length |-> n, sent |-> 0, warned |-> FALSE]
  BY DEF Init
<1>3. 0 \in 0 .. Capacity /\ 0 \in 0 .. N /\ 0 \in 0 .. MaxFaults /\ None \in 0 .. None
  BY BoundsAssumption
<1>4. TypeOK
  <2>1. fifo \in [Streams -> FifoIn]
    BY <1>1, <1>3
  <2>2. tar \in TarSet /\ fault \in FaultSet
    BY <1>1, <1>2, <1>3
  <2>3. jobs \in [Jobs -> JobLabels] /\ task \in Labels /\ closers \subseteq Closers
    BY <1>1
  <2>4. target \in 0 .. None /\ output \in BOOLEAN /\ cancel \in {"idle", "flagged", "job", "over"}
    BY <1>1, <1>3
  <2>. QED BY <2>1, <2>2, <2>3, <2>4 DEF TypeOK
<1>5. JobsOK /\ TarOK /\ FifoOK /\ DropOK /\ TargetOK /\ FlowOK /\ ReasonOK
  BY <1>1, <1>2 DEF JobsOK, TarOK, FifoOK, DropOK, TargetOK, FlowOK, ReasonOK,
         Sound
<1>. QED BY <1>4, <1>5 DEF Inv, EInv

LEMMA Preserved ==
  ASSUME EInv, [Next]_vars
  PROVE  EInv'
<1>1. Inv'
  BY TypesNext, JobsNext, TarNext, FifoNext, DropNext, TargetNext DEF Inv, EInv
<1>. QED BY <1>1, FlowNext, ReasonNext DEF EInv

LEMMA Invariant == Spec => []EInv
BY InitOK, Preserved, PTL DEF Spec

\* Every variable keeps its type, whatever the length of the archive, the size of
\* the FIFOs and the failures.
THEOREM TypeCorrect == Spec => []TypeOK
<1>1. EInv => TypeOK
  BY DEF EInv, Inv
<1>. QED BY <1>1, Invariant, PTL

\* A compress task reported as done has the whole archive in its target, or
\* nothing of it when its copy met the end before tar came; an error leaves no
\* target but one that could not be removed or asked for, and has a reason.
THEOREM VerdictHolds == Spec => []VerdictIsTrue
<1>1. ASSUME EInv
      PROVE  VerdictIsTrue
  <2>. TypeOK /\ JobsOK /\ TarOK /\ TargetOK /\ FlowOK /\ ReasonOK
    BY <1>1 DEF EInv, Inv
  <2>1. ASSUME task = "done"
        PROVE  tar.pc = "ok" /\ target = IF fifo["relay"].early THEN 0 ELSE tar.length
    <3>1. jobs["tar"] = "ok" /\ jobs["relay"] = "ok"
      BY <2>1 DEF JobsOK
    <3>2. tar.pc = "ok" /\ tar.sent = tar.length
      BY <3>1 DEF TarOK
    <3>. QED BY <2>1, <3>1, <3>2 DEF FlowOK
  <2>2. task = "error" => target = None \/ fault.silent
    BY DEF TargetOK
  <2>3. task = "error" => cancelled \/ fault.count > 0 \/ fifo["stderr"].early
    BY DEF ReasonOK, Reason, Sound
  <2>. QED BY <2>1, <2>2, <2>3 DEF VerdictIsTrue
<1>. QED BY <1>1, Invariant, PTL

\* A compress task that ended left no open end and no path but one that could
\* not be removed, and in the root service only what a call that threw left
\* there: a running tar, or the first of two anchors.
THEOREM EndIsQuiet == Spec => []QuietAtEnd
<1>1. ASSUME EInv, task \in Ending
      PROVE  QuietAtEnd
  <2>. TypeOK /\ JobsOK /\ TarOK /\ FifoOK /\ DropOK /\ TargetOK
    BY <1>1 DEF EInv, Inv
  <2>1. \A j \in Jobs : jobs[j] \in Over
    BY <1>1 DEF JobsOK
  <2>2. tar.pc = "write" => jobs["tar"] = "threw"
    BY <2>1 DEF TarOK
  <2>3. ~output
    BY <2>1 DEF TargetOK
  <2>4. \A s \in Streams : "anchor" \in fifo[s].writers =>
          s = "relay" /\ tar.pc = "none" /\ jobs["tar"] = "threw"
    BY <2>1 DEF FifoOK, TypeOK
  <2>5. \A s \in Streams : ~fifo[s].reader /\ (fifo[s].path => fault.silent)
    BY <1>1 DEF DropOK
  <2>. QED BY <2>2, <2>3, <2>4, <2>5 DEF QuietAtEnd
<1>2. EInv => QuietAtEnd
  BY <1>1 DEF QuietAtEnd
<1>. QED BY <1>2, Invariant, PTL
=============================================================================
