-------------------------- MODULE PackageOpsProofs --------------------------
(***************************************************************************)
(* PackageOps for any number of jobs, cards and keys: the guard's keys and *)
(* its batch flag always have exactly one owner, and so registered jobs    *)
(* never meet on a card.  The inductive invariant says what one job's      *)
(* record may look like (JobOK) and how the records and the guard fit      *)
(* together (GuardOK); a step changes one record and takes, gives back or  *)
(* keeps what that job owns.                                               *)
(***************************************************************************)
EXTENDS PackageOps, TLAPS

Batches == {"batch_archive", "batch_items"}

\* A job that has not begun owns nothing; a job works on cards whose keys it
\* holds, except that a batch over entries relies on its flag.
JobOK(r) ==
  /\ r.pc \in {"idle", "begin"} => r.held = {} /\ ~r.batch /\ r.cards = {}
  /\ r.kind \in {"card_op", "move", "batch_archive"} =>
       \A c \in r.cards : normalize[c] \in r.held
  /\ r.kind = "batch_items" => r.held = {}
  /\ r.kind \in Batches /\ r.pc \notin {"idle", "begin"} => r.batch
  /\ r.kind \in Batches /\ r.pc \in {"launch", "finish"} => r.cards = {} /\ r.held = {}
  /\ r.kind \in {"card_op", "move"} => ~r.batch
  /\ r.kind \notin Guarded => r.held = {} /\ ~r.batch

OwnedKeys == packageOps = UNION {job[j].held : j \in Jobs}
OwnersDiffer == \A i, j \in Jobs : i # j => job[i].held \cap job[j].held = {}
OwnedFlag == globalBatch <=> \E j \in Jobs : job[j].batch
FlagExcludes ==
  \A i, j \in Jobs : i # j /\ job[i].batch => ~job[j].batch /\ job[j].held = {}

GuardOK == OwnedKeys /\ OwnersDiffer /\ OwnedFlag /\ FlagExcludes
IInv == TypeOK /\ (\A j \in Jobs : JobOK(job[j])) /\ GuardOK

-----------------------------------------------------------------------------
(* What one step may do to the guard.                                      *)

\* A step that leaves the guard and what its job owns alone keeps them fitting.
LEMMA KeepOwned ==
  ASSUME NEW j \in Jobs, NEW r \in Job, TypeOK, GuardOK,
         job' = [job EXCEPT ![j] = r], GuardUnchanged,
         r.held = job[j].held, r.batch = job[j].batch
  PROVE  GuardOK'
<1>1. \A i \in Jobs : job'[i].held = job[i].held /\ job'[i].batch = job[i].batch
  BY DEF TypeOK
<1>. QED
  BY <1>1 DEF GuardOK, OwnedKeys, OwnersDiffer, OwnedFlag, FlagExcludes, GuardUnchanged

\* Registering a card whose key is free, while no other job owns the flag.
LEMMA TakeOwned ==
  ASSUME NEW j \in Jobs, NEW r \in Job, NEW c \in Cards, TypeOK, GuardOK,
         job' = [job EXCEPT ![j] = r], Take(c),
         normalize[c] \notin packageOps, ~globalBatch \/ job[j].batch,
         r.held = job[j].held \cup {normalize[c]}, r.batch = job[j].batch
  PROVE  GuardOK'
<1>1. \A i \in Jobs : job'[i] = IF i = j THEN r ELSE job[i]
  BY DEF TypeOK
<1>2. \A i \in Jobs : normalize[c] \notin job[i].held
  BY DEF GuardOK, OwnedKeys
<1>3. \A i \in Jobs : i # j => ~job[i].batch
  BY DEF GuardOK, OwnedFlag, FlagExcludes
<1>4. OwnedKeys'
  <2>1. UNION {job'[i].held : i \in Jobs}
          = (UNION {job[i].held : i \in Jobs}) \cup {normalize[c]}
    BY <1>1
  <2>. QED BY <2>1 DEF GuardOK, OwnedKeys, Take
<1>5. OwnersDiffer'
  BY <1>1, <1>2 DEF GuardOK, OwnersDiffer
<1>6. OwnedFlag'
  BY <1>1 DEF GuardOK, OwnedFlag, Take
<1>7. FlagExcludes'
  BY <1>1, <1>3 DEF GuardOK, FlagExcludes
<1>. QED BY <1>4, <1>5, <1>6, <1>7 DEF GuardOK

\* Giving back everything the job holds.
LEMMA GiveOwned ==
  ASSUME NEW j \in Jobs, NEW r \in Job, TypeOK, GuardOK,
         job' = [job EXCEPT ![j] = r], Give(job[j].held),
         r.held = {}, r.batch = job[j].batch
  PROVE  GuardOK'
<1>1. \A i \in Jobs : job'[i] = IF i = j THEN r ELSE job[i]
  BY DEF TypeOK
<1>2. OwnedKeys'
  <2>1. UNION {job'[i].held : i \in Jobs}
          = (UNION {job[i].held : i \in Jobs}) \ job[j].held
    BY <1>1 DEF GuardOK, OwnersDiffer
  <2>. QED BY <2>1 DEF GuardOK, OwnedKeys, Give
<1>3. OwnersDiffer'
  BY <1>1 DEF GuardOK, OwnersDiffer
<1>4. OwnedFlag'
  BY <1>1 DEF GuardOK, OwnedFlag, Give
<1>5. FlagExcludes'
  BY <1>1 DEF GuardOK, FlagExcludes
<1>. QED BY <1>2, <1>3, <1>4, <1>5 DEF GuardOK

\* Raising the batch flag when nothing is registered.
LEMMA RaiseFlag ==
  ASSUME NEW j \in Jobs, NEW r \in Job, TypeOK, GuardOK,
         job' = [job EXCEPT ![j] = r], CanBeginGlobalBatch,
         globalBatch' = TRUE, UNCHANGED packageOps,
         r.held = job[j].held, r.batch
  PROVE  GuardOK'
<1>1. \A i \in Jobs : job'[i] = IF i = j THEN r ELSE job[i]
  BY DEF TypeOK
<1>2. \A i \in Jobs : job[i].held = {} /\ ~job[i].batch
  BY DEF GuardOK, OwnedKeys, OwnedFlag, CanBeginGlobalBatch
<1>3. \A i \in Jobs : job'[i].held = {}
  BY <1>1, <1>2
<1>4. OwnedKeys' /\ OwnersDiffer'
  BY <1>3 DEF GuardOK, OwnedKeys, OwnersDiffer, CanBeginGlobalBatch
<1>5. OwnedFlag' /\ FlagExcludes'
  BY <1>1, <1>2, <1>3 DEF OwnedFlag, FlagExcludes
<1>. QED BY <1>4, <1>5 DEF GuardOK

\* Lowering it: only its owner does, and nothing else is owned then.
LEMMA LowerFlag ==
  ASSUME NEW j \in Jobs, NEW r \in Job, TypeOK, GuardOK,
         job' = [job EXCEPT ![j] = r], job[j].batch,
         globalBatch' = FALSE, UNCHANGED packageOps,
         r.held = job[j].held, ~r.batch
  PROVE  GuardOK'
<1>1. \A i \in Jobs : job'[i] = IF i = j THEN r ELSE job[i]
  BY DEF TypeOK
<1>2. \A i \in Jobs : job'[i].held = job[i].held /\ ~job'[i].batch
  BY <1>1 DEF GuardOK, FlagExcludes
<1>3. OwnedKeys' /\ OwnersDiffer'
  BY <1>2 DEF GuardOK, OwnedKeys, OwnersDiffer
<1>4. OwnedFlag' /\ FlagExcludes'
  BY <1>2 DEF OwnedFlag, FlagExcludes
<1>. QED BY <1>3, <1>4 DEF GuardOK

\* What is left to show of a step: the new record fits, and the guard with it.
LEMMA StepOK ==
  ASSUME NEW j \in Jobs, NEW r \in Job, IInv, JobOK(r), Become(j, r),
         globalBatch' \in BOOLEAN, packageOps' \subseteq Keys,
         cancels' \in 0 .. MaxCancels, GuardOK'
  PROVE  IInv'
<1>1. job' \in [Jobs -> Job]
  BY DEF IInv, TypeOK, Become
<1>2. \A i \in Jobs : JobOK(job'[i])
  BY DEF IInv, TypeOK, Become
<1>. QED BY <1>1, <1>2 DEF IInv, TypeOK, JobOK

\* A step that only moves its job on, with the guard untouched.
LEMMA QuietStep ==
  ASSUME NEW j \in Jobs, NEW r \in Job, IInv, JobOK(r), Become(j, r), GuardUnchanged,
         cancels' \in 0 .. MaxCancels,
         r.held = job[j].held, r.batch = job[j].batch
  PROVE  IInv'
<1>1. GuardOK'
  BY KeepOwned DEF IInv, Become
<1>. QED BY <1>1, StepOK DEF IInv, TypeOK, GuardUnchanged

\* A step that registers the key of one more card.
LEMMA TakeStep ==
  ASSUME NEW j \in Jobs, NEW r \in Job, NEW c \in Cards, IInv, JobOK(r), Become(j, r),
         Take(c), UNCHANGED cancels,
         normalize[c] \notin packageOps, ~globalBatch \/ job[j].batch,
         r.held = job[j].held \cup {normalize[c]}, r.batch = job[j].batch
  PROVE  IInv'
<1>1. GuardOK'
  BY TakeOwned DEF IInv, Become
<1>2. packageOps' \subseteq Keys /\ globalBatch' \in BOOLEAN
  BY ConstantsAssumption DEF IInv, TypeOK, Take
<1>. QED BY <1>1, <1>2, StepOK DEF IInv, TypeOK

\* A step that gives back all its job holds.
LEMMA GiveStep ==
  ASSUME NEW j \in Jobs, NEW r \in Job, IInv, JobOK(r), Become(j, r),
         Give(job[j].held), UNCHANGED cancels, r.held = {}, r.batch = job[j].batch
  PROVE  IInv'
<1>1. GuardOK'
  BY GiveOwned DEF IInv, Become
<1>. QED BY <1>1, StepOK DEF IInv, TypeOK, Give

-----------------------------------------------------------------------------
(* The steps.                                                              *)

LEMMA IdleOK == Idle \in Job /\ JobOK(Idle) /\ Idle.held = {} /\ Idle.batch = FALSE
BY DEF Idle, Job, Labels, JobOK, Guarded, AllKinds, Batches

LEMMA InitOK == Init => IInv
<1>. SUFFICES ASSUME Init PROVE IInv
  OBVIOUS
<1>1. TypeOK
  <2>1. job \in [Jobs -> Job]
    BY IdleOK DEF Init
  <2>2. cancels \in 0 .. MaxCancels
    BY ConstantsAssumption DEF Init
  <2>. QED BY <2>1, <2>2 DEF Init, TypeOK
<1>2. \A j \in Jobs : JobOK(job[j]) /\ job[j].held = {} /\ ~job[j].batch
  BY IdleOK DEF Init, Idle
<1>3. GuardOK
  BY <1>2 DEF Init, GuardOK, OwnedKeys, OwnersDiffer, OwnedFlag, FlagExcludes
<1>. QED BY <1>1, <1>2, <1>3 DEF IInv

\* A launched coroutine owns nothing yet.
LEMMA StartOK ==
  ASSUME NEW j \in Jobs, NEW kind \in AllKinds, NEW cs \in SUBSET Cards,
         IInv, Start(j, kind, cs)
  PROVE  IInv'
<1>. DEFINE r == [Idle EXCEPT !.kind = kind, !.todo = cs, !.pc = "begin"]
<1>1. r \in Job /\ JobOK(r)
  BY DEF Idle, Job, Labels, JobOK, Guarded, AllKinds, Batches
<1>2. r.held = job[j].held /\ r.batch = job[j].batch
  BY DEF Idle, IInv, JobOK, Start, TypeOK, Job
<1>. QED BY <1>1, <1>2, QuietStep DEF Start, IInv, TypeOK

\* A refused try: the job is gone, having owned nothing.
LEMMA DeniedOK ==
  ASSUME NEW j \in Jobs, IInv, job[j].pc = "begin", GuardUnchanged, UNCHANGED cancels,
         Become(j, Idle)
  PROVE  IInv'
<1>1. job[j].held = {} /\ ~job[j].batch /\ job[j].batch \in BOOLEAN
  BY DEF IInv, TypeOK, JobOK, Job
<1>2. cancels' \in 0 .. MaxCancels
  BY DEF IInv, TypeOK
<1>3. Idle.held = job[j].held /\ Idle.batch = job[j].batch
  BY <1>1, IdleOK
<1>. QED BY <1>2, <1>3, IdleOK, QuietStep

\* Registering the first card: a snapshot or operation, or a move's source.
LEMMA FirstCardOK ==
  ASSUME NEW j \in Jobs, IInv, At(j, "begin", {"card_op", "move"}), UNCHANGED cancels,
         NEW c \in job[j].todo, NEW pc \in {"work", "begin_target"},
         CanBeginPackageOp(c), Take(c),
         Become(j, [job[j] EXCEPT !.pc = pc, !.cards = {c}, !.todo = {},
                                  !.held = {normalize[c]}])
  PROVE  IInv'
<1>. DEFINE r == [job[j] EXCEPT !.pc = pc, !.cards = {c}, !.todo = {},
                                !.held = {normalize[c]}]
<1>1. job[j] \in Job /\ JobOK(job[j]) /\ c \in Cards
  BY DEF IInv, TypeOK, Job
<1>2. job[j].held = {} /\ ~job[j].batch
  BY <1>1 DEF At, JobOK
<1>3. r \in Job /\ r.held = {normalize[c]} /\ r.batch = job[j].batch
  BY <1>1, ConstantsAssumption DEF Job, Labels
<1>4. JobOK(r)
  BY <1>1, <1>2 DEF At, JobOK, Job, Guarded, Batches
<1>5. r.held = job[j].held \cup {normalize[c]}
  BY <1>2, <1>3
<1>6. normalize[c] \notin packageOps /\ ~globalBatch
  BY DEF CanBeginPackageOp
<1>7. Become(j, r)
  OBVIOUS
<1>. HIDE DEF r
<1>. QED BY <1>1, <1>3, <1>4, <1>5, <1>6, <1>7, TakeStep

LEMMA BeginPackageOpOK ==
  ASSUME NEW j \in Jobs, IInv, BeginPackageOp(j)
  PROVE  IInv'
<1>1. At(j, "begin", {"card_op", "move"}) /\ UNCHANGED cancels /\ job[j].pc = "begin"
  BY DEF BeginPackageOp, At
<1>2. PICK c \in job[j].todo :
        \/ ~CanBeginPackageOp(c) /\ GuardUnchanged /\ Become(j, Idle)
        \/ /\ CanBeginPackageOp(c) /\ Take(c)
           /\ Become(j, [job[j] EXCEPT !.pc = "work", !.cards = {c}, !.todo = {},
                                       !.held = {normalize[c]}])
  BY DEF BeginPackageOp
<1>. QED BY <1>1, <1>2, DeniedOK, FirstCardOK

LEMMA BeginMoveSourceOK ==
  ASSUME NEW j \in Jobs, IInv, BeginMoveSource(j)
  PROVE  IInv'
<1>1. At(j, "begin", {"card_op", "move"}) /\ UNCHANGED cancels /\ job[j].pc = "begin"
  BY DEF BeginMoveSource, At
<1>2. PICK c \in job[j].todo :
        \/ ~CanBeginPackageOp(c) /\ GuardUnchanged /\ Become(j, Idle)
        \/ /\ CanBeginPackageOp(c) /\ Take(c)
           /\ Become(j, [job[j] EXCEPT !.pc = "begin_target", !.cards = {c}, !.todo = {},
                                       !.held = {normalize[c]}])
  BY DEF BeginMoveSource
<1>. QED BY <1>1, <1>2, DeniedOK, FirstCardOK

\* The target of a move: busy, and the source is given back; or registered too.
LEMMA BeginMoveTargetOK ==
  ASSUME NEW j \in Jobs, NEW c \in Cards, IInv, BeginMoveTarget(j, c)
  PROVE  IInv'
<1>1. job[j] \in Job /\ JobOK(job[j]) /\ job[j].kind = "move"
  BY DEF IInv, TypeOK, BeginMoveTarget, At
<1>2. UNCHANGED cancels /\ cancels' \in 0 .. MaxCancels
  BY DEF BeginMoveTarget, IInv, TypeOK
<1>3. CASE GuardUnchanged /\ Become(j, [job[j] EXCEPT !.pc = "release", !.cards = {}])
  <2>. DEFINE r == [job[j] EXCEPT !.pc = "release", !.cards = {}]
  <2>1. r \in Job /\ r.held = job[j].held /\ r.batch = job[j].batch
    BY <1>1 DEF Job, Labels
  <2>2. JobOK(r)
    BY <1>1 DEF JobOK, Job, Guarded, Batches
  <2>3. Become(j, r)
    BY <1>3
  <2>. HIDE DEF r
  <2>. QED BY <1>2, <1>3, <2>1, <2>2, <2>3, QuietStep
<1>4. CASE /\ CanBeginPackageOp(c) /\ Take(c)
           /\ Become(j, [job[j] EXCEPT !.pc = "work", !.cards = @ \cup {c},
                                       !.held = @ \cup {normalize[c]}])
  <2>. DEFINE r == [job[j] EXCEPT !.pc = "work", !.cards = @ \cup {c},
                                  !.held = @ \cup {normalize[c]}]
  <2>1. r \in Job /\ r.held = job[j].held \cup {normalize[c]} /\ r.batch = job[j].batch
    BY <1>1, ConstantsAssumption DEF Job, Labels
  <2>2. JobOK(r)
    BY <1>1 DEF JobOK, Job, Guarded, Batches
  <2>3. Become(j, r)
    BY <1>4
  <2>4. normalize[c] \notin packageOps /\ ~globalBatch
    BY <1>4 DEF CanBeginPackageOp
  <2>. HIDE DEF r
  <2>. QED BY <1>2, <1>4, <2>1, <2>2, <2>3, <2>4, TakeStep
<1>. QED BY <1>3, <1>4 DEF BeginMoveTarget

\* The finally block still has the keys.
LEMMA EndWorkOK ==
  ASSUME NEW j \in Jobs, IInv, EndWork(j)
  PROVE  IInv'
<1>. DEFINE r == [job[j] EXCEPT !.pc = "release", !.cards = {}]
<1>1. job[j] \in Job /\ JobOK(job[j]) /\ cancels' \in 0 .. MaxCancels
  BY DEF IInv, TypeOK, EndWork
<1>2. r \in Job /\ r.held = job[j].held /\ r.batch = job[j].batch
  BY <1>1 DEF EndWork, At, Job, Labels
<1>3. JobOK(r)
  BY <1>1 DEF EndWork, At, JobOK, Job, Guarded, Batches
<1>4. Become(j, r) /\ GuardUnchanged
  BY DEF EndWork
<1>. HIDE DEF r
<1>. QED BY <1>1, <1>2, <1>3, <1>4, QuietStep

\* The finally block gives back every key, a move's two included.
LEMMA ReleasePackageOpOK ==
  ASSUME NEW j \in Jobs, IInv, ReleasePackageOp(j)
  PROVE  IInv'
<1>1. ~job[j].batch /\ job[j].batch \in BOOLEAN
  BY DEF IInv, TypeOK, JobOK, ReleasePackageOp, At, Job
<1>2. Idle.held = {} /\ Idle.batch = job[j].batch
  BY <1>1, IdleOK
<1>3. Become(j, Idle) /\ Give(job[j].held) /\ UNCHANGED cancels
  BY DEF ReleasePackageOp
<1>. QED BY <1>2, <1>3, IdleOK, GiveStep

\* A batch raises the flag only over an empty guard.
LEMMA BeginBatchOK ==
  ASSUME NEW j \in Jobs, IInv, BeginBatch(j)
  PROVE  IInv'
<1>1. job[j] \in Job /\ JobOK(job[j]) /\ job[j].pc = "begin" /\ job[j].kind \in Batches
  BY DEF IInv, TypeOK, BeginBatch, At, Batches
<1>2. UNCHANGED <<packageOps, cancels>>
  BY DEF BeginBatch
<1>3. CASE Become(j, Idle) /\ UNCHANGED globalBatch
  BY <1>1, <1>2, <1>3, DeniedOK DEF GuardUnchanged
<1>4. CASE /\ CanBeginGlobalBatch /\ globalBatch' = TRUE
           /\ Become(j, [job[j] EXCEPT !.pc = "launch", !.batch = TRUE])
  <2>. DEFINE r == [job[j] EXCEPT !.pc = "launch", !.batch = TRUE]
  <2>1. r \in Job /\ r.held = job[j].held /\ r.batch
    BY <1>1 DEF Job, Labels
  <2>2. JobOK(r)
    BY <1>1 DEF JobOK, Job, Guarded, Batches
  <2>3. Become(j, r)
    BY <1>4
  <2>. HIDE DEF r
  <2>4. GuardOK'
    BY <1>2, <1>4, <2>1, <2>3, RaiseFlag DEF IInv, Become
  <2>5. globalBatch' \in BOOLEAN /\ packageOps' \subseteq Keys /\ cancels' \in 0 .. MaxCancels
    BY <1>2, <1>4 DEF IInv, TypeOK
  <2>. QED BY <2>1, <2>2, <2>3, <2>4, <2>5, StepOK
<1>. QED BY <1>3, <1>4 DEF BeginBatch

\* The next card of an archive batch, whose flag no other job owns.
LEMMA ArchiveNextOK ==
  ASSUME NEW j \in Jobs, NEW c \in Cards, IInv, ArchiveNext(j, c)
  PROVE  IInv'
<1>1. /\ job[j] \in Job /\ JobOK(job[j])
      /\ job[j].pc = "launch" /\ job[j].kind = "batch_archive"
  BY DEF IInv, TypeOK, ArchiveNext, At
<1>2. job[j].batch /\ job[j].held = {} /\ job[j].cards = {}
  BY <1>1 DEF JobOK, Batches
<1>3. UNCHANGED cancels /\ cancels' \in 0 .. MaxCancels
  BY DEF ArchiveNext, IInv, TypeOK
<1>4. CASE GuardUnchanged /\ Become(j, [job[j] EXCEPT !.todo = @ \ {c}])
  <2>. DEFINE r == [job[j] EXCEPT !.todo = @ \ {c}]
  <2>1. r \in Job /\ r.held = job[j].held /\ r.batch = job[j].batch
    BY <1>1 DEF Job, Labels
  <2>2. JobOK(r)
    BY <1>1 DEF JobOK, Job, Guarded, Batches
  <2>3. Become(j, r)
    BY <1>4
  <2>. HIDE DEF r
  <2>. QED BY <1>3, <1>4, <2>1, <2>2, <2>3, QuietStep
<1>5. CASE /\ CanBeginWhileBatch(c) /\ Take(c)
           /\ Become(j, [job[j] EXCEPT !.todo = @ \ {c}, !.held = {normalize[c]},
                           !.pc = IF job[j].cancelled THEN "dead" ELSE "work",
                           !.cards = IF job[j].cancelled THEN {} ELSE {c}])
  <2>. DEFINE pc == IF job[j].cancelled THEN "dead" ELSE "work"
              cs == IF job[j].cancelled THEN {} ELSE {c}
              r == [job[j] EXCEPT !.todo = @ \ {c}, !.held = {normalize[c]},
                                  !.pc = pc, !.cards = cs]
  <2>1. pc \in {"dead", "work"} /\ cs \subseteq {c}
    OBVIOUS
  <2>2. Become(j, r)
    BY <1>5
  <2>. HIDE DEF pc, cs
  <2>3. r \in Job /\ r.held = job[j].held \cup {normalize[c]} /\ r.batch = job[j].batch
    BY <1>1, <1>2, <2>1, ConstantsAssumption DEF Job, Labels
  <2>4. JobOK(r)
    BY <1>1, <1>2, <2>1 DEF JobOK, Job, Guarded, Batches
  <2>5. normalize[c] \notin packageOps
    BY <1>5 DEF CanBeginWhileBatch
  <2>. HIDE DEF r
  <2>. QED BY <1>2, <1>3, <1>5, <2>2, <2>3, <2>4, <2>5, TakeStep
<1>. QED BY <1>4, <1>5 DEF ArchiveNext

\* A finished snapshot gives its card back, or dies holding it with the flag.
LEMMA ArchiveDoneOK ==
  ASSUME NEW j \in Jobs, IInv, ArchiveDone(j)
  PROVE  IInv'
<1>1. /\ job[j] \in Job /\ JobOK(job[j])
      /\ job[j].pc = "work" /\ job[j].kind = "batch_archive"
  BY DEF IInv, TypeOK, ArchiveDone, At
<1>2. UNCHANGED cancels /\ cancels' \in 0 .. MaxCancels
  BY DEF ArchiveDone, IInv, TypeOK
<1>3. CASE job[j].cancelled
  <2>. DEFINE r == [job[j] EXCEPT !.pc = "dead", !.cards = {}]
  <2>1. r \in Job /\ r.held = job[j].held /\ r.batch = job[j].batch
    BY <1>1 DEF Job, Labels
  <2>2. JobOK(r)
    BY <1>1 DEF JobOK, Job, Guarded, Batches
  <2>3. Become(j, r) /\ GuardUnchanged
    BY <1>3 DEF ArchiveDone
  <2>. HIDE DEF r
  <2>. QED BY <1>2, <2>1, <2>2, <2>3, QuietStep
<1>4. CASE ~job[j].cancelled
  <2>. DEFINE r == [job[j] EXCEPT !.pc = "launch", !.cards = {}, !.held = {}]
  <2>1. r \in Job /\ r.held = {} /\ r.batch = job[j].batch
    BY <1>1 DEF Job, Labels
  <2>2. JobOK(r)
    BY <1>1 DEF JobOK, Job, Guarded, Batches
  <2>3. Become(j, r) /\ Give(job[j].held)
    BY <1>4 DEF ArchiveDone
  <2>. HIDE DEF r
  <2>. QED BY <1>2, <2>1, <2>2, <2>3, GiveStep
<1>. QED BY <1>3, <1>4

\* An entry of a batch is covered by the flag alone.
LEMMA ItemNextOK ==
  ASSUME NEW j \in Jobs, NEW c \in Cards, IInv, ItemNext(j, c)
  PROVE  IInv'
<1>. DEFINE r == [job[j] EXCEPT !.pc = "work", !.cards = {c}, !.todo = @ \ {c}]
<1>1. job[j] \in Job /\ JobOK(job[j]) /\ cancels' \in 0 .. MaxCancels
  BY DEF IInv, TypeOK, ItemNext
<1>2. r \in Job /\ r.held = job[j].held /\ r.batch = job[j].batch
  BY <1>1 DEF ItemNext, At, Job, Labels
<1>3. JobOK(r)
  BY <1>1 DEF ItemNext, At, JobOK, Job, Guarded, Batches
<1>4. Become(j, r) /\ GuardUnchanged
  BY DEF ItemNext
<1>. HIDE DEF r
<1>. QED BY <1>1, <1>2, <1>3, <1>4, QuietStep

\* Between two entries the batch works on no card.
LEMMA ItemDoneOK ==
  ASSUME NEW j \in Jobs, IInv, ItemDone(j)
  PROVE  IInv'
<1>. DEFINE r == [job[j] EXCEPT !.pc = "launch", !.cards = {}]
<1>1. job[j] \in Job /\ JobOK(job[j]) /\ cancels' \in 0 .. MaxCancels
  BY DEF IInv, TypeOK, ItemDone
<1>2. r \in Job /\ r.held = job[j].held /\ r.batch = job[j].batch
  BY <1>1 DEF ItemDone, At, Job, Labels
<1>3. JobOK(r)
  BY <1>1 DEF ItemDone, At, JobOK, Job, Guarded, Batches
<1>4. Become(j, r) /\ GuardUnchanged
  BY DEF ItemDone
<1>. HIDE DEF r
<1>. QED BY <1>1, <1>2, <1>3, <1>4, QuietStep

\* However the loop ends, the flag is still up.
LEMMA LeaveLoopOK ==
  ASSUME NEW j \in Jobs, IInv, LeaveLoop(j)
  PROVE  IInv'
<1>. DEFINE r == [job[j] EXCEPT !.pc = "finish", !.todo = {}]
<1>1. job[j] \in Job /\ JobOK(job[j]) /\ cancels' \in 0 .. MaxCancels
  BY DEF IInv, TypeOK, LeaveLoop
<1>2. r \in Job /\ r.held = job[j].held /\ r.batch = job[j].batch
  BY <1>1 DEF LeaveLoop, At, Job, Labels
<1>3. JobOK(r)
  BY <1>1 DEF LeaveLoop, At, JobOK, Job, Guarded, Batches
<1>4. Become(j, r) /\ GuardUnchanged
  BY DEF LeaveLoop
<1>. HIDE DEF r
<1>. QED BY <1>1, <1>2, <1>3, <1>4, QuietStep

\* The flag comes down with its owner, or stays up with a dead one.
LEMMA EndBatchOK ==
  ASSUME NEW j \in Jobs, IInv, EndBatch(j)
  PROVE  IInv'
<1>1. /\ job[j] \in Job /\ JobOK(job[j])
      /\ job[j].pc = "finish" /\ job[j].kind \in Batches
  BY DEF IInv, TypeOK, EndBatch, At, Batches
<1>2. job[j].batch /\ job[j].held = {} /\ job[j].cards = {}
  BY <1>1 DEF JobOK, Batches
<1>3. UNCHANGED <<packageOps, cancels>> /\ cancels' \in 0 .. MaxCancels
  BY DEF EndBatch, IInv, TypeOK
<1>4. CASE job[j].cancelled /\ job[j].kind = "batch_items"
  <2>. DEFINE r == [job[j] EXCEPT !.pc = "dead"]
  <2>1. r \in Job /\ r.held = job[j].held /\ r.batch = job[j].batch
    BY <1>1 DEF Job, Labels
  <2>2. JobOK(r)
    BY <1>1, <1>2 DEF JobOK, Job, Guarded, Batches
  <2>3. Become(j, r) /\ GuardUnchanged
    BY <1>3, <1>4 DEF EndBatch, GuardUnchanged
  <2>. HIDE DEF r
  <2>. QED BY <1>3, <2>1, <2>2, <2>3, QuietStep
<1>5. CASE ~(job[j].cancelled /\ job[j].kind = "batch_items")
  <2>1. globalBatch' = FALSE /\ Become(j, Idle)
    BY <1>5 DEF EndBatch
  <2>2. Idle.held = job[j].held /\ ~Idle.batch /\ Idle \in Job /\ JobOK(Idle)
    BY <1>2, IdleOK
  <2>3. GuardOK'
    BY <1>2, <1>3, <2>1, <2>2, LowerFlag DEF IInv, Become
  <2>4. globalBatch' \in BOOLEAN /\ packageOps' \subseteq Keys
    BY <1>3, <2>1 DEF IInv, TypeOK
  <2>. QED BY <1>3, <2>1, <2>2, <2>3, <2>4, StepOK
<1>. QED BY <1>4, <1>5

\* A restore owns nothing, now or later.
LEMMA BeginRestoreOK ==
  ASSUME NEW j \in Jobs, IInv, BeginRestore(j)
  PROVE  IInv'
<1>. DEFINE r == [job[j] EXCEPT !.pc = "work", !.cards = job[j].todo, !.todo = {}]
<1>1. job[j] \in Job /\ JobOK(job[j]) /\ cancels' \in 0 .. MaxCancels
  BY DEF IInv, TypeOK, BeginRestore
<1>2. r \in Job /\ r.held = job[j].held /\ r.batch = job[j].batch
  BY <1>1 DEF BeginRestore, At, Job, Labels
<1>3. JobOK(r)
  BY <1>1 DEF BeginRestore, At, JobOK, Job, Guarded, Batches
<1>4. Become(j, r) /\ GuardUnchanged
  BY DEF BeginRestore
<1>. HIDE DEF r
<1>. QED BY <1>1, <1>2, <1>3, <1>4, QuietStep

LEMMA BeginUninstallOK ==
  ASSUME NEW j \in Jobs, IInv, BeginUninstall(j)
  PROVE  IInv'
<1>. DEFINE r == [job[j] EXCEPT !.pc = "work", !.cards = job[j].todo, !.todo = {}]
<1>1. job[j] \in Job /\ JobOK(job[j]) /\ job[j].kind = "uninstall" /\ job[j].pc = "begin"
  BY DEF IInv, TypeOK, BeginUninstall, At
<1>2. cancels' \in 0 .. MaxCancels /\ UNCHANGED cancels /\ GuardUnchanged
  BY DEF IInv, TypeOK, BeginUninstall
<1>3. r \in Job /\ r.held = job[j].held /\ r.batch = job[j].batch
  BY <1>1 DEF Job, Labels
<1>4. JobOK(r)
  BY <1>1 DEF JobOK, Job, Guarded, Batches
<1>5. Become(j, Idle) \/ Become(j, r)
  BY DEF BeginUninstall
<1>. HIDE DEF r
<1>. QED BY <1>1, <1>2, <1>3, <1>4, <1>5, DeniedOK, QuietStep

LEMMA EndUnregisteredOK ==
  ASSUME NEW j \in Jobs, IInv, EndUnregistered(j)
  PROVE  IInv'
<1>1. job[j].held = {} /\ job[j].batch = FALSE
  BY DEF IInv, TypeOK, JobOK, Job, EndUnregistered, At, Guarded
<1>2. cancels' \in 0 .. MaxCancels /\ GuardUnchanged /\ Become(j, Idle)
  BY DEF IInv, TypeOK, EndUnregistered
<1>3. Idle.held = job[j].held /\ Idle.batch = job[j].batch
  BY <1>1, IdleOK
<1>. QED BY <1>2, <1>3, IdleOK, QuietStep

\* A cancelled scope changes what a job will do, not what it owns.
LEMMA CancelOK ==
  ASSUME NEW j \in Jobs, IInv, Cancel(j)
  PROVE  IInv'
<1>. DEFINE r == [job[j] EXCEPT !.cancelled = TRUE]
<1>1. job[j] \in Job /\ JobOK(job[j])
  BY DEF IInv, TypeOK
<1>2. cancels' \in 0 .. MaxCancels
  BY ConstantsAssumption DEF IInv, TypeOK, Cancel
<1>3. r \in Job /\ r.held = job[j].held /\ r.batch = job[j].batch
  BY <1>1 DEF Job
<1>4. JobOK(r)
  BY <1>1 DEF JobOK, Job
<1>5. Become(j, r) /\ GuardUnchanged
  BY DEF Cancel
<1>. HIDE DEF r
<1>. QED BY <1>2, <1>3, <1>4, <1>5, QuietStep

\* Every step preserves the invariant.
LEMMA NextOK == IInv /\ [Next]_vars => IInv'
<1>. SUFFICES ASSUME IInv, [Next]_vars PROVE IInv'
  OBVIOUS
<1>1. CASE UNCHANGED vars
  BY <1>1 DEF vars, IInv, TypeOK, JobOK, GuardOK, OwnedKeys, OwnersDiffer, OwnedFlag,
              FlagExcludes
<1>2. ASSUME NEW j \in Jobs, Run(j) PROVE IInv'
  <2>1. CASE \E c \in Cards : BeginMoveTarget(j, c) \/ ArchiveNext(j, c) \/ ItemNext(j, c)
    BY <2>1, BeginMoveTargetOK, ArchiveNextOK, ItemNextOK
  <2>2. CASE \/ BeginPackageOp(j) \/ BeginMoveSource(j) \/ EndWork(j) \/ ReleasePackageOp(j)
             \/ BeginBatch(j) \/ ArchiveDone(j) \/ ItemDone(j) \/ LeaveLoop(j)
    BY <2>2, BeginPackageOpOK, BeginMoveSourceOK, EndWorkOK, ReleasePackageOpOK,
       BeginBatchOK, ArchiveDoneOK, ItemDoneOK, LeaveLoopOK
  <2>3. CASE EndBatch(j) \/ BeginRestore(j) \/ BeginUninstall(j) \/ EndUnregistered(j)
    BY <2>3, EndBatchOK, BeginRestoreOK, BeginUninstallOK, EndUnregisteredOK
  <2>. QED BY <1>2, <2>1, <2>2, <2>3 DEF Run
<1>. QED BY <1>1, <1>2, StartOK, CancelOK DEF Next

THEOREM Invariance == Spec => []IInv
BY InitOK, NextOK, PTL DEF Spec

-----------------------------------------------------------------------------
(* The theorems.                                                           *)

\* The guard holds normalised keys only, and every job stays one of the kinds.
THEOREM TypeCorrect == Spec => []TypeOK
<1>1. IInv => TypeOK
  BY DEF IInv
<1>. QED BY <1>1, Invariance, PTL

\* Each registered key, and the flag, belongs to exactly one job that exists.
THEOREM Owners == Spec => []KeysHaveOwners
<1>1. IInv => KeysHaveOwners
  BY DEF IInv, GuardOK, OwnedKeys, OwnersDiffer, OwnedFlag, KeysHaveOwners
<1>. QED BY <1>1, Invariance, PTL

\* While one job owns the flag, the other registered jobs own and touch nothing.
LEMMA BatchAloneOK == IInv => BatchAlone
<1>. SUFFICES ASSUME IInv, NEW i \in Jobs, NEW j \in Jobs, i # j, job[i].batch
              PROVE  ~job[j].batch /\ job[j].held = {} /\ (job[j].kind \in Guarded => job[j].cards = {})
  BY DEF BatchAlone
<1>1. ~job[j].batch /\ job[j].held = {}
  BY DEF IInv, GuardOK, FlagExcludes
<1>2. JobOK(job[j]) /\ job[j] \in Job
  BY DEF IInv, TypeOK
<1>3. CASE job[j].kind \in {"card_op", "move", "batch_archive"}
  BY <1>1, <1>2, <1>3 DEF JobOK
<1>4. CASE job[j].kind = "batch_items"
  BY <1>1, <1>2, <1>4 DEF JobOK, Batches
<1>. QED BY <1>1, <1>3, <1>4 DEF Guarded

THEOREM BatchExclusion == Spec => []BatchAlone
BY BatchAloneOK, Invariance, PTL

\* Two registered jobs never work on one card, under whatever spelling.
THEOREM CardExclusion == Spec => []GuardedNeverShare
<1>1. IInv => GuardedNeverShare
  <2>. SUFFICES ASSUME IInv, NEW i \in Jobs, NEW j \in Jobs, i # j,
                       job[i].kind \in Guarded, job[j].kind \in Guarded,
                       NEW c \in job[i].cards, NEW d \in job[j].cards,
                       normalize[c] = normalize[d]
                PROVE  FALSE
    BY DEF GuardedNeverShare, Share
  <2>1. ~job[i].batch /\ ~job[j].batch
    BY BatchAloneOK DEF BatchAlone
  <2>2. JobOK(job[i]) /\ JobOK(job[j])
    BY DEF IInv
  <2>3. normalize[c] \in job[i].held /\ normalize[d] \in job[j].held
    BY <2>1, <2>2 DEF JobOK, Guarded, Batches
  <2>. QED BY <2>3 DEF IInv, GuardOK, OwnersDiffer
<1>. QED BY <1>1, Invariance, PTL

\* An archive batch between two cards has the guard to itself: the branch that
\* skips a busy card is dead code.
THEOREM BatchFindsFree == Spec => []BatchFindsCardsFree
<1>1. IInv => BatchFindsCardsFree
  <2>. SUFFICES ASSUME IInv, NEW j \in Jobs, At(j, "launch", {"batch_archive"})
                PROVE  packageOps = {}
    BY DEF BatchFindsCardsFree
  <2>1. job[j].batch /\ job[j].held = {}
    BY DEF IInv, JobOK, At, Batches
  <2>2. \A i \in Jobs : job[i].held = {}
    BY <2>1 DEF IInv, GuardOK, FlagExcludes
  <2>. QED BY <2>2 DEF IInv, GuardOK, OwnedKeys
<1>. QED BY <1>1, Invariance, PTL
=============================================================================
