----------------------- MODULE GroupMembershipProofs ------------------------
(***************************************************************************)
(* GroupMembership for every number of groups, archives and coroutines.    *)
(*                                                                         *)
(* Control.  What a label implies, and whose locks and keys are taken: the *)
(* types, and the record of the last restore that no move loses.           *)
(*                                                                         *)
(* Transfer.  When exists() and listDir() can be trusted, a move loses no  *)
(* archive and arrives whole, for any number of failing deletes and copies *)
(* and of deaths of the process (DInv).                                    *)
(***************************************************************************)
EXTENDS GroupMembership, TLAPS

-----------------------------------------------------------------------------
(* Control: what a label implies, and whose keys are taken.                *)

Holding == {"look", "drop_target", "move", "copy", "undo", "drop_source", "await", "meta"}

JobFits(p, r) ==
  /\ p \in Movers => r.pc \in MoveLabels \cup {"idle"}
  /\ p = User => r.pc \in {"idle", "mkdir", "reload"}
  /\ p = Snapshotter => r.pc \in {"idle", "backup"}
  /\ p \in Movers /\ r.pc # "idle" => r.from # r.to
  /\ r.pc = "target_key" => r.from \in r.held
  /\ r.pc \in Holding => {r.from, r.to} \subseteq r.held
  /\ r.pc = "backup" => r.from \in r.held
  /\ r.pc = "reload" => r.step \in 1..Len(groupIds)
  /\ r.pc = "meta" => r.step \in 1..3
  /\ r.answer = "moved" => /\ r.pc \in {"await", "meta", "reload", "release"}
                           /\ {r.from, r.to} \subseteq r.held
  /\ r.pc \in {"idle", "mkdir"} => r.held = {}
  /\ p = User => r.held = {} /\ r.answer = "none"

JobsFit == \A p \in Procs : JobFits(p, job[p])
KeysApart == \A p, q \in Procs : p # q => job[p].held \cap job[q].held = {}
MutexFits == \A p \in Procs : job[p].pc \in Locked <=> mutex = p
KeysFit ==
  /\ \A p \in Procs : job[p].held \subseteq packageOps
  /\ \A g \in packageOps : \E p \in Procs : g \in job[p].held

Types ==
  /\ dir \in [Groups -> Tree \cup {NoDir}] /\ exclusive \in [Groups -> BOOLEAN]
  /\ meta \in [Groups -> SUBSET {"locked", "record"}]
  /\ member \in [Groups -> BOOLEAN] /\ saved \subseteq Archives
  /\ mutex \in Procs \cup {NoOne} /\ job \in [Procs -> Job]
  /\ faults \in 0..MaxFaults /\ crashes \in 0..MaxCrashes /\ changes \in 0..MaxChanges

CInv == Types /\ MutexFits /\ KeysFit /\ KeysApart /\ JobsFit

\* Facts about the constants.
LEMMA Constants ==
  /\ Len(groupIds) \in Nat \ {0}
  /\ \A i \in 1..Len(groupIds) : groupIds[i] \in Groups
  /\ User \in Procs /\ Snapshotter \in Procs /\ Movers \subseteq Procs
  /\ User # Snapshotter /\ User \notin Movers /\ Snapshotter \notin Movers
  /\ NoOne \notin Procs
<1>1. Len(groupIds) \in Nat
  BY ConstantsAssumption
<1>2. \A i \in 1..Len(groupIds) : groupIds[i] \in Groups
  BY DEF Groups
<1>3. Len(groupIds) # 0
  BY <1>1, ConstantsAssumption DEF Groups
<1> QED BY <1>1, <1>2, <1>3, ConstantsAssumption DEF Procs

LEMMA IdleType == Idle \in Job /\ \A p \in Procs : JobFits(p, Idle)
<1>1. groupIds[1] \in Groups /\ 0 \in 0..(Len(groupIds) + 3)
  BY Constants
<1> QED BY <1>1 DEF Idle, Job, Labels, MoveLabels, Answers, JobFits, Holding

\* One coroutine goes on, with the key and the mutex accounted for.
LEMMA OneJob ==
  ASSUME CInv, NEW p \in Procs, NEW r \in Job, job' = [job EXCEPT ![p] = r],
         JobFits(p, r),
         \/ r.held = job[p].held /\ packageOps' = packageOps
         \/ \E g \in Groups : g \notin packageOps /\ packageOps' = packageOps \cup {g}
                              /\ r.held = job[p].held \cup {g}
         \/ r.held = {} /\ packageOps' = packageOps \ job[p].held,
         \/ mutex' = mutex /\ (r.pc \in Locked <=> job[p].pc \in Locked)
         \/ mutex = NoOne /\ mutex' = p /\ r.pc \in Locked
         \/ mutex = p /\ mutex' = NoOne /\ r.pc \notin Locked
  PROVE  /\ job' \in [Procs -> Job] /\ mutex' \in Procs \cup {NoOne}
         /\ MutexFits' /\ KeysFit' /\ KeysApart' /\ JobsFit'
<1>1. /\ job' \in [Procs -> Job] /\ job'[p] = r
      /\ \A q \in Procs \ {p} : job'[q] = job[q]
  BY DEF CInv, Types
<1>2. mutex' \in Procs \cup {NoOne}
  BY DEF CInv, Types
<1>3. MutexFits'
  BY <1>1, Constants DEF CInv, Types, MutexFits
<1>4. JobsFit'
  <2> SUFFICES ASSUME NEW q \in Procs PROVE JobFits(q, job'[q])
    BY DEF JobsFit, JobFits
  <2> QED BY <1>1 DEF CInv, JobsFit
<1>5. \A q \in Procs : job[q].held \subseteq packageOps
  BY DEF CInv, KeysFit
<1>6. KeysApart'
  BY <1>1, <1>5 DEF CInv, KeysApart
<1>7. KeysFit'
  <2>1. \A q \in Procs : job'[q].held \subseteq packageOps'
    BY <1>1, <1>5 DEF CInv, KeysApart
  <2>2. ASSUME NEW g \in packageOps' PROVE \E q \in Procs : g \in job'[q].held
    <3>1. CASE g \in packageOps
      <4>1. PICK q \in Procs : g \in job[q].held
        BY <3>1 DEF CInv, KeysFit
      <4>2. CASE q # p
        BY <1>1, <4>1, <4>2
      <4>3. CASE q = p
        BY <1>1, <2>2, <4>1, <4>3
      <4> QED BY <4>2, <4>3
    <3>2. CASE g \notin packageOps
      BY <1>1, <2>2, <3>2
    <3> QED BY <3>1, <3>2
  <2> QED BY <2>1, <2>2 DEF KeysFit
<1> QED BY <1>1, <1>2, <1>3, <1>4, <1>6, <1>7

-----------------------------------------------------------------------------
(* Types of what the steps write.                                          *)

Typed ==
  /\ dir \in [Groups -> Tree \cup {NoDir}] /\ exclusive \in [Groups -> BOOLEAN]
  /\ meta \in [Groups -> SUBSET {"locked", "record"}]
  /\ member \in [Groups -> BOOLEAN] /\ saved \subseteq Archives
  /\ faults \in 0..MaxFaults /\ crashes \in 0..MaxCrashes /\ changes \in 0..MaxChanges

LEMMA Trees ==
  /\ EmptyDir \in Tree
  /\ \A t \in Tree \cup {NoDir} : Remnants(t) \subseteq Tree /\ Cuts(t) \subseteq Tree
BY DEF EmptyDir, Tree, Remnants, Cuts

LEMMA FailType ==
  ASSUME Typed, Fail
  PROVE  faults' \in 0..MaxFaults /\ crashes' \in 0..MaxCrashes /\ changes' \in 0..MaxChanges
BY ConstantsAssumption DEF Typed, Fail, CanFail

LEMMA SetDirType ==
  ASSUME Typed, NEW g \in Groups, NEW t \in Tree \cup {NoDir}, SetDir(g, t)
  PROVE  /\ dir' \in [Groups -> Tree \cup {NoDir}] /\ exclusive' \in [Groups -> BOOLEAN]
         /\ meta' \in [Groups -> SUBSET {"locked", "record"}]
BY DEF Typed, SetDir

\* The fields of a job.
LEMMA Fields ==
  ASSUME NEW r \in Job
  PROVE  /\ r.pc \in Labels /\ r.from \in Groups /\ r.to \in Groups
         /\ r.held \subseteq Groups /\ r.had \subseteq Archives
         /\ r.step \in 0..(Len(groupIds) + 3) /\ r.answer \in Answers
BY DEF Job

\* OneJob, with the rest of the state typed.
LEMMA Advance ==
  ASSUME CInv, NEW p \in Procs, NEW r \in Job, Become(p, r), JobFits(p, r),
         \/ r.held = job[p].held /\ packageOps' = packageOps
         \/ \E g \in Groups : g \notin packageOps /\ packageOps' = packageOps \cup {g}
                              /\ r.held = job[p].held \cup {g}
         \/ r.held = {} /\ packageOps' = packageOps \ job[p].held,
         \/ mutex' = mutex /\ (r.pc \in Locked <=> job[p].pc \in Locked)
         \/ mutex = NoOne /\ mutex' = p /\ r.pc \in Locked
         \/ mutex = p /\ mutex' = NoOne /\ r.pc \notin Locked,
         Typed'
  PROVE  CInv'
<1>1. job' = [job EXCEPT ![p] = r]
  BY DEF Become
<1>2. /\ job' \in [Procs -> Job] /\ mutex' \in Procs \cup {NoOne}
      /\ MutexFits' /\ KeysFit' /\ KeysApart' /\ JobsFit'
  BY <1>1, OneJob
<1> QED BY <1>2 DEF CInv, Types, Typed, MutexFits, KeysFit, KeysApart, JobsFit

\* A mover that holds both keys goes on.
LEMMA GoOn ==
  ASSUME CInv, NEW m \in Movers, NEW r \in Job, Become(m, r), Typed',
         job[m].pc \in Holding \ {"meta"}, r.pc \in Holding \ {"meta"},
         r.from = job[m].from, r.to = job[m].to, r.held = job[m].held,
         r.answer = "moved" => r.pc = "await",
         UNCHANGED <<packageOps, mutex>>
  PROVE  CInv'
<1>1. m \in Procs /\ m # User /\ m # Snapshotter
  BY Constants
<1>2. JobFits(m, job[m])
  BY <1>1 DEF CInv, JobsFit
<1>3. JobFits(m, r)
  BY <1>1, <1>2 DEF JobFits, MoveLabels, Holding
<1>4. r.pc \notin Locked /\ job[m].pc \notin Locked
  BY DEF Locked, Holding
<1> QED BY <1>1, <1>3, <1>4, Advance

\* A mover gives its answer.
LEMMA Answered ==
  ASSUME CInv, NEW m \in Movers, NEW a \in Answers, Answer(m, a), Typed',
         job[m].pc # "idle", a = "moved" => job[m].answer = a, packageOps' = packageOps,
         \/ job[m].pc \notin Locked /\ mutex' = mutex
         \/ job[m].pc \in Locked /\ mutex' = NoOne
  PROVE  CInv'
<1> DEFINE r == [job[m] EXCEPT !.pc = "release", !.answer = a, !.step = 0]
<1>1. m \in Procs /\ m # User /\ m # Snapshotter /\ 0 \in 0..(Len(groupIds) + 3)
  BY Constants
<1>2. job[m] \in Job /\ JobFits(m, job[m])
  BY <1>1 DEF CInv, Types, JobsFit
<1>3. /\ r \in Job /\ r.pc = "release" /\ r.answer = a /\ r.from = job[m].from
      /\ r.to = job[m].to /\ r.held = job[m].held
  BY <1>1, <1>2 DEF Job, Labels, MoveLabels
<1>4. Become(m, r)
  BY DEF Answer
<1> HIDE DEF r
<1>5. JobFits(m, r)
  BY <1>1, <1>2, <1>3 DEF JobFits, MoveLabels, Holding
<1>6. job[m].pc \in Locked => mutex = m
  BY <1>1 DEF CInv, MutexFits
<1>7. r.pc \notin Locked
  BY <1>3 DEF Locked
<1> QED BY <1>1, <1>3, <1>4, <1>5, <1>6, <1>7, Advance

-----------------------------------------------------------------------------
(* Each action keeps the control.                                          *)

\* What is used of a coroutine in every action.
LEMMA Here ==
  ASSUME CInv, NEW p \in Procs
  PROVE  /\ job[p] \in Job /\ JobFits(p, job[p]) /\ Typed
         /\ (job[p].pc \in Locked <=> mutex = p)
         /\ 0 \in 0..(Len(groupIds) + 3) /\ 1 \in 0..(Len(groupIds) + 3)
         /\ 1 \in 1..Len(groupIds) /\ Idle \in Job /\ JobFits(p, Idle)
<1>1. Len(groupIds) \in Nat \ {0}
  BY Constants
<1>2. /\ 0 \in 0..(Len(groupIds) + 3) /\ 1 \in 0..(Len(groupIds) + 3)
      /\ 1 \in 1..Len(groupIds)
  BY <1>1
<1> QED BY <1>2, IdleType DEF CInv, Types, Typed, JobsFit, MutexFits

LEMMA StartMoveFits ==
  ASSUME CInv, NEW m \in Movers, NEW f \in Groups, NEW t \in Groups, StartMove(m, f, t)
  PROVE  CInv'
<1> DEFINE r == [Idle EXCEPT !.pc = "precheck", !.from = f, !.to = t]
<1>1. m \in Procs /\ m # User /\ m # Snapshotter
  BY Constants
<1>2. r \in Job /\ r.held = {} /\ r.pc = "precheck" /\ r.from = f /\ r.to = t /\ r.answer = "none"
  BY IdleType DEF Idle, Job, Labels, MoveLabels
<1>3. f # t /\ Become(m, r) /\ job[m].pc = "idle"
      /\ UNCHANGED <<disk, member, packageOps, mutex, saved, counters>>
  BY DEF StartMove, At
<1> HIDE DEF r
<1>4. JobFits(m, r)
  BY <1>1, <1>2, <1>3 DEF JobFits, MoveLabels, Holding
<1>5. r.held = job[m].held
  BY <1>1, <1>2, <1>3, Here DEF JobFits
<1>6. r.pc \in Locked <=> job[m].pc \in Locked
  BY <1>2, <1>3 DEF Locked
<1>7. Typed'
  BY <1>1, <1>3, Here DEF Typed, disk, counters
<1> QED BY <1>1, <1>2, <1>3, <1>4, <1>5, <1>6, <1>7, Advance

LEMMA PrecheckFits ==
  ASSUME CInv, NEW m \in Movers, Precheck(m)
  PROVE  CInv'
<1> DEFINE a == Refusal(job[m].from, job[m].to)
<1>1. m \in Procs /\ m # User /\ m # Snapshotter
  BY Constants
<1>2. Typed'
  BY <1>1, Here DEF Precheck, Typed, disk, counters
<1>3. a \in Answers /\ a # "moved"
  BY DEF Refusal, Answers
<1>4. CASE a # "none"
  <2>1. Answer(m, a) /\ job[m].pc = "precheck" /\ UNCHANGED <<packageOps, mutex>>
    BY <1>4 DEF Precheck, At
  <2> HIDE DEF a
  <2> QED BY <1>2, <1>3, <2>1, Answered DEF Locked
<1>5. CASE a = "none"
  <2> DEFINE r == [job[m] EXCEPT !.pc = "source_key"]
  <2>1. Become(m, r) /\ job[m].pc = "precheck" /\ UNCHANGED <<packageOps, mutex>>
    BY <1>5 DEF Precheck, At, Goto
  <2>2. /\ r \in Job /\ r.pc = "source_key" /\ r.held = job[m].held /\ r.from = job[m].from
        /\ r.to = job[m].to /\ r.answer = job[m].answer
    BY <1>1, Here DEF Job, Labels, MoveLabels
  <2> HIDE DEF r
  <2>3. JobFits(m, r)
    BY <1>1, <2>1, <2>2, Here DEF JobFits, MoveLabels, Holding
  <2>4. r.pc \notin Locked /\ job[m].pc \notin Locked
    BY <2>1, <2>2 DEF Locked
  <2> QED BY <1>1, <1>2, <2>1, <2>2, <2>3, <2>4, Advance
<1> QED BY <1>4, <1>5

\* A key is taken, or the mover answers that the package is busy.
LEMMA TakeKeyFits ==
  ASSUME CInv, NEW m \in Movers, NEW g \in Groups, NEW next \in {"target_key", "look"},
         TakeKey(m, g, next), UNCHANGED <<disk, member, mutex, saved, counters>>,
         \/ job[m].pc = "source_key" /\ next = "target_key" /\ g = job[m].from
         \/ job[m].pc = "target_key" /\ next = "look" /\ g = job[m].to
  PROVE  CInv'
<1>1. m \in Procs /\ m # User /\ m # Snapshotter
  BY Constants
<1>2. Typed'
  BY <1>1, Here DEF Typed, disk, counters
<1>3. job[m].pc \notin Locked /\ job[m].pc # "idle"
  BY DEF Locked
<1>4. CASE Answer(m, "busy") /\ UNCHANGED packageOps
  BY <1>2, <1>3, <1>4, Answered DEF Answers
<1> DEFINE r == [job[m] EXCEPT !.pc = next, !.held = @ \cup {g}]
<1>5. CASE g \notin packageOps /\ packageOps' = packageOps \cup {g} /\ Become(m, r)
  <2>1. job[m] \in Job /\ JobFits(m, job[m]) /\ job[m].held \cup {g} \subseteq Groups
    BY <1>1, Here, Fields
  <2>2. /\ r \in Job /\ r.pc = next /\ r.held = job[m].held \cup {g} /\ r.from = job[m].from
        /\ r.to = job[m].to /\ r.answer = job[m].answer
    BY <2>1 DEF Job, Labels, MoveLabels
  <2> HIDE DEF r
  <2>3. JobFits(m, r)
    BY <1>1, <2>1, <2>2 DEF JobFits, MoveLabels, Holding
  <2>4. r.pc \notin Locked
    BY <2>2 DEF Locked
  <2> QED BY <1>1, <1>2, <1>3, <1>5, <2>2, <2>3, <2>4, Advance
<1> QED BY <1>4, <1>5 DEF TakeKey

LEMMA TakeSourceFits ==
  ASSUME CInv, NEW m \in Movers, TakeSource(m)
  PROVE  CInv'
<1>1. job[m].from \in Groups /\ job[m].pc = "source_key"
  BY Constants, Here, Fields DEF TakeSource, At
<1> QED BY <1>1, TakeKeyFits DEF TakeSource

LEMMA TakeTargetFits ==
  ASSUME CInv, NEW m \in Movers, TakeTarget(m)
  PROVE  CInv'
<1>1. job[m].to \in Groups /\ job[m].pc = "target_key"
  BY Constants, Here, Fields DEF TakeTarget, At
<1> QED BY <1>1, TakeKeyFits DEF TakeTarget

\* The groups and the directories of a mover.
LEMMA Ends ==
  ASSUME CInv, NEW m \in Movers
  PROVE  /\ job[m].from \in Groups /\ job[m].to \in Groups
         /\ dir[job[m].from] \in Tree \cup {NoDir} /\ dir[job[m].to] \in Tree \cup {NoDir}
         /\ Whole(dir[job[m].from]) \subseteq Archives
BY Constants, Here, Fields DEF Typed, Whole

LEMMA LookFits ==
  ASSUME CInv, NEW m \in Movers, Look(m)
  PROVE  CInv'
<1>1. m \in Procs /\ job[m].pc = "look" /\ UNCHANGED <<disk, member, packageOps, mutex, saved>>
  BY Constants DEF Look, At
<1>2. PICK src \in Views(dir[job[m].from]), dst \in Views(dir[job[m].to]) :
        LET v == Verdict(src, dst) IN
        /\ IF src = dir[job[m].from] THEN Seen(dir[job[m].to], dst) ELSE Fail
        /\ CASE v = "already" -> Become(m, [job[m] EXCEPT !.pc = "await", !.answer = v])
             [] v \in {"error", "nonempty"} -> Answer(m, v)
             [] OTHER -> Become(m, [job[m] EXCEPT !.pc = v, !.had = Whole(dir[job[m].from])])
  BY DEF Look
<1> DEFINE v == Verdict(src, dst)
<1>3. UNCHANGED counters \/ Fail
  BY <1>2 DEF Seen
<1>4. Typed'
  <2>1. CASE UNCHANGED counters
    BY <1>1, <2>1, Here DEF Typed, disk, counters
  <2>2. CASE Fail
    BY <1>1, <2>2, Here, FailType DEF Typed, disk
  <2> QED BY <1>3, <2>1, <2>2
<1>5. v \in {"already", "error", "move", "drop_target", "drop_source", "nonempty"}
  BY DEF Verdict
<1>6. job[m] \in Job /\ Whole(dir[job[m].from]) \subseteq Archives /\ job[m].answer # "moved"
  BY <1>1, Here, Ends DEF JobFits
<1> HIDE DEF v
<1>7. CASE v = "already"
  <2> DEFINE r == [job[m] EXCEPT !.pc = "await", !.answer = v]
  <2>1. Become(m, r)
    BY <1>2, <1>7 DEF v
  <2>2. /\ r \in Job /\ r.pc = "await" /\ r.held = job[m].held /\ r.from = job[m].from
        /\ r.to = job[m].to /\ r.answer = "already"
    BY <1>6, <1>7 DEF Job, Labels, MoveLabels, Answers
  <2> HIDE DEF r
  <2> QED BY <1>1, <1>4, <2>1, <2>2, GoOn DEF Holding
<1>8. CASE v \in {"error", "nonempty"}
  <2>1. Answer(m, v) /\ v \in Answers /\ v # "moved"
    BY <1>2, <1>8 DEF v, Answers
  <2> QED BY <1>1, <1>4, <2>1, Answered DEF Locked
<1>9. CASE v \in {"move", "drop_target", "drop_source"}
  <2> DEFINE r == [job[m] EXCEPT !.pc = v, !.had = Whole(dir[job[m].from])]
  <2>1. Become(m, r)
    BY <1>2, <1>9 DEF v
  <2>2. /\ r \in Job /\ r.pc = v /\ r.held = job[m].held /\ r.from = job[m].from
        /\ r.to = job[m].to /\ r.answer = job[m].answer
    BY <1>6, <1>9 DEF Job, Labels, MoveLabels
  <2> HIDE DEF r
  <2> QED BY <1>1, <1>4, <1>6, <1>9, <2>1, <2>2, GoOn DEF Holding
<1> QED BY <1>5, <1>7, <1>8, <1>9

\* A step of the transfer: the mover changes one directory, and goes on or
\* answers with an error.
LEMMA TransferFits ==
  ASSUME CInv, NEW m \in Movers, NEW a \in {job[m].answer, "moved"},
         NEW label \in {"move", "copy", "undo", "drop_source", "await"},
         job[m].pc \in Holding \ {"meta", "await"}, a = "moved" => label = "await",
         \/ Become(m, [job[m] EXCEPT !.pc = label, !.answer = a])
         \/ Answer(m, "error"),
         dir' \in [Groups -> Tree \cup {NoDir}],
         UNCHANGED counters \/ Fail,
         UNCHANGED <<exclusive, meta, member, packageOps, mutex, saved>>
  PROVE  CInv'
<1>1. Typed'
  <2>1. CASE UNCHANGED counters
    BY <2>1, Constants, Here DEF Typed, counters
  <2>2. CASE Fail
    BY <2>2, Constants, Here, FailType DEF Typed
  <2> QED BY <2>1, <2>2
<1>2. job[m] \in Job
  BY Constants, Here
<1>3. CASE Answer(m, "error")
  BY <1>1, <1>3, Answered DEF Locked, Holding, Answers
<1> DEFINE r == [job[m] EXCEPT !.pc = label, !.answer = a]
<1>4. CASE Become(m, r)
  <2>1. a \in Answers
    BY <1>2, Fields DEF Answers
  <2>2. /\ r \in Job /\ r.pc = label /\ r.held = job[m].held /\ r.from = job[m].from
        /\ r.to = job[m].to /\ r.answer = a
    BY <1>2, <2>1 DEF Job, Labels, MoveLabels
  <2> HIDE DEF r
  <2> QED BY <1>1, <1>4, <2>2, GoOn DEF Holding
<1> QED BY <1>3, <1>4

\* Goto keeps the answer.
LEMMA GotoAs ==
  ASSUME NEW m \in Procs, job[m] \in Job, NEW label \in Labels
  PROVE  Goto(m, label) <=> Become(m, [job[m] EXCEPT !.pc = label, !.answer = job[m].answer])
<1>1. [job[m] EXCEPT !.pc = label] = [job[m] EXCEPT !.pc = label, !.answer = job[m].answer]
  BY DEF Job
<1> QED BY <1>1 DEF Goto

\* Setting the directory of a group to a tree, or to what a delete or a copy
\* that stopped leaves of one.
LEMMA SetDirKeeps ==
  ASSUME Typed, NEW g \in Groups, NEW t \in Tree \cup {NoDir}, SetDir(g, t)
  PROVE  dir' \in [Groups -> Tree \cup {NoDir}] /\ UNCHANGED <<exclusive, meta>>
BY DEF Typed, SetDir

LEMMA DropTargetFits ==
  ASSUME CInv, NEW m \in Movers, DropTarget(m)
  PROVE  CInv'
<1> DEFINE t == job[m].to
<1>1. /\ job[m].pc = "drop_target" /\ UNCHANGED <<member, packageOps, mutex, saved>>
      /\ m \in Procs /\ job[m] \in Job /\ Typed /\ "move" \in Labels
  BY Constants, Here DEF DropTarget, At, Labels, MoveLabels
<1>2. t \in Groups /\ Remnants(dir[t]) \subseteq Tree
  BY Ends, Trees
<1>3. \/ SetDir(t, NoDir) /\ Goto(m, "move") /\ UNCHANGED counters
      \/ /\ Fail /\ Answer(m, "error")
         /\ \E u \in Remnants(dir[t]) : SetDir(t, u)
  BY DEF DropTarget
<1>4. dir' \in [Groups -> Tree \cup {NoDir}] /\ UNCHANGED <<exclusive, meta>>
  BY <1>1, <1>2, <1>3, SetDirKeeps
<1>5. \/ Become(m, [job[m] EXCEPT !.pc = "move", !.answer = job[m].answer])
      \/ Answer(m, "error")
  BY <1>1, <1>3, GotoAs
<1>6. job[m].answer # "moved"
  BY <1>1, Here DEF JobFits
<1> QED BY <1>1, <1>3, <1>4, <1>5, <1>6, TransferFits DEF Holding

LEMMA MoveDirFits ==
  ASSUME CInv, NEW m \in Movers, MoveDir(m)
  PROVE  CInv'
<1>1. /\ job[m].pc = "move"
      /\ UNCHANGED <<exclusive, meta, member, packageOps, mutex, saved, counters>>
      /\ m \in Procs /\ job[m] \in Job /\ Typed /\ "copy" \in Labels
  BY Constants, Here DEF MoveDir, At, Labels, MoveLabels
<1>2. CASE UNCHANGED dir /\ Goto(m, "copy")
  <2>1. Become(m, [job[m] EXCEPT !.pc = "copy", !.answer = job[m].answer])
    BY <1>1, <1>2, GotoAs
  <2>2. job[m].answer # "moved" /\ dir' \in [Groups -> Tree \cup {NoDir}]
    BY <1>1, <1>2, Here DEF JobFits, Typed
  <2> QED BY <1>1, <2>1, <2>2, TransferFits DEF Holding
<1>3. CASE /\ dir' = [dir EXCEPT ![job[m].to] = dir[job[m].from], ![job[m].from] = NoDir]
           /\ Become(m, [job[m] EXCEPT !.pc = "await", !.answer = "moved"])
  <2>1. dir' \in [Groups -> Tree \cup {NoDir}]
    BY <1>1, <1>3, Ends DEF Typed
  <2> QED BY <1>1, <1>3, <2>1, TransferFits DEF Holding
<1> QED BY <1>2, <1>3 DEF MoveDir

LEMMA CopyDirFits ==
  ASSUME CInv, NEW m \in Movers, CopyDir(m)
  PROVE  CInv'
<1> DEFINE f == job[m].from  t == job[m].to
<1>1. /\ job[m].pc = "copy" /\ UNCHANGED <<member, packageOps, mutex, saved>>
      /\ m \in Procs /\ job[m] \in Job /\ Typed /\ "undo" \in Labels /\ "drop_source" \in Labels
  BY Constants, Here DEF CopyDir, At, Labels, MoveLabels
<1>2. /\ t \in Groups /\ dir[f] \in Tree \cup {NoDir}
      /\ {dir[t]} \cup Cuts(dir[f]) \subseteq Tree \cup {NoDir}
  BY Ends, Trees
<1>3. /\ Goto(m, "drop_source") \/ Goto(m, "undo")
      /\ UNCHANGED counters \/ Fail
      /\ SetDir(t, dir[f]) \/ \E u \in {dir[t]} \cup Cuts(dir[f]) : SetDir(t, u)
  BY DEF CopyDir
<1>4. dir' \in [Groups -> Tree \cup {NoDir}] /\ UNCHANGED <<exclusive, meta>>
  BY <1>1, <1>2, <1>3, SetDirKeeps
<1>5. PICK label \in {"drop_source", "undo"} :
        Become(m, [job[m] EXCEPT !.pc = label, !.answer = job[m].answer])
  BY <1>1, <1>3, GotoAs
<1>6. job[m].answer # "moved"
  BY <1>1, Here DEF JobFits
<1> QED BY <1>1, <1>3, <1>4, <1>5, <1>6, TransferFits DEF Holding

LEMMA UndoCopyFits ==
  ASSUME CInv, NEW m \in Movers, UndoCopy(m)
  PROVE  CInv'
<1> DEFINE t == job[m].to
<1>1. /\ job[m].pc = "undo" /\ UNCHANGED <<member, packageOps, mutex, saved>>
      /\ m \in Procs /\ job[m] \in Job /\ Typed
  BY Constants, Here DEF UndoCopy, At
<1>2. t \in Groups /\ {dir[t]} \cup Remnants(dir[t]) \subseteq Tree \cup {NoDir}
  BY Ends, Trees
<1>3. /\ Answer(m, "error")
      /\ UNCHANGED counters \/ Fail
      /\ SetDir(t, NoDir) \/ \E u \in {dir[t]} \cup Remnants(dir[t]) : SetDir(t, u)
  BY DEF UndoCopy
<1>4. dir' \in [Groups -> Tree \cup {NoDir}] /\ UNCHANGED <<exclusive, meta>>
  BY <1>1, <1>2, <1>3, SetDirKeeps
<1>5. job[m].answer # "moved"
  BY <1>1, Here DEF JobFits
<1> QED BY <1>1, <1>3, <1>4, <1>5, TransferFits DEF Holding

LEMMA DropSourceFits ==
  ASSUME CInv, NEW m \in Movers, DropSource(m)
  PROVE  CInv'
<1> DEFINE f == job[m].from
<1>1. /\ job[m].pc = "drop_source" /\ UNCHANGED <<member, packageOps, mutex, saved>>
      /\ m \in Procs /\ job[m] \in Job /\ Typed
  BY Constants, Here DEF DropSource, At
<1>2. f \in Groups /\ Remnants(dir[f]) \subseteq Tree
  BY Ends, Trees
<1>3. /\ \/ Become(m, [job[m] EXCEPT !.pc = "await", !.answer = "moved"])
         \/ Answer(m, "error")
      /\ UNCHANGED counters \/ Fail
      /\ SetDir(f, NoDir) \/ \E u \in Remnants(dir[f]) : SetDir(f, u)
  BY DEF DropSource
<1>4. dir' \in [Groups -> Tree \cup {NoDir}] /\ UNCHANGED <<exclusive, meta>>
  BY <1>1, <1>2, <1>3, SetDirKeeps
<1> QED BY <1>1, <1>3, <1>4, TransferFits DEF Holding

LEMMA AwaitMutexFits ==
  ASSUME CInv, NEW m \in Movers, AwaitMutex(m)
  PROVE  CInv'
<1> DEFINE r == [job[m] EXCEPT !.pc = "meta", !.step = 1]
<1>1. /\ job[m].pc = "await" /\ mutex = NoOne /\ mutex' = m /\ Become(m, r)
      /\ UNCHANGED <<disk, member, packageOps, saved, counters>>
      /\ m \in Procs /\ m # User /\ m # Snapshotter
  BY Constants DEF AwaitMutex, At
<1>2. job[m] \in Job /\ JobFits(m, job[m])
  BY <1>1, Here
<1>3. /\ r \in Job /\ r.pc = "meta" /\ r.step = 1 /\ r.held = job[m].held
      /\ r.from = job[m].from /\ r.to = job[m].to /\ r.answer = job[m].answer
  BY <1>1, <1>2, Here DEF Job, Labels, MoveLabels
<1> HIDE DEF r
<1>4. JobFits(m, r)
  BY <1>1, <1>2, <1>3 DEF JobFits, MoveLabels, Holding
<1>5. Typed'
  BY <1>1, Here DEF Typed, disk, counters
<1> QED BY <1>1, <1>3, <1>4, <1>5, Advance DEF Locked

LEMMA FinalizeFits ==
  ASSUME CInv, NEW m \in Movers, Finalize(m)
  PROVE  CInv'
<1>1. /\ job[m].pc = "meta" /\ UNCHANGED <<dir, exclusive, member, packageOps, mutex, saved, counters>>
      /\ m \in Procs /\ m # User /\ m # Snapshotter
  BY Constants DEF Finalize, At
<1>2. /\ job[m] \in Job /\ JobFits(m, job[m]) /\ job[m].step \in 1..3
      /\ job[m].from \in Groups /\ job[m].to \in Groups /\ Typed
  BY <1>1, Here, Fields DEF JobFits
<1>3. Typed'
  <2>1. meta' = Finalized(job[m].step, job[m].from, job[m].to)
    BY DEF Finalize
  <2>2. meta' \in [Groups -> SUBSET {"locked", "record"}]
    BY <1>2, <2>1 DEF Typed, Finalized
  <2> QED BY <1>1, <1>2, <2>2 DEF Typed, counters
<1>4. Len(groupIds) \in Nat \ {0}
  BY Constants
<1>5. CASE job[m].step = 3
  <2> DEFINE r == [job[m] EXCEPT !.pc = "reload", !.step = 1]
  <2>1. Become(m, r)
    BY <1>5 DEF Finalize, Reload
  <2>2. /\ r \in Job /\ r.pc = "reload" /\ r.step = 1 /\ r.held = job[m].held
        /\ r.from = job[m].from /\ r.to = job[m].to /\ r.answer = job[m].answer
    BY <1>1, <1>2, Here DEF Job, Labels, MoveLabels
  <2> HIDE DEF r
  <2>3. JobFits(m, r)
    BY <1>1, <1>2, <1>4, <2>2 DEF JobFits, MoveLabels, Holding
  <2> QED BY <1>1, <1>3, <2>1, <2>2, <2>3, Advance DEF Locked
<1>6. CASE job[m].step # 3
  <2> DEFINE r == [job[m] EXCEPT !.step = @ + 1]
  <2>1. Become(m, r)
    BY <1>6 DEF Finalize
  <2>2. /\ r \in Job /\ r.pc = "meta" /\ r.step \in 1..3 /\ r.held = job[m].held
        /\ r.from = job[m].from /\ r.to = job[m].to /\ r.answer = job[m].answer
    BY <1>1, <1>2, <1>4, <1>6 DEF Job
  <2> HIDE DEF r
  <2>3. JobFits(m, r)
    BY <1>1, <1>2, <2>2 DEF JobFits, MoveLabels, Holding
  <2> QED BY <1>1, <1>3, <2>1, <2>2, <2>3, Advance
<1> QED BY <1>5, <1>6

LEMMA FinalizeFailsFits ==
  ASSUME CInv, NEW m \in Movers, FinalizeFails(m)
  PROVE  CInv'
<1>1. /\ job[m].pc = "meta" /\ Fail /\ Answer(m, "error") /\ mutex' = NoOne
      /\ UNCHANGED <<disk, member, packageOps, saved>> /\ m \in Procs
  BY Constants DEF FinalizeFails, At
<1>2. Typed'
  BY <1>1, Here, FailType DEF Typed, disk
<1> QED BY <1>1, <1>2, Answered DEF Locked, Answers

LEMMA ReleaseFits ==
  ASSUME CInv, NEW m \in Movers, Release(m)
  PROVE  CInv'
<1>1. /\ job[m].pc = "release" /\ packageOps' = packageOps \ job[m].held /\ Become(m, Idle)
      /\ UNCHANGED <<disk, member, mutex, saved, counters>> /\ m \in Procs
  BY Constants DEF Release, At
<1>2. Typed'
  BY <1>1, Here DEF Typed, disk, counters
<1>3. Idle.held = {} /\ Idle.pc \notin Locked /\ job[m].pc \notin Locked
  BY <1>1 DEF Idle, Locked
<1> QED BY <1>1, <1>2, <1>3, Here, Advance

LEMMA LoadAppsFits ==
  ASSUME CInv, NEW p \in Movers \cup {User}, LoadApps(p)
  PROVE  CInv'
<1> DEFINE g == groupIds[job[p].step]
<1>1. /\ job[p].pc = "reload" /\ UNCHANGED <<disk, packageOps, saved>> /\ p \in Procs
      /\ p # Snapshotter /\ (p = User => p \notin Movers)
  BY Constants DEF LoadApps, At
<1>2. /\ job[p] \in Job /\ JobFits(p, job[p]) /\ mutex = p /\ Typed
      /\ job[p].step \in 1..Len(groupIds) /\ Len(groupIds) \in Nat /\ g \in Groups
  BY <1>1, Here, Constants DEF JobFits, Locked
<1>3. Typed'
  <2>1. PICK t \in Views(dir[g]) : Seen(dir[g], t) /\ member' = [member EXCEPT ![g] = t # NoDir]
    BY DEF LoadApps
  <2>2. member' \in [Groups -> BOOLEAN]
    BY <1>2, <2>1 DEF Typed
  <2>3. CASE UNCHANGED counters
    BY <1>1, <1>2, <2>2, <2>3 DEF Typed, disk, counters
  <2>4. CASE Fail
    BY <1>1, <1>2, <2>2, <2>4, FailType DEF Typed, disk
  <2> QED BY <2>1, <2>3, <2>4 DEF Seen
<1>4. CASE job[p].step # Len(groupIds)
  <2> DEFINE r == [job[p] EXCEPT !.step = @ + 1]
  <2>1. Become(p, r) /\ UNCHANGED mutex
    BY <1>4 DEF LoadApps
  <2>2. /\ r \in Job /\ r.pc = "reload" /\ r.step \in 1..Len(groupIds) /\ r.held = job[p].held
        /\ r.from = job[p].from /\ r.to = job[p].to /\ r.answer = job[p].answer
    BY <1>1, <1>2, <1>4 DEF Job
  <2> HIDE DEF r
  <2>3. JobFits(p, r)
    BY <1>1, <1>2, <2>2 DEF JobFits, MoveLabels, Holding
  <2> QED BY <1>1, <1>3, <2>1, <2>2, <2>3, Advance
<1>5. CASE job[p].step = Len(groupIds) /\ p = User
  <2>1. mutex' = NoOne /\ Become(p, Idle)
    BY <1>5 DEF LoadApps
  <2>2. Idle.held = job[p].held /\ Idle.pc \notin Locked
    BY <1>2, <1>5 DEF JobFits, Idle, Locked
  <2> QED BY <1>1, <1>2, <1>3, <2>1, <2>2, Here, Advance
<1>6. CASE job[p].step = Len(groupIds) /\ p # User
  <2>1. mutex' = NoOne /\ Answer(p, job[p].answer)
    BY <1>6 DEF LoadApps
  <2>2. job[p].answer \in Answers /\ p \in Movers
    BY <1>2, <1>6, Fields
  <2> QED BY <1>1, <1>3, <2>1, <2>2, Answered DEF Locked
<1> QED BY <1>4, <1>5, <1>6

\* A step of the user's coroutine.
LEMMA UserFits ==
  ASSUME CInv, NEW r \in Job, Become(User, r), r.held = {}, r.answer = "none",
         r.pc \in {"mkdir", "reload"}, r.pc = "reload" => r.step = 1,
         packageOps' = packageOps, Typed',
         \/ job[User].pc = "idle" /\ mutex = NoOne /\ mutex' = User
         \/ job[User].pc = "mkdir" /\ mutex' = mutex
  PROVE  CInv'
<1>1. User \in Procs /\ User \notin Movers /\ User # Snapshotter
  BY Constants
<1>2. JobFits(User, job[User]) /\ 1 \in 1..Len(groupIds)
  BY <1>1, Here
<1>3. JobFits(User, r)
  BY <1>1, <1>2 DEF JobFits, MoveLabels, Holding
<1>4. r.held = job[User].held
  BY <1>1, <1>2 DEF JobFits
<1> QED BY <1>1, <1>3, <1>4, Advance DEF Locked

\* What a load of the user begins with.
LEMMA ReloadOfUser ==
  ASSUME CInv
  PROVE  /\ [job[User] EXCEPT !.pc = "reload", !.step = 1] \in Job
         /\ [job[User] EXCEPT !.pc = "reload", !.step = 1].pc = "reload"
         /\ [job[User] EXCEPT !.pc = "reload", !.step = 1].step = 1
         /\ [job[User] EXCEPT !.pc = "reload", !.step = 1].held = {}
         /\ [job[User] EXCEPT !.pc = "reload", !.step = 1].answer = "none"
<1>1. job[User] \in Job /\ JobFits(User, job[User]) /\ 1 \in 0..(Len(groupIds) + 3)
  BY Constants, Here
<1> QED BY <1>1 DEF Job, JobFits, Labels, MoveLabels

LEMMA ChangeType ==
  ASSUME Typed, Change
  PROVE  faults' \in 0..MaxFaults /\ crashes' \in 0..MaxCrashes /\ changes' \in 0..MaxChanges
BY ConstantsAssumption DEF Typed, Change

LEMMA LoadGroupsFits ==
  ASSUME CInv, LoadGroups
  PROVE  CInv'
<1> DEFINE r == [job[User] EXCEPT !.pc = "reload", !.step = 1]
<1>1. /\ job[User].pc = "idle" /\ mutex = NoOne /\ mutex' = User /\ Become(User, r)
      /\ UNCHANGED <<disk, member, packageOps, saved, counters>>
  BY DEF LoadGroups, At, Reload
<1>2. Typed'
  BY <1>1, Constants, Here DEF Typed, disk, counters
<1>3. r \in Job /\ r.pc = "reload" /\ r.step = 1 /\ r.held = {} /\ r.answer = "none"
  BY ReloadOfUser
<1> HIDE DEF r
<1> QED BY <1>1, <1>2, <1>3, UserFits

LEMMA AddAppFits ==
  ASSUME CInv, NEW g \in Groups, AddApp(g)
  PROVE  CInv'
<1> DEFINE r == [Idle EXCEPT !.pc = "mkdir", !.from = g]
<1>1. /\ job[User].pc = "idle" /\ mutex = NoOne /\ mutex' = User /\ Become(User, r)
      /\ Change /\ UNCHANGED <<disk, member, packageOps, saved>>
  BY DEF AddApp, At
<1>2. Typed'
  BY <1>1, Constants, Here, ChangeType DEF Typed, disk
<1>3. r \in Job /\ r.pc = "mkdir" /\ r.held = {} /\ r.answer = "none"
  BY IdleType DEF Idle, Job, Labels
<1> HIDE DEF r
<1> QED BY <1>1, <1>2, <1>3, UserFits

\* The directory of an app that is added, or backed up.
LEMMA MadeType ==
  ASSUME Typed, NEW g \in Groups
  PROVE  Made(g) \in Tree
BY Trees DEF Made, Typed

LEMMA MakeAppDirFits ==
  ASSUME CInv, MakeAppDir
  PROVE  CInv'
<1> DEFINE r == [job[User] EXCEPT !.pc = "reload", !.step = 1]  g == job[User].from
<1>1. /\ job[User].pc = "mkdir" /\ Become(User, r) /\ UNCHANGED <<member, packageOps, mutex, saved>>
  BY DEF MakeAppDir, At, Reload
<1>2. g \in Groups /\ Typed
  BY Constants, Here, Fields
<1>3. Typed'
  <2>1. CASE SetDir(g, Made(g)) /\ UNCHANGED counters
    BY <1>1, <1>2, <2>1, MadeType, SetDirType DEF Typed, counters
  <2>2. CASE Fail /\ UNCHANGED disk
    BY <1>1, <1>2, <2>2, FailType DEF Typed, disk
  <2> QED BY <2>1, <2>2 DEF MakeAppDir
<1>4. r \in Job /\ r.pc = "reload" /\ r.step = 1 /\ r.held = {} /\ r.answer = "none"
  BY ReloadOfUser
<1> HIDE DEF r
<1> QED BY <1>1, <1>3, <1>4, UserFits

LEMMA setMembershipModeFits ==
  ASSUME CInv, NEW g \in Groups, setMembershipMode(g)
  PROVE  CInv'
<1> DEFINE r == [job[User] EXCEPT !.pc = "reload", !.step = 1]
<1>1. /\ job[User].pc = "idle" /\ mutex = NoOne /\ mutex' = User /\ Become(User, r)
      /\ exclusive' = [exclusive EXCEPT ![g] = ~@] /\ Change
      /\ UNCHANGED <<dir, meta, member, packageOps, saved>>
  BY DEF setMembershipMode, At, Reload
<1>2. exclusive' \in [Groups -> BOOLEAN]
  BY <1>1, Constants, Here DEF Typed
<1>3. Typed'
  BY <1>1, <1>2, Constants, Here, ChangeType DEF Typed
<1>4. r \in Job /\ r.pc = "reload" /\ r.step = 1 /\ r.held = {} /\ r.answer = "none"
  BY ReloadOfUser
<1> HIDE DEF r
<1> QED BY <1>1, <1>3, <1>4, UserFits

LEMMA ToggleLockFits ==
  ASSUME CInv, NEW g \in Groups, ToggleLock(g)
  PROVE  CInv'
<1>1. Typed
  BY Constants, Here
<1>2. meta' \in [Groups -> SUBSET {"locked", "record"}]
  BY <1>1 DEF ToggleLock, Typed
<1>3. /\ UNCHANGED <<dir, exclusive, member, packageOps, mutex, job, saved>>
      /\ faults' \in 0..MaxFaults /\ crashes' \in 0..MaxCrashes /\ changes' \in 0..MaxChanges
  BY <1>1, ChangeType DEF ToggleLock
<1> QED BY <1>2, <1>3 DEF CInv, Types, MutexFits, KeysFit, KeysApart, JobsFit

LEMMA BackupBeginFits ==
  ASSUME CInv, NEW g \in Groups, BackupBegin(g)
  PROVE  CInv'
<1> DEFINE r == [Idle EXCEPT !.pc = "backup", !.from = g, !.held = {g}]
<1>1. /\ job[Snapshotter].pc = "idle" /\ Become(Snapshotter, r)
      /\ g \notin packageOps /\ packageOps' = packageOps \cup {g}
      /\ UNCHANGED <<disk, member, mutex, saved, counters>>
      /\ Snapshotter \in Procs /\ Snapshotter \notin Movers /\ Snapshotter # User
  BY Constants DEF BackupBegin, At
<1>2. /\ r \in Job /\ r.pc = "backup" /\ r.held = {g} /\ r.from = g /\ r.answer = "none"
  BY IdleType DEF Idle, Job, Labels
<1> HIDE DEF r
<1>3. JobFits(Snapshotter, r)
  BY <1>1, <1>2 DEF JobFits, MoveLabels, Holding
<1>4. job[Snapshotter].held = {}
  BY <1>1, Here DEF JobFits
<1>5. Typed'
  BY <1>1, Here DEF Typed, disk, counters
<1> QED BY <1>1, <1>2, <1>3, <1>4, <1>5, Advance DEF Locked

LEMMA BackupEndFits ==
  ASSUME CInv, BackupEnd
  PROVE  CInv'
<1> DEFINE g == job[Snapshotter].from
<1>1. /\ job[Snapshotter].pc = "backup" /\ Become(Snapshotter, Idle)
      /\ packageOps' = packageOps \ job[Snapshotter].held /\ UNCHANGED <<member, mutex>>
      /\ Snapshotter \in Procs
  BY Constants DEF BackupEnd, At
<1>2. Typed /\ g \in Groups /\ Made(g) \in Tree
  BY <1>1, Here, Fields, MadeType
<1>3. Typed'
  <2>1. CASE UNCHANGED <<disk, saved, counters>>
    BY <1>1, <1>2, <2>1 DEF Typed, disk, counters
  <2>2. CASE Fail /\ SetDir(g, Made(g)) /\ UNCHANGED saved
    BY <1>1, <1>2, <2>2, FailType, SetDirType DEF Typed
  <2>3. CASE /\ \E a \in Archives \ saved :
                 saved' = saved \cup {a} /\ SetDir(g, [Made(g) EXCEPT ![a] = "whole"])
             /\ UNCHANGED counters
    <3>1. PICK a \in Archives \ saved :
            saved' = saved \cup {a} /\ SetDir(g, [Made(g) EXCEPT ![a] = "whole"])
      BY <2>3
    <3>2. [Made(g) EXCEPT ![a] = "whole"] \in Tree
      BY <1>2 DEF Tree
    <3>3. saved' \subseteq Archives
      BY <1>2, <3>1 DEF Typed
    <3> QED BY <1>1, <1>2, <2>3, <3>1, <3>2, <3>3, SetDirType DEF Typed, counters
  <2> QED BY <2>1, <2>2, <2>3 DEF BackupEnd
<1>4. Idle.held = {} /\ Idle.pc \notin Locked /\ job[Snapshotter].pc \notin Locked
  BY <1>1 DEF Idle, Locked
<1> QED BY <1>1, <1>3, <1>4, Here, Advance

\* What a death leaves of a directory is a tree.
LEMMA InFlightTrees ==
  ASSUME CInv, NEW m \in Movers
  PROVE  InFlight(m) \subseteq [Groups -> Tree \cup {NoDir}]
<1>1. dir \in [Groups -> Tree \cup {NoDir}]
  BY DEF CInv, Types
<1>2. Remnants(dir[job[m].to]) \cup Remnants(dir[job[m].from]) \cup Cuts(dir[job[m].from])
        \subseteq Tree
  BY Ends, Trees
<1>3. \A u \in Tree, g \in Groups : [dir EXCEPT ![g] = u] \in [Groups -> Tree \cup {NoDir}]
  BY <1>1
<1>4. job[m].from \in Groups /\ job[m].to \in Groups
  BY Ends
<1> QED BY <1>2, <1>3, <1>4 DEF InFlight

LEMMA CrashFits ==
  ASSUME CInv, Crash
  PROVE  CInv'
<1> DEFINE r == [Idle EXCEPT !.pc = "reload", !.step = 1]
<1>1. /\ r \in Job /\ r.pc = "reload" /\ r.step = 1 /\ r.held = {} /\ r.answer = "none"
  BY IdleType, Constants, Here DEF Idle, Job, Labels, MoveLabels
<1>2. job' = [p \in Procs |-> IF p = User THEN r ELSE Idle]
      /\ mutex' = User /\ packageOps' = {} /\ member' = [g \in Groups |-> FALSE]
      /\ UNCHANGED <<exclusive, meta, saved, faults, changes>>
  BY DEF Crash
<1>3. User \in Procs /\ User \notin Movers /\ User # Snapshotter /\ Typed
  BY Constants, Here
<1>4. Typed'
  <2>1. dir' \in [Groups -> Tree \cup {NoDir}]
    BY <1>3, InFlightTrees DEF Crash, Typed
  <2>2. crashes' \in 0..MaxCrashes
    BY <1>3, ConstantsAssumption DEF Crash, Typed
  <2> QED BY <1>2, <1>3, <2>1, <2>2 DEF Typed
<1> HIDE DEF r
<1>5. JobFits(User, r)
  BY <1>1, <1>3, Here DEF JobFits, MoveLabels, Holding
<1>6. /\ job'[User] = r /\ \A p \in Procs \ {User} : job'[p] = Idle
      /\ job' \in [Procs -> Job]
  BY <1>1, <1>2, <1>3, IdleType
<1>7. Idle.held = {} /\ Idle.pc \notin Locked /\ r.pc \in Locked
  BY <1>1 DEF Idle, Locked
<1>8. MutexFits' /\ mutex' \in Procs \cup {NoOne}
  BY <1>2, <1>3, <1>6, <1>7 DEF MutexFits
<1>9. KeysFit' /\ KeysApart'
  BY <1>1, <1>2, <1>6, <1>7 DEF KeysFit, KeysApart
<1>10. JobsFit'
  <2> SUFFICES ASSUME NEW p \in Procs PROVE JobFits(p, job'[p])
    BY DEF JobsFit, JobFits
  <2> QED BY <1>5, <1>6, IdleType
<1> QED BY <1>4, <1>6, <1>8, <1>9, <1>10 DEF CInv, Types, Typed, MutexFits, KeysFit, KeysApart, JobsFit

LEMMA ControlStart == Init => CInv
<1> SUFFICES ASSUME Init PROVE CInv
  OBVIOUS
<1>1. PICK o \in Groups, a \in Archives :
        /\ dir = [g \in Groups |-> IF g = o THEN [EmptyDir EXCEPT ![a] = "whole"] ELSE NoDir]
        /\ saved = {a}
        /\ meta = [g \in Groups |-> IF g = o THEN {"record"} ELSE {}]
        /\ exclusive \in [Groups -> BOOLEAN]
        /\ member = [g \in Groups |-> g = o]
        /\ packageOps = {} /\ mutex = NoOne /\ job = [p \in Procs |-> Idle]
        /\ faults = 0 /\ crashes = 0 /\ changes = 0
  BY DEF Init
<1>2. [EmptyDir EXCEPT ![a] = "whole"] \in Tree
  BY Trees DEF Tree
<1>3. Typed
  BY <1>1, <1>2, ConstantsAssumption DEF Typed
<1>4. Idle.held = {} /\ Idle.pc \notin Locked
  BY DEF Idle, Locked
<1>5. job \in [Procs -> Job] /\ \A p \in Procs : job[p] = Idle
  BY <1>1, IdleType
<1>6. MutexFits /\ KeysFit /\ KeysApart /\ JobsFit
  BY <1>1, <1>4, <1>5, IdleType, Constants DEF MutexFits, KeysFit, KeysApart, JobsFit
<1> QED BY <1>1, <1>3, <1>5, <1>6 DEF CInv, Types, Typed

LEMMA ControlStep == CInv /\ [Next]_vars => CInv'
<1> SUFFICES ASSUME CInv, [Next]_vars PROVE CInv'
  OBVIOUS
<1>1. ASSUME NEW m \in Movers, NEW f \in Groups, NEW t \in Groups, StartMove(m, f, t)
      PROVE  CInv'
  BY <1>1, StartMoveFits
<1>2. ASSUME NEW m \in Movers, Proceed(m) PROVE CInv'
  <2>1. CASE Transfer(m)
    BY <2>1, DropTargetFits, MoveDirFits, CopyDirFits, UndoCopyFits, DropSourceFits DEF Transfer
  <2>2. CASE Precheck(m) \/ TakeSource(m) \/ TakeTarget(m) \/ Look(m)
    BY <2>2, PrecheckFits, TakeSourceFits, TakeTargetFits, LookFits
  <2>3. CASE AwaitMutex(m) \/ Finalize(m) \/ FinalizeFails(m)
    BY <2>3, AwaitMutexFits, FinalizeFits, FinalizeFailsFits
  <2>4. CASE LoadApps(m) \/ Release(m)
    BY <2>4, LoadAppsFits, ReleaseFits
  <2> QED BY <1>2, <2>1, <2>2, <2>3, <2>4 DEF Proceed
<1>3. CASE UserStep
  BY <1>3, LoadGroupsFits, LoadAppsFits, MakeAppDirFits, AddAppFits, setMembershipModeFits,
     ToggleLockFits DEF UserStep
<1>4. CASE (\E g \in Groups : BackupBegin(g)) \/ BackupEnd
  BY <1>4, BackupBeginFits, BackupEndFits
<1>5. CASE Crash
  BY <1>5, CrashFits
<1>6. CASE UNCHANGED vars
  BY <1>6 DEF vars, disk, counters, CInv, Types, MutexFits, KeysFit, KeysApart, JobsFit
<1> QED BY <1>1, <1>2, <1>3, <1>4, <1>5, <1>6 DEF Next

LEMMA ControlTypes == CInv => TypeOK
<1> SUFFICES ASSUME CInv PROVE packageOps = UNION {job[p].held : p \in Procs}
  BY DEF CInv, Types, MutexFits, TypeOK
<1> QED BY DEF CInv, KeysFit

(* The types; and that the mutex and the keys are held exactly by the      *)
(* coroutines that will give them back, for any number of groups, archives *)
(* and coroutines that move the app.                                       *)
THEOREM TypeCorrect == Spec => []TypeOK
<1>1. Spec => []CInv
  BY ControlStart, ControlStep, PTL DEF Spec
<1> QED BY <1>1, ControlTypes, PTL

-----------------------------------------------------------------------------
(* The record of the last restore.                                         *)

\* Before the record goes from the source, it is in the target.
RInv ==
  /\ RecordKept
  /\ \A m \in Movers : job[m].pc = "meta" /\ job[m].step = 3 /\ "record" \in meta[job[m].from]
                       => "record" \in meta[job[m].to]

\* A mover alone is at the metadata.
LEMMA AloneAtMeta ==
  ASSUME CInv, NEW m \in Movers, NEW q \in Movers, job[m].pc = "meta", job[q].pc = "meta"
  PROVE  m = q
BY Constants, Here DEF Locked

\* A mover is at step 3 of the metadata only by finalizing.
LEMMA ThirdStep ==
  ASSUME CInv, NEW p \in Procs, NEW r, Become(p, r), ~(r.pc = "meta" /\ r.step = 3), RInv,
         UNCHANGED meta
  PROVE  RInv'
<1>1. \A m \in Movers : m \in Procs /\ job'[m] = IF m = p THEN r ELSE job[m]
  BY Constants DEF CInv, Types, Become
<1> QED BY <1>1 DEF RInv, RecordKept

LEMMA FinalizeRecord ==
  ASSUME CInv, RInv, NEW m \in Movers, Finalize(m)
  PROVE  RInv'
<1> DEFINE f == job[m].from  t == job[m].to  k == job[m].step
<1>1. /\ job[m].pc = "meta" /\ meta' = Finalized(k, f, t) /\ m \in Procs /\ job[m] \in Job
      /\ JobFits(m, job[m]) /\ f \in Groups /\ t \in Groups
      /\ meta \in [Groups -> SUBSET {"locked", "record"}] /\ job \in [Procs -> Job]
  BY Constants, Here, Ends DEF Finalize, At, CInv, Types
<1>2. k \in 1..3 /\ f # t
  BY <1>1 DEF JobFits
<1>3. \A q \in Movers \ {m} : job'[q] = job[q] /\ job[q].pc # "meta"
  BY <1>1, Constants, AloneAtMeta DEF Finalize, Become, Reload
<1>4. CASE k = 3
  <2>1. meta' = [meta EXCEPT ![f] = @ \ {"record"}]
    BY <1>1, <1>4 DEF Finalized
  <2>2. job'[m].pc = "reload"
    <3>1. Become(m, [job[m] EXCEPT !.pc = "reload", !.step = 1])
      BY <1>4 DEF Finalize, Reload
    <3> QED BY <1>1, <3>1 DEF Become, Job
  <2>3. \E g \in Groups : "record" \in meta[g] /\ g # f
    BY <1>1, <1>2, <1>4 DEF RInv, RecordKept
  <2>4. RecordKept'
    BY <1>1, <2>1, <2>3 DEF RecordKept
  <2> QED BY <1>3, <2>2, <2>4 DEF RInv
<1>5. CASE k = 2
  <2>1. meta' = [meta EXCEPT ![t] = @ \cup (meta[f] \cap {"record"})]
    BY <1>1, <1>5 DEF Finalized
  <2>2. job'[m].from = f /\ job'[m].to = t
    BY <1>1, <1>5 DEF Finalize, Become, Job
  <2>3. /\ \A g \in Groups : meta[g] \subseteq meta'[g]
        /\ "record" \in meta'[f] => "record" \in meta'[t]
    BY <1>1, <1>2, <2>1
  <2>4. RecordKept'
    BY <2>3 DEF RInv, RecordKept
  <2> QED BY <1>3, <2>2, <2>3, <2>4 DEF RInv
<1>6. CASE k = 1
  <2>1. meta' = [meta EXCEPT ![f] = @ \ {"locked"}] /\ job'[m].step = 2
    BY <1>1, <1>6 DEF Finalized, Finalize, Become, Job
  <2>2. RecordKept'
    BY <1>1, <2>1 DEF RInv, RecordKept
  <2> QED BY <1>3, <2>1, <2>2 DEF RInv
<1> QED BY <1>2, <1>4, <1>5, <1>6

LEMMA ToggleLockRecord ==
  ASSUME CInv, RInv, NEW g \in Groups, ToggleLock(g)
  PROVE  RInv'
<1>1. \A h \in Groups : "record" \in meta'[h] <=> "record" \in meta[h]
  BY DEF ToggleLock, CInv, Types
<1>2. job' = job /\ \A m \in Movers : job[m].from \in Groups /\ job[m].to \in Groups
  BY Ends DEF ToggleLock
<1> QED BY <1>1, <1>2 DEF RInv, RecordKept

LEMMA RecordStep ==
  ASSUME CInv, RInv, [Next]_vars
  PROVE  RInv'
<1>1. ASSUME NEW m \in Movers, NEW f \in Groups, NEW t \in Groups, StartMove(m, f, t)
      PROVE  RInv'
  <2>1. [Idle EXCEPT !.pc = "precheck", !.from = f, !.to = t].pc = "precheck"
    BY DEF Idle
  <2> QED BY <1>1, <2>1, Constants, ThirdStep DEF StartMove, disk
<1>2. ASSUME NEW m \in Movers, Proceed(m) PROVE RInv'
  <2>1. m \in Procs /\ job[m] \in Job
    BY Constants, Here
  <2>2. CASE Finalize(m)
    BY <2>2, FinalizeRecord
  <2>3. CASE /\ UNCHANGED meta
             /\ \E r : Become(m, r) /\ ~(r.pc = "meta" /\ r.step = 3)
    BY <2>1, <2>3, ThirdStep
  <2>4. \A a, h : \A label \in Labels \ {"meta"} :
          /\ [job[m] EXCEPT !.pc = label].pc # "meta"
          /\ [job[m] EXCEPT !.pc = label, !.answer = a].pc # "meta"
          /\ [job[m] EXCEPT !.pc = label, !.had = h].pc # "meta"
          /\ [job[m] EXCEPT !.pc = label, !.held = h].pc # "meta"
          /\ [job[m] EXCEPT !.pc = label, !.answer = a, !.step = 0].pc # "meta"
    BY <2>1 DEF Job
  <2>5. Idle.pc # "meta"
    BY DEF Idle
  <2>6. \A a : Answer(m, a) => \E r : Become(m, r) /\ r.pc # "meta"
    BY <2>4 DEF Answer, Labels, MoveLabels
  <2>7. \A label \in Labels \ {"meta"} : Goto(m, label) => \E r : Become(m, r) /\ r.pc # "meta"
    BY <2>4 DEF Goto
  <2>8. CASE Precheck(m) \/ FinalizeFails(m)
    BY <2>3, <2>6, <2>7, <2>8 DEF Precheck, FinalizeFails, disk, Labels, MoveLabels
  <2>9. CASE TakeSource(m) \/ TakeTarget(m)
    BY <2>3, <2>4, <2>6, <2>9 DEF TakeSource, TakeTarget, TakeKey, disk, Labels, MoveLabels
  <2>10. CASE Look(m)
    <3>1. PICK src, dst :
            LET v == Verdict(src, dst) IN
            CASE v = "already" -> Become(m, [job[m] EXCEPT !.pc = "await", !.answer = v])
              [] v \in {"error", "nonempty"} -> Answer(m, v)
              [] OTHER -> Become(m, [job[m] EXCEPT !.pc = v, !.had = Whole(dir[job[m].from])])
      BY <2>10 DEF Look
    <3> DEFINE v == Verdict(src, dst)
    <3>2. v \in {"already", "error", "move", "drop_target", "drop_source", "nonempty"}
      BY DEF Verdict
    <3>3. /\ v = "already" => Become(m, [job[m] EXCEPT !.pc = "await", !.answer = v])
          /\ v \in {"error", "nonempty"} => Answer(m, v)
          /\ v \in {"move", "drop_target", "drop_source"} =>
               Become(m, [job[m] EXCEPT !.pc = v, !.had = Whole(dir[job[m].from])])
      BY <3>1
    <3> HIDE DEF v
    <3>4. \E r : Become(m, r) /\ r.pc # "meta"
      BY <2>4, <2>6, <3>2, <3>3 DEF Labels, MoveLabels
    <3> QED BY <2>3, <2>10, <3>4 DEF Look, disk
  <2>11. CASE Transfer(m)
    <3>1. UNCHANGED meta
      BY <2>11 DEF Transfer, DropTarget, MoveDir, CopyDir, UndoCopy, DropSource, SetDir
    <3>2. \E r : Become(m, r) /\ r.pc # "meta"
      BY <2>4, <2>6, <2>7, <2>11
         DEF Transfer, DropTarget, MoveDir, CopyDir, UndoCopy, DropSource, Labels, MoveLabels
    <3> QED BY <2>3, <3>1, <3>2
  <2>12. CASE AwaitMutex(m)
    <3> DEFINE r == [job[m] EXCEPT !.pc = "meta", !.step = 1]
    <3>1. r.step = 1
      BY <2>1 DEF Job
    <3>2. Become(m, r) /\ UNCHANGED meta
      BY <2>12 DEF AwaitMutex, disk
    <3> HIDE DEF r
    <3> QED BY <2>3, <3>1, <3>2
  <2>13. CASE LoadApps(m)
    <3>1. [job[m] EXCEPT !.step = @ + 1].pc # "meta"
      BY <2>1, <2>13 DEF Job, LoadApps, At
    <3> QED BY <2>3, <2>5, <2>6, <2>13, <3>1 DEF LoadApps, disk
  <2>14. CASE Release(m)
    BY <2>3, <2>5, <2>14 DEF Release, disk
  <2> QED BY <1>2, <2>2, <2>8, <2>9, <2>10, <2>11, <2>12, <2>13, <2>14 DEF Proceed
<1>3. ASSUME NEW p \in {User, Snapshotter}, NEW r, Become(p, r), UNCHANGED meta
      PROVE  RInv'
  <2>1. \A m \in Movers : job'[m] = job[m]
    BY <1>3, Constants DEF CInv, Types, Become
  <2> QED BY <1>3, <2>1 DEF RInv, RecordKept
<1>4. CASE UserStep
  <2>1. CASE \E g \in Groups : ToggleLock(g)
    BY <2>1, ToggleLockRecord
  <2>2. CASE LoadGroups \/ LoadApps(User)
    BY <1>3, <2>2 DEF LoadGroups, LoadApps, Reload, Answer, disk
  <2>3. CASE MakeAppDir \/ \E g \in Groups : AddApp(g) \/ setMembershipMode(g)
    BY <1>3, <2>3 DEF MakeAppDir, AddApp, setMembershipMode, Reload, SetDir, disk
  <2> QED BY <1>4, <2>1, <2>2, <2>3 DEF UserStep
<1>5. CASE (\E g \in Groups : BackupBegin(g)) \/ BackupEnd
  BY <1>3, <1>5 DEF BackupBegin, BackupEnd, SetDir, disk
<1>6. CASE Crash
  <2>1. Idle.pc # "meta" /\ \A m \in Movers : job'[m] = Idle
    BY <1>6, Constants DEF Crash, Idle
  <2>2. meta' = meta
    BY <1>6 DEF Crash
  <2> QED BY <2>1, <2>2 DEF RInv, RecordKept
<1>7. CASE UNCHANGED vars
  BY <1>7 DEF vars, disk, RInv, RecordKept
<1> QED BY <1>1, <1>2, <1>4, <1>5, <1>6, <1>7 DEF Next

(* The record of the last restore is in some group whenever a move, which  *)
(* puts it in the target before it takes it from the source, is            *)
(* interrupted (finalizeMoveMetadata).                                     *)
THEOREM RecordSurvives == Spec => []RecordKept
<1>1. Init => RInv
  BY Constants DEF Init, Idle, RInv, RecordKept
<1>2. Init => CInv /\ RInv
  BY <1>1, ControlStart
<1>3. CInv /\ RInv /\ [Next]_vars => (CInv /\ RInv)'
  BY ControlStep, RecordStep
<1>4. CInv /\ RInv => RecordKept
  BY DEF RInv
<1> QED BY <1>2, <1>3, <1>4, PTL DEF Spec

-----------------------------------------------------------------------------
(* Transfer: the directories.                                              *)

\* The files of dst are in src with the same length.
Covers(src, dst) == \A a \in files(dst) : src[a] = dst[a]

\* What a mover knows of its directories at each label: what is about to be
\* deleted is held by the other group.
Backed(m) ==
  LET src == dir[job[m].from]  dst == dir[job[m].to] IN
  /\ job[m].pc = "drop_target" => Covers(src, dst) /\ job[m].had \subseteq Whole(src)
  /\ job[m].pc \in {"move", "copy"} => directories(dst) = {} /\ job[m].had \subseteq Whole(src)
  /\ job[m].pc = "undo" => Whole(dst) \subseteq Whole(src)
  /\ job[m].pc = "drop_source" => Whole(src) \subseteq Whole(dst) /\ job[m].had \subseteq Whole(dst)
  /\ job[m].answer = "moved" => job[m].had \subseteq Whole(dst) /\ files(src) = {}

DInv == NothingLost /\ \A m \in Movers : Backed(m)

-----------------------------------------------------------------------------
(* Facts about the directories.                                            *)

\* What is left of a deleted directory, or written by a copy, was in it.
LEMMA Leftovers ==
  ASSUME NEW t \in Tree \cup {NoDir}
  PROVE  /\ \A u \in Remnants(t) : files(u) \subseteq files(t) /\ Whole(u) \subseteq Whole(t)
         /\ \A u \in Cuts(t) : Whole(u) \subseteq Whole(t)
BY DEF Remnants, Cuts, files, Whole, Tree, NoDir

LEMMA NoDirIsBare == directories(NoDir) = {} /\ files(NoDir) = {} /\ Whole(NoDir) = {}
BY DEF NoDir, directories, files, Whole

LEMMA Sizes ==
  ASSUME NEW t
  PROVE  /\ Whole(t) \subseteq files(t) /\ files(t) \subseteq directories(t)
         /\ files(t) \subseteq Archives
BY DEF directories, files, Whole

\* Making the directory adds no file and no archive.
LEMMA MadeIsBare ==
  ASSUME NEW g \in Groups
  PROVE  /\ directories(Made(g)) = directories(dir[g]) /\ files(Made(g)) = files(dir[g])
         /\ Whole(Made(g)) = Whole(dir[g])
BY DEF Made, NoDir, EmptyDir, directories, files, Whole

\* The files of a directory keep their content when directories are made.
LEMMA MadeKeeps ==
  ASSUME NEW g \in Groups, NEW a \in Archives, dir[g][a] \in {"short", "whole"}
  PROVE  Made(g) = dir[g]
BY DEF Made, NoDir

\* What is whole stays somewhere.
LEMMA Lossless ==
  ASSUME NothingLost, saved' = saved,
         \A g \in Groups : \E h \in Groups : Whole(dir[g]) \subseteq Whole(dir'[h])
  PROVE  NothingLost'
BY DEF NothingLost

-----------------------------------------------------------------------------
(* What the others know is not disturbed.                                  *)

\* A mover that knows something of its directories holds their keys.
LEMMA KnowingHolds ==
  ASSUME CInv, NEW m \in Movers,
         \/ job[m].pc \in {"drop_target", "move", "copy", "undo", "drop_source"}
         \/ job[m].answer = "moved"
  PROVE  job[m].from \in job[m].held /\ job[m].to \in job[m].held
BY Constants, Here DEF JobFits, Holding

LEMMA Framed ==
  ASSUME CInv, NEW p \in Procs, NEW m \in Movers, m # p, Backed(m), job'[m] = job[m],
         \A g \in Groups \ job[p].held : dir'[g] = dir[g]
  PROVE  Backed(m)'
<1>1. m \in Procs /\ job[m].from \in Groups /\ job[m].to \in Groups
  BY Constants, Ends
<1>2. CASE \/ job[m].pc \in {"drop_target", "move", "copy", "undo", "drop_source"}
           \/ job[m].answer = "moved"
  <2>1. job[m].from \notin job[p].held /\ job[m].to \notin job[p].held
    BY <1>1, <1>2, KnowingHolds DEF CInv, KeysApart
  <2>2. dir'[job[m].from] = dir[job[m].from] /\ dir'[job[m].to] = dir[job[m].to]
    BY <1>1, <2>1
  <2> QED BY <2>2 DEF Backed
<1>3. CASE ~ \/ job[m].pc \in {"drop_target", "move", "copy", "undo", "drop_source"}
             \/ job[m].answer = "moved"
  BY <1>3 DEF Backed
<1> QED BY <1>2, <1>3

\* One coroutine goes on, changing only directories it has registered.
LEMMA DataAdvance ==
  ASSUME CInv, DInv, NEW p \in Procs, NEW r, Become(p, r), p \in Movers => Backed(p)',
         \A g \in Groups \ job[p].held : dir'[g] = dir[g], NothingLost'
  PROVE  DInv'
<1>1. \A m \in Movers : m \in Procs /\ (m # p => job'[m] = job[m])
  BY Constants DEF CInv, Types, Become
<1>2. ASSUME NEW m \in Movers PROVE Backed(m)'
  BY <1>1, Framed DEF DInv
<1> QED BY <1>2 DEF DInv

\* It goes on without touching a directory.
LEMMA DataStill ==
  ASSUME CInv, DInv, NEW p \in Procs, NEW r, Become(p, r), UNCHANGED <<dir, saved>>,
         p \in Movers => Backed(p)'
  PROVE  DInv'
<1>1. NothingLost'
  BY DEF DInv, NothingLost
<1> QED BY <1>1, DataAdvance

\* Labels at which a mover knows nothing, unless it has moved.
Unknowing == {"idle", "precheck", "source_key", "target_key", "look", "await", "meta", "reload",
              "release"}

LEMMA Unknown ==
  ASSUME CInv, NEW m \in Movers, NEW r, Become(m, r), r.pc \in Unknowing, r.answer # "moved"
  PROVE  Backed(m)'
<1>1. job'[m] = r
  BY Constants DEF CInv, Types, Become
<1> QED BY <1>1 DEF Backed, Unknowing

LEMMA StillMoved ==
  ASSUME CInv, NEW m \in Movers, NEW r, Become(m, r), Backed(m), UNCHANGED dir,
         r.pc \in Unknowing, r.answer = job[m].answer, r.from = job[m].from,
         r.to = job[m].to, r.had = job[m].had
  PROVE  Backed(m)'
<1>1. job'[m] = r
  BY Constants DEF CInv, Types, Become
<1> QED BY <1>1 DEF Backed, Unknowing

-----------------------------------------------------------------------------
(* The steps that touch no directory.                                      *)

\* A mover answers, having moved or not.
LEMMA AnsweredData ==
  ASSUME CInv, DInv, NEW m \in Movers, NEW a, Answer(m, a), a = "moved" => job[m].answer = a,
         UNCHANGED <<dir, saved>>
  PROVE  DInv'
<1> DEFINE r == [job[m] EXCEPT !.pc = "release", !.answer = a, !.step = 0]
<1>1. m \in Procs /\ job[m] \in Job /\ Backed(m)
  BY Constants, Here DEF DInv
<1>2. /\ r.pc = "release" /\ r.answer = a /\ r.from = job[m].from /\ r.to = job[m].to
      /\ r.had = job[m].had
  BY <1>1 DEF Job
<1>3. Become(m, r)
  BY DEF Answer
<1> HIDE DEF r
<1>4. Backed(m)'
  BY <1>1, <1>2, <1>3, Unknown, StillMoved DEF Unknowing
<1> QED BY <1>1, <1>3, <1>4, DataStill

LEMMA StartMoveData ==
  ASSUME CInv, DInv, NEW m \in Movers, NEW f \in Groups, NEW t \in Groups, StartMove(m, f, t)
  PROVE  DInv'
<1> DEFINE r == [Idle EXCEPT !.pc = "precheck", !.from = f, !.to = t]
<1>1. Become(m, r) /\ UNCHANGED <<dir, saved>> /\ m \in Procs
  BY Constants DEF StartMove, disk
<1>2. r.pc = "precheck" /\ r.answer = "none"
  BY DEF Idle
<1> HIDE DEF r
<1> QED BY <1>1, <1>2, Unknown, DataStill DEF Unknowing

LEMMA PrecheckData ==
  ASSUME CInv, DInv, NEW m \in Movers, Precheck(m)
  PROVE  DInv'
<1> DEFINE a == Refusal(job[m].from, job[m].to)  r == [job[m] EXCEPT !.pc = "source_key"]
<1>1. UNCHANGED <<dir, saved>> /\ m \in Procs /\ job[m] \in Job /\ Backed(m)
  BY Constants, Here DEF Precheck, disk, DInv
<1>2. CASE Answer(m, a)
  <2>1. a # "moved"
    BY DEF Refusal
  <2> QED BY <1>1, <1>2, <2>1, AnsweredData
<1>3. CASE Become(m, r)
  <2>1. /\ r.pc = "source_key" /\ r.from = job[m].from /\ r.to = job[m].to
        /\ r.had = job[m].had /\ r.answer = job[m].answer
    BY <1>1 DEF Job
  <2> HIDE DEF r
  <2>2. Backed(m)'
    BY <1>1, <1>3, <2>1, StillMoved DEF Unknowing
  <2> QED BY <1>1, <1>3, <2>2, DataStill
<1> QED BY <1>2, <1>3 DEF Precheck, Goto

LEMMA TakeKeyData ==
  ASSUME CInv, DInv, NEW m \in Movers, NEW g, NEW next \in {"target_key", "look"},
         TakeKey(m, g, next), UNCHANGED <<dir, saved>>
  PROVE  DInv'
<1> DEFINE r == [job[m] EXCEPT !.pc = next, !.held = @ \cup {g}]
<1>1. m \in Procs /\ job[m] \in Job /\ Backed(m)
  BY Constants, Here DEF DInv
<1>2. CASE Answer(m, "busy")
  BY <1>2, AnsweredData
<1>3. CASE Become(m, r)
  <2>1. /\ r.pc = next /\ r.from = job[m].from /\ r.to = job[m].to
        /\ r.had = job[m].had /\ r.answer = job[m].answer
    BY <1>1 DEF Job
  <2> HIDE DEF r
  <2>2. Backed(m)'
    BY <1>1, <1>3, <2>1, StillMoved DEF Unknowing
  <2> QED BY <1>1, <1>3, <2>2, DataStill
<1> QED BY <1>2, <1>3 DEF TakeKey

LEMMA TakeKeysData ==
  ASSUME CInv, DInv, NEW m \in Movers, TakeSource(m) \/ TakeTarget(m)
  PROVE  DInv'
BY TakeKeyData DEF TakeSource, TakeTarget, disk

\* What a decision says about the two directories.
LEMMA Decided ==
  ASSUME NEW src \in Tree \cup {NoDir}, NEW dst \in Tree \cup {NoDir}
  PROVE  /\ Verdict(src, dst) = "move" => directories(dst) = {}
         /\ Verdict(src, dst) = "drop_target" => Covers(src, dst)
         /\ Verdict(src, dst) = "drop_source" => src = dst
         /\ Verdict(src, dst) \in {"already", "error", "move", "drop_target", "drop_source", "nonempty"}
<1>1. directories(dst) = {} => Covers(src, dst)
  BY Sizes DEF Covers
<1>2. isStrictSubsetResidual(src, dst) => Covers(src, dst)
  BY DEF Covers, isStrictSubsetResidual
<1> QED BY <1>1, <1>2, NoDirIsBare DEF Verdict, isCompletelyEmptyDir, isIdenticalRelativeTo

LEMMA LookData ==
  ASSUME ~ReadFaults, CInv, DInv, NEW m \in Movers, Look(m)
  PROVE  DInv'
<1> DEFINE src == dir[job[m].from]  dst == dir[job[m].to]  v == Verdict(src, dst)
<1>1. /\ UNCHANGED <<dir, saved>> /\ m \in Procs /\ job[m] \in Job /\ Backed(m)
      /\ job[m].pc = "look" /\ JobFits(m, job[m])
  BY Constants, Here DEF Look, At, disk, DInv
<1>2. /\ v = "already" => Become(m, [job[m] EXCEPT !.pc = "await", !.answer = v])
      /\ v \in {"error", "nonempty"} => Answer(m, v)
      /\ v \in {"move", "drop_target", "drop_source"} =>
           Become(m, [job[m] EXCEPT !.pc = v, !.had = Whole(src)])
  BY DEF Look, Views
<1>3. src \in Tree \cup {NoDir} /\ dst \in Tree \cup {NoDir} /\ job[m].answer # "moved"
  BY <1>1, Ends DEF JobFits
<1>4. /\ v = "move" => directories(dst) = {}
      /\ v = "drop_target" => Covers(src, dst)
      /\ v = "drop_source" => src = dst
      /\ v \in {"already", "error", "move", "drop_target", "drop_source", "nonempty"}
  BY <1>3, Decided
<1> HIDE DEF v
<1>5. CASE v = "already"
  <2> DEFINE r == [job[m] EXCEPT !.pc = "await", !.answer = v]
  <2>1. Become(m, r) /\ r.pc = "await" /\ r.answer = "already"
    BY <1>1, <1>2, <1>5 DEF Job
  <2> HIDE DEF r
  <2> QED BY <1>1, <2>1, Unknown, DataStill DEF Unknowing
<1>6. CASE v \in {"error", "nonempty"}
  BY <1>1, <1>2, <1>6, AnsweredData
<1>7. CASE v \in {"move", "drop_target", "drop_source"}
  <2> DEFINE r == [job[m] EXCEPT !.pc = v, !.had = Whole(src)]
  <2>1. /\ Become(m, r) /\ r.pc = v /\ r.had = Whole(src) /\ r.from = job[m].from
        /\ r.to = job[m].to /\ r.answer = job[m].answer
    BY <1>1, <1>2, <1>7 DEF Job
  <2> HIDE DEF r
  <2>2. job'[m] = r
    BY <1>1, <2>1 DEF CInv, Types, Become
  <2>3. dir'[r.from] = src /\ dir'[r.to] = dst
    BY <1>1, <2>1
  <2>4. Backed(m)'
    BY <1>3, <1>4, <1>7, <2>1, <2>2, <2>3 DEF Backed
  <2> QED BY <1>1, <2>1, <2>4, DataStill
<1> QED BY <1>4, <1>5, <1>6, <1>7

-----------------------------------------------------------------------------
(* The steps of a transfer.                                                *)

\* A directory may be changed at will when another holds what it has whole.
LEMMA Spared ==
  ASSUME NothingLost, saved' = saved, NEW g \in Groups, NEW h \in Groups, g # h,
         \A k \in Groups \ {g} : dir'[k] = dir[k], Whole(dir[g]) \subseteq Whole(dir[h])
  PROVE  NothingLost'
<1>1. \A k \in Groups : \E l \in Groups : Whole(dir[k]) \subseteq Whole(dir'[l])
  OBVIOUS
<1> QED BY <1>1, Lossless

LEMMA CoversWhole ==
  ASSUME NEW src, NEW dst, Covers(src, dst)
  PROVE  Whole(dst) \subseteq Whole(src)
BY DEF Covers, Whole, files

\* What a mover in a transfer works on.
LEMMA InTransfer ==
  ASSUME CInv, DInv, NEW m \in Movers,
         job[m].pc \in {"drop_target", "move", "copy", "undo", "drop_source"}
  PROVE  /\ m \in Procs /\ job[m] \in Job /\ Backed(m) /\ NothingLost
         /\ job[m].from \in Groups /\ job[m].to \in Groups /\ job[m].from # job[m].to
         /\ job[m].from \in job[m].held /\ job[m].to \in job[m].held
         /\ job[m].answer # "moved" /\ dir \in [Groups -> Tree \cup {NoDir}]
         /\ dir[job[m].from] \in Tree \cup {NoDir} /\ dir[job[m].to] \in Tree \cup {NoDir}
<1>1. job[m].answer # "moved" /\ job[m].from # job[m].to
  BY Constants, Here DEF JobFits
<1> QED BY <1>1, Constants, Here, Ends, KnowingHolds DEF DInv, CInv, Types

\* A mover changes one of its two directories, goes on, and what it knows of
\* them holds again.
LEMMA OneDirData ==
  ASSUME CInv, DInv, NEW m \in Movers, NEW r, Become(m, r), NEW g \in Groups, NEW h \in Groups,
         job[m].pc \in {"drop_target", "move", "copy", "undo", "drop_source"},
         g # h, g \in job[m].held, Whole(dir[g]) \subseteq Whole(dir[h]), saved' = saved,
         NEW t, SetDir(g, t), Backed(m)'
  PROVE  DInv'
<1>1. \A k \in Groups \ {g} : dir'[k] = dir[k]
  BY InTransfer DEF SetDir
<1>2. NothingLost'
  BY <1>1, InTransfer, Spared
<1> QED BY <1>1, <1>2, InTransfer, DataAdvance

\* The error ends the transfer.
LEMMA FailedData ==
  ASSUME CInv, DInv, NEW m \in Movers, Answer(m, "error"), NEW g \in Groups, NEW h \in Groups,
         job[m].pc \in {"drop_target", "move", "copy", "undo", "drop_source"},
         g # h, g \in job[m].held, Whole(dir[g]) \subseteq Whole(dir[h]), saved' = saved,
         NEW t, SetDir(g, t)
  PROVE  DInv'
<1> DEFINE r == [job[m] EXCEPT !.pc = "release", !.answer = "error", !.step = 0]
<1>1. Become(m, r) /\ r.pc = "release" /\ r.answer = "error"
  BY InTransfer DEF Answer, Job
<1> HIDE DEF r
<1>2. Backed(m)'
  BY <1>1, Unknown DEF Unknowing
<1> QED BY <1>1, <1>2, OneDirData

LEMMA DropTargetData ==
  ASSUME CInv, DInv, NEW m \in Movers, DropTarget(m)
  PROVE  DInv'
<1> DEFINE f == job[m].from  t == job[m].to  r == [job[m] EXCEPT !.pc = "move"]
<1>1. job[m].pc = "drop_target" /\ saved' = saved
  BY DEF DropTarget, At
<1>2. /\ m \in Procs /\ job[m] \in Job /\ f \in Groups /\ t \in Groups /\ f # t /\ t \in job[m].held
      /\ dir \in [Groups -> Tree \cup {NoDir}] /\ job[m].answer # "moved"
  BY <1>1, InTransfer
<1>3. Covers(dir[f], dir[t]) /\ job[m].had \subseteq Whole(dir[f])
  BY <1>1, InTransfer DEF Backed
<1>4. Whole(dir[t]) \subseteq Whole(dir[f])
  BY <1>3, CoversWhole
<1>5. CASE SetDir(t, NoDir) /\ Become(m, r)
  <2>1. /\ r.pc = "move" /\ r.from = f /\ r.to = t /\ r.had = job[m].had
        /\ r.answer = job[m].answer
    BY <1>2 DEF Job
  <2> HIDE DEF r
  <2>2. job'[m] = r /\ dir'[f] = dir[f] /\ dir'[t] = NoDir
    BY <1>2, <1>5 DEF CInv, Types, Become, SetDir
  <2>3. Backed(m)'
    BY <1>2, <1>3, <2>1, <2>2, NoDirIsBare DEF Backed
  <2> QED BY <1>1, <1>2, <1>4, <1>5, <2>3, OneDirData
<1>6. CASE Answer(m, "error") /\ \E u \in Remnants(dir[t]) : SetDir(t, u)
  BY <1>1, <1>2, <1>4, <1>6, FailedData
<1> QED BY <1>5, <1>6 DEF DropTarget, Goto

LEMMA MoveDirData ==
  ASSUME CInv, DInv, NEW m \in Movers, MoveDir(m)
  PROVE  DInv'
<1> DEFINE f == job[m].from  t == job[m].to
<1>1. job[m].pc = "move" /\ saved' = saved
  BY DEF MoveDir, At
<1>2. /\ m \in Procs /\ job[m] \in Job /\ f \in Groups /\ t \in Groups /\ f # t
      /\ f \in job[m].held /\ t \in job[m].held /\ NothingLost
      /\ dir \in [Groups -> Tree \cup {NoDir}] /\ job[m].answer # "moved"
  BY <1>1, InTransfer
<1>3. directories(dir[t]) = {} /\ job[m].had \subseteq Whole(dir[f])
  BY <1>1, InTransfer DEF Backed
<1>4. CASE UNCHANGED dir /\ Goto(m, "copy")
  <2> DEFINE r == [job[m] EXCEPT !.pc = "copy"]
  <2>1. /\ Become(m, r) /\ r.pc = "copy" /\ r.from = f /\ r.to = t /\ r.had = job[m].had
        /\ r.answer = job[m].answer
    BY <1>2, <1>4 DEF Job, Goto
  <2> HIDE DEF r
  <2>2. job'[m] = r
    BY <1>2, <2>1 DEF CInv, Types, Become
  <2>3. Backed(m)'
    BY <1>2, <1>3, <1>4, <2>1, <2>2 DEF Backed
  <2> QED BY <1>1, <1>2, <1>4, <2>1, <2>3, DataStill
<1>5. CASE /\ dir' = [dir EXCEPT ![t] = dir[f], ![f] = NoDir]
           /\ Become(m, [job[m] EXCEPT !.pc = "await", !.answer = "moved"])
  <2> DEFINE r == [job[m] EXCEPT !.pc = "await", !.answer = "moved"]
  <2>1. /\ Become(m, r) /\ r.pc = "await" /\ r.from = f /\ r.to = t /\ r.had = job[m].had
    BY <1>2, <1>5 DEF Job
  <2> HIDE DEF r
  <2>2. job'[m] = r
    BY <1>2, <2>1 DEF CInv, Types, Become
  <2>3. /\ dir'[t] = dir[f] /\ dir'[f] = NoDir
        /\ \A g \in Groups \ {f, t} : dir'[g] = dir[g]
    BY <1>2, <1>5
  <2>4. Backed(m)'
    BY <1>3, <2>1, <2>2, <2>3, NoDirIsBare DEF Backed
  <2>5. Whole(dir[t]) = {}
    BY <1>3, Sizes
  <2>6. \A g \in Groups : \E h \in Groups : Whole(dir[g]) \subseteq Whole(dir'[h])
    BY <1>2, <2>3, <2>5
  <2>7. NothingLost'
    BY <1>1, <1>2, <2>6, Lossless
  <2> QED BY <1>2, <2>1, <2>3, <2>4, <2>7, DataAdvance
<1> QED BY <1>4, <1>5 DEF MoveDir

LEMMA CopyDirData ==
  ASSUME CInv, DInv, NEW m \in Movers, CopyDir(m)
  PROVE  DInv'
<1> DEFINE f == job[m].from  t == job[m].to
<1>1. job[m].pc = "copy" /\ saved' = saved
  BY DEF CopyDir, At
<1>2. /\ m \in Procs /\ job[m] \in Job /\ f \in Groups /\ t \in Groups /\ f # t
      /\ t \in job[m].held /\ dir[f] \in Tree \cup {NoDir}
      /\ dir \in [Groups -> Tree \cup {NoDir}] /\ job[m].answer # "moved"
  BY <1>1, InTransfer
<1>3. directories(dir[t]) = {} /\ job[m].had \subseteq Whole(dir[f])
  BY <1>1, InTransfer DEF Backed
<1>4. Whole(dir[t]) = {}
  BY <1>3, Sizes
<1>5. PICK label \in {"drop_source", "undo"}, u \in {dir[f], dir[t]} \cup Cuts(dir[f]) :
        /\ Goto(m, label) /\ SetDir(t, u)
        /\ label = "drop_source" => u = dir[f]
  BY DEF CopyDir
<1> DEFINE r == [job[m] EXCEPT !.pc = label]
<1>6. /\ Become(m, r) /\ r.pc = label /\ r.from = f /\ r.to = t /\ r.had = job[m].had
      /\ r.answer = job[m].answer
  BY <1>2, <1>5 DEF Job, Goto
<1> HIDE DEF r
<1>7. job'[m] = r /\ dir'[f] = dir[f] /\ dir'[t] = u
  BY <1>2, <1>5, <1>6 DEF CInv, Types, Become, SetDir
<1>8. Whole(u) \subseteq Whole(dir[f])
  BY <1>2, <1>4, Leftovers
<1>9. Backed(m)'
  BY <1>2, <1>3, <1>5, <1>6, <1>7, <1>8 DEF Backed
<1> QED BY <1>1, <1>2, <1>4, <1>5, <1>6, <1>9, OneDirData

LEMMA UndoCopyData ==
  ASSUME CInv, DInv, NEW m \in Movers, UndoCopy(m)
  PROVE  DInv'
<1> DEFINE f == job[m].from  t == job[m].to
<1>1. job[m].pc = "undo" /\ saved' = saved /\ Answer(m, "error")
  BY DEF UndoCopy, At
<1>2. f \in Groups /\ t \in Groups /\ f # t /\ t \in job[m].held
  BY <1>1, InTransfer
<1>3. Whole(dir[t]) \subseteq Whole(dir[f])
  BY <1>1, InTransfer DEF Backed
<1>4. PICK u : SetDir(t, u)
  BY DEF UndoCopy
<1> QED BY <1>1, <1>2, <1>3, <1>4, FailedData

LEMMA DropSourceData ==
  ASSUME CInv, DInv, NEW m \in Movers, DropSource(m)
  PROVE  DInv'
<1> DEFINE f == job[m].from  t == job[m].to
<1>1. job[m].pc = "drop_source" /\ saved' = saved
  BY DEF DropSource, At
<1>2. /\ m \in Procs /\ job[m] \in Job /\ f \in Groups /\ t \in Groups /\ f # t
      /\ f \in job[m].held /\ dir \in [Groups -> Tree \cup {NoDir}]
  BY <1>1, InTransfer
<1>3. Whole(dir[f]) \subseteq Whole(dir[t]) /\ job[m].had \subseteq Whole(dir[t])
  BY <1>1, InTransfer DEF Backed
<1> DEFINE r == [job[m] EXCEPT !.pc = "await", !.answer = "moved"]
<1>4. CASE SetDir(f, NoDir) /\ Become(m, r)
  <2>1. /\ r.pc = "await" /\ r.from = f /\ r.to = t /\ r.had = job[m].had
    BY <1>2 DEF Job
  <2> HIDE DEF r
  <2>2. job'[m] = r /\ dir'[f] = NoDir /\ dir'[t] = dir[t]
    BY <1>2, <1>4 DEF CInv, Types, Become, SetDir
  <2>3. Backed(m)'
    BY <1>3, <2>1, <2>2, NoDirIsBare DEF Backed
  <2> QED BY <1>1, <1>2, <1>3, <1>4, <2>3, OneDirData
<1>5. CASE Answer(m, "error") /\ \E u \in Remnants(dir[f]) : SetDir(f, u)
  BY <1>1, <1>2, <1>3, <1>5, FailedData
<1> QED BY <1>4, <1>5 DEF DropSource

-----------------------------------------------------------------------------
(* After the transfer, and the others.                                     *)

LEMMA AfterData ==
  ASSUME CInv, DInv, NEW m \in Movers,
         AwaitMutex(m) \/ Finalize(m) \/ FinalizeFails(m) \/ Release(m)
  PROVE  DInv'
<1>1. m \in Procs /\ job[m] \in Job /\ Backed(m)
  BY Constants, Here DEF DInv
<1>2. CASE Answer(m, "error") /\ UNCHANGED <<dir, saved>>
  BY <1>2, AnsweredData
<1>3. CASE Become(m, Idle) /\ UNCHANGED <<dir, saved>>
  <2>1. Idle.pc = "idle" /\ Idle.answer = "none"
    BY DEF Idle
  <2> QED BY <1>1, <1>3, <2>1, Unknown, DataStill DEF Unknowing
<1>4. ASSUME NEW label \in {"meta", "reload"}, NEW step,
             Become(m, [job[m] EXCEPT !.pc = label, !.step = step]), UNCHANGED <<dir, saved>>
      PROVE  DInv'
  <2> DEFINE r == [job[m] EXCEPT !.pc = label, !.step = step]
  <2>1. /\ r.pc = label /\ r.from = job[m].from /\ r.to = job[m].to
        /\ r.had = job[m].had /\ r.answer = job[m].answer
    BY <1>1 DEF Job
  <2>2. Become(m, r)
    BY <1>4
  <2> HIDE DEF r
  <2>3. Backed(m)'
    BY <1>1, <1>4, <2>1, <2>2, StillMoved DEF Unknowing
  <2> QED BY <1>1, <1>4, <2>2, <2>3, DataStill
<1>5. CASE AwaitMutex(m)
  BY <1>4, <1>5 DEF AwaitMutex, disk
<1>6. CASE Finalize(m)
  <2>1. [job[m] EXCEPT !.step = @ + 1] = [job[m] EXCEPT !.pc = "meta", !.step = @ + 1]
    BY <1>1, <1>6 DEF Finalize, At, Job
  <2> QED BY <1>4, <1>6, <2>1 DEF Finalize, Reload
<1>7. CASE FinalizeFails(m)
  BY <1>2, <1>7 DEF FinalizeFails, disk
<1>8. CASE Release(m)
  BY <1>3, <1>8 DEF Release, disk
<1> QED BY <1>5, <1>6, <1>7, <1>8

LEMMA LoadAppsData ==
  ASSUME CInv, DInv, NEW p \in Movers \cup {User}, LoadApps(p)
  PROVE  DInv'
<1>1. /\ p \in Procs /\ job[p] \in Job /\ UNCHANGED <<dir, saved>>
      /\ (p \in Movers => Backed(p)) /\ (p = User => p \notin Movers) /\ job[p].pc = "reload"
  BY Constants, Here DEF LoadApps, At, disk, DInv
<1>2. CASE p \in Movers /\ Answer(p, job[p].answer)
  BY <1>1, <1>2, AnsweredData
<1>3. CASE Become(p, Idle)
  <2>1. Idle.pc = "idle" /\ Idle.answer = "none"
    BY DEF Idle
  <2> QED BY <1>1, <1>3, <2>1, Unknown, DataStill DEF Unknowing
<1> DEFINE r == [job[p] EXCEPT !.step = @ + 1]
<1>4. CASE Become(p, r)
  <2>1. /\ r.pc = "reload" /\ r.from = job[p].from /\ r.to = job[p].to
        /\ r.had = job[p].had /\ r.answer = job[p].answer
    BY <1>1 DEF Job
  <2> HIDE DEF r
  <2>2. p \in Movers => Backed(p)'
    BY <1>1, <1>4, <2>1, StillMoved DEF Unknowing
  <2> QED BY <1>1, <1>4, <2>2, DataStill
<1> QED BY <1>1, <1>2, <1>3, <1>4 DEF LoadApps

LEMMA UserStillData ==
  ASSUME CInv, DInv, NEW g \in Groups,
         LoadGroups \/ AddApp(g) \/ setMembershipMode(g) \/ ToggleLock(g) \/ BackupBegin(g)
  PROVE  DInv'
<1>1. User \in Procs /\ User \notin Movers /\ Snapshotter \in Procs /\ Snapshotter \notin Movers
  BY Constants
<1>2. UNCHANGED <<dir, saved>>
  BY DEF LoadGroups, AddApp, setMembershipMode, ToggleLock, BackupBegin, disk
<1>3. CASE ToggleLock(g)
  <2>1. job' = job
    BY <1>3 DEF ToggleLock
  <2>2. NothingLost' /\ \A m \in Movers : Backed(m)'
    BY <1>2, <2>1 DEF DInv, NothingLost, Backed
  <2> QED BY <2>2 DEF DInv
<1>4. CASE (\E r : Become(User, r)) \/ (\E r : Become(Snapshotter, r))
  BY <1>1, <1>2, <1>4, DataStill
<1> QED BY <1>3, <1>4 DEF LoadGroups, AddApp, setMembershipMode, BackupBegin, Reload

LEMMA MakeAppDirData ==
  ASSUME CInv, DInv, MakeAppDir
  PROVE  DInv'
<1> DEFINE g == job[User].from
<1>1. /\ User \in Procs /\ User \notin Movers /\ saved' = saved /\ g \in Groups
      /\ dir \in [Groups -> Tree \cup {NoDir}]
  BY Constants, Here, Fields DEF MakeAppDir, CInv, Types
<1>2. PICK r : Become(User, r)
  BY DEF MakeAppDir, Reload
<1>3. CASE UNCHANGED disk
  BY <1>1, <1>2, <1>3, DataStill DEF disk
<1>4. CASE SetDir(g, Made(g))
  <2>1. dir'[g] = Made(g) /\ \A k \in Groups \ {g} : dir'[k] = dir[k]
    BY <1>1, <1>4 DEF SetDir
  <2>2. \A k \in Groups : /\ directories(dir'[k]) = directories(dir[k])
                          /\ files(dir'[k]) = files(dir[k]) /\ Whole(dir'[k]) = Whole(dir[k])
    BY <1>1, <2>1, MadeIsBare
  <2>3. \A k \in Groups, a \in Archives : dir[k][a] \in {"short", "whole"} => dir'[k] = dir[k]
    BY <1>1, <2>1, MadeKeeps
  <2>4. NothingLost'
    BY <1>1, <2>2, Lossless DEF DInv
  <2>5. ASSUME NEW m \in Movers PROVE Backed(m)'
    <3>1. job'[m] = job[m] /\ Backed(m) /\ job[m].from \in Groups /\ job[m].to \in Groups
      BY <1>1, <1>2, Constants, Ends DEF CInv, Types, Become, DInv
    <3>2. ASSUME Covers(dir[job[m].from], dir[job[m].to])
          PROVE  Covers(dir'[job[m].from], dir'[job[m].to])
      <4> SUFFICES ASSUME NEW a \in files(dir'[job[m].to])
                   PROVE  dir'[job[m].from][a] = dir'[job[m].to][a]
        BY DEF Covers
      <4>1. a \in files(dir[job[m].to])
        BY <2>2, <3>1
      <4>2. a \in Archives /\ dir[job[m].to][a] \in {"short", "whole"}
        BY <4>1 DEF files
      <4>3. dir[job[m].from][a] = dir[job[m].to][a]
        BY <3>2, <4>1 DEF Covers
      <4> QED BY <2>3, <3>1, <4>2, <4>3
    <3> QED BY <2>2, <3>1, <3>2 DEF Backed
  <2> QED BY <2>4, <2>5 DEF DInv
<1> QED BY <1>3, <1>4 DEF MakeAppDir

LEMMA BackupEndData ==
  ASSUME CInv, DInv, BackupEnd
  PROVE  DInv'
<1> DEFINE g == job[Snapshotter].from
<1>1. /\ Snapshotter \in Procs /\ Snapshotter \notin Movers /\ Become(Snapshotter, Idle)
      /\ job[Snapshotter].pc = "backup" /\ Typed /\ NothingLost
  BY Constants, Here DEF BackupEnd, At, DInv
<1>2. g \in Groups /\ g \in job[Snapshotter].held
  BY <1>1, Here, Fields DEF JobFits
<1>3. Whole(Made(g)) = Whole(dir[g]) /\ Made(g) \in Tree
  BY <1>1, <1>2, MadeIsBare, MadeType
<1>4. CASE UNCHANGED <<disk, saved>>
  BY <1>1, <1>4, DataStill DEF disk
<1>5. CASE SetDir(g, Made(g)) /\ UNCHANGED saved
  <2>1. dir'[g] = Made(g) /\ \A k \in Groups \ {g} : dir'[k] = dir[k]
    BY <1>1, <1>2, <1>5 DEF SetDir, Typed
  <2>2. NothingLost'
    BY <1>1, <1>2, <1>3, <1>5, <2>1, Lossless
  <2> QED BY <1>1, <1>2, <2>1, <2>2, DataAdvance
<1>6. ASSUME NEW a \in Archives \ saved, saved' = saved \cup {a},
             SetDir(g, [Made(g) EXCEPT ![a] = "whole"])
      PROVE  DInv'
  <2>1. /\ dir'[g] = [Made(g) EXCEPT ![a] = "whole"]
        /\ \A k \in Groups \ {g} : dir'[k] = dir[k]
    BY <1>1, <1>2, <1>6 DEF SetDir, Typed
  <2>2. a \in Whole(dir'[g]) /\ Whole(Made(g)) \subseteq Whole(dir'[g])
    BY <1>3, <2>1 DEF Whole, Tree
  <2>3. \A k \in Groups : Whole(dir[k]) \subseteq Whole(dir'[k])
    BY <1>2, <1>3, <2>1, <2>2
  <2>4. NothingLost'
    BY <1>1, <1>2, <1>6, <2>2, <2>3 DEF NothingLost
  <2> QED BY <1>1, <1>2, <2>1, <2>4, DataAdvance
<1> QED BY <1>4, <1>5, <1>6 DEF BackupEnd

LEMMA CrashData ==
  ASSUME CInv, DInv, Crash
  PROVE  DInv'
<1>1. saved' = saved /\ NothingLost /\ dir \in [Groups -> Tree \cup {NoDir}]
  BY DEF Crash, DInv, CInv, Types
<1>2. ASSUME NEW m \in Movers, dir' \in InFlight(m) PROVE NothingLost'
  <2> DEFINE f == job[m].from  t == job[m].to
  <2>1. job[m].pc \in {"drop_target", "copy", "undo", "drop_source"}
    BY <1>2 DEF InFlight, At
  <2>2. f \in Groups /\ t \in Groups /\ f # t /\ Backed(m)
    BY <2>1, InTransfer
  <2>3. CASE job[m].pc \in {"drop_target", "copy", "undo"}
    <3>1. PICK u : dir' = [dir EXCEPT ![t] = u]
      BY <1>2, <2>3 DEF InFlight, At
    <3>2. Whole(dir[t]) \subseteq Whole(dir[f])
      BY <2>2, <2>3, CoversWhole, Sizes DEF Backed
    <3> QED BY <1>1, <2>2, <3>1, <3>2, Spared
  <2>4. CASE job[m].pc = "drop_source"
    <3>1. PICK u : dir' = [dir EXCEPT ![f] = u]
      BY <1>2, <2>4 DEF InFlight, At
    <3>2. Whole(dir[f]) \subseteq Whole(dir[t])
      BY <2>2, <2>4 DEF Backed
    <3> QED BY <1>1, <2>2, <3>1, <3>2, Spared
  <2> QED BY <2>1, <2>3, <2>4
<1>3. NothingLost'
  <2>1. CASE dir' = dir
    BY <1>1, <2>1 DEF NothingLost
  <2> QED BY <1>2, <2>1 DEF Crash
<1>4. ASSUME NEW m \in Movers PROVE Backed(m)'
  <2>1. job'[m] = Idle
    BY Constants DEF Crash
  <2>2. Idle.pc = "idle" /\ Idle.answer = "none"
    BY DEF Idle
  <2> QED BY <2>1, <2>2 DEF Backed
<1> QED BY <1>3, <1>4 DEF DInv

-----------------------------------------------------------------------------
LEMMA DataStart == Init => DInv
<1> SUFFICES ASSUME Init PROVE DInv
  OBVIOUS
<1>1. PICK o \in Groups, a \in Archives :
        /\ dir = [g \in Groups |-> IF g = o THEN [EmptyDir EXCEPT ![a] = "whole"] ELSE NoDir]
        /\ saved = {a} /\ job = [p \in Procs |-> Idle]
  BY DEF Init
<1>2. NothingLost
  BY <1>1 DEF NothingLost, Whole, EmptyDir
<1>3. ASSUME NEW m \in Movers PROVE Backed(m)
  <2>1. job[m] = Idle
    BY <1>1, Constants
  <2>2. Idle.pc = "idle" /\ Idle.answer = "none"
    BY DEF Idle
  <2> QED BY <2>1, <2>2 DEF Backed
<1> QED BY <1>2, <1>3 DEF DInv

LEMMA DataStep ==
  ASSUME ~ReadFaults, CInv, DInv, [Next]_vars
  PROVE  DInv'
<1>1. ASSUME NEW m \in Movers, NEW f \in Groups, NEW t \in Groups, StartMove(m, f, t)
      PROVE  DInv'
  BY <1>1, StartMoveData
<1>2. ASSUME NEW m \in Movers, Proceed(m) PROVE DInv'
  <2>1. CASE Transfer(m)
    BY <2>1, DropTargetData, MoveDirData, CopyDirData, UndoCopyData, DropSourceData DEF Transfer
  <2>2. CASE Precheck(m) \/ TakeSource(m) \/ TakeTarget(m) \/ Look(m)
    BY <2>2, PrecheckData, TakeKeysData, LookData
  <2>3. CASE AwaitMutex(m) \/ Finalize(m) \/ FinalizeFails(m) \/ LoadApps(m) \/ Release(m)
    BY <2>3, AfterData, LoadAppsData
  <2> QED BY <1>2, <2>1, <2>2, <2>3 DEF Proceed
<1>3. CASE UserStep
  <2>1. CASE LoadApps(User) \/ MakeAppDir
    BY <2>1, LoadAppsData, MakeAppDirData
  <2>2. \E g \in Groups : TRUE
    BY ConstantsAssumption
  <2> QED BY <1>3, <2>1, <2>2, UserStillData DEF UserStep
<1>4. CASE (\E g \in Groups : BackupBegin(g)) \/ BackupEnd
  BY <1>4, UserStillData, BackupEndData
<1>5. CASE Crash
  BY <1>5, CrashData
<1>6. CASE UNCHANGED vars
  BY <1>6 DEF vars, disk, counters, DInv, NothingLost, Backed
<1> QED BY <1>1, <1>2, <1>3, <1>4, <1>5, <1>6 DEF Next

LEMMA DataInvariant == ASSUME ~ReadFaults PROVE Spec => [](CInv /\ DInv)
<1>1. Init => CInv /\ DInv
  BY ControlStart, DataStart
<1>2. CInv /\ DInv /\ [Next]_vars => (CInv /\ DInv)'
  BY ControlStep, DataStep
<1> QED BY <1>1, <1>2, PTL DEF Spec

(* Every archive a backup reported as done stays whole in some group, for  *)
(* any number of failing deletes and copies and of deaths of the process   *)
(* (transferPackageDirectory), as long as exists() and listDir() do not    *)
(* answer "no" for a directory they could not read.                        *)
THEOREM NoArchiveLost == ASSUME ~ReadFaults PROVE Spec => []NothingLost
<1>1. CInv /\ DInv => NothingLost
  BY DEF DInv
<1> QED BY <1>1, DataInvariant, PTL

(* A move that answers Moved has brought every whole archive, and left     *)
(* none behind (AppDataRepository.moveAppBetweenGroupsLocked).             *)
THEOREM MoveArrives == ASSUME ~ReadFaults PROVE Spec => []MovedArrives
<1>1. CInv /\ DInv => MovedArrives
  BY DEF DInv, Backed, MovedArrives, At
<1> QED BY <1>1, DataInvariant, PTL

(* A target with a file the source lacks, or has with another length, is   *)
(* never deleted (isStrictSubsetResidual).                                 *)
THEOREM TargetSpared == ASSUME ~ReadFaults PROVE Spec => []TargetKept
<1>1. CInv /\ DInv => TargetKept
  BY DEF DInv, Backed, Covers, TargetKept, At
<1> QED BY <1>1, DataInvariant, PTL
=============================================================================
