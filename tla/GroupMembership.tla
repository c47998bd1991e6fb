--------------------------- MODULE GroupMembership ---------------------------
(***************************************************************************)
(* Which group owns an app, and how the app moves from one group to        *)
(* another: AppDataRepository.addAppsToGroup, setMembershipMode,           *)
(* reloadGroupsLocked and moveAppBetweenGroups with                        *)
(* transferPackageDirectory, for one package of one user.                  *)
(*                                                                         *)
(* A group owns the app when its root holds a directory for the package.   *)
(* The repository decides on what it listed last (member), under a mutex;  *)
(* the directories are moved outside the mutex, under the occupancy guard  *)
(* of PackageOps; the process may die at any time.                         *)
(***************************************************************************)
EXTENDS Naturals, Sequences, FiniteSets

CONSTANTS
  groupIds,    \* the registered groups, in the order a load visits them
  Archives,    \* archives of the package
  Movers,      \* coroutines that move the app
  User,        \* the coroutine of a load, an add or a change of mode
  Snapshotter, \* the coroutine of a backup
  NoOne,       \* the holder of a free mutex
  ReadFaults,  \* whether an outage reaches exists() and listDir()
  MaxFaults, MaxCrashes, \* bounds on failing calls and on deaths of the process
  MaxChanges   \* bound on adds and changes of mode

Groups == {groupIds[i] : i \in 1..Len(groupIds)}
Procs == Movers \cup {User, Snapshotter}

ASSUME ConstantsAssumption ==
  /\ groupIds \in Seq(Groups) /\ Groups # {} /\ Archives # {}
  /\ User # Snapshotter /\ {User, Snapshotter} \cap Movers = {} /\ NoOne \notin Procs
  /\ ReadFaults \in BOOLEAN
  /\ MaxFaults \in Nat /\ MaxCrashes \in Nat /\ MaxChanges \in Nat

VARIABLES
  dir,        \* on disk: the package's directory in each group
  exclusive,  \* on disk: GroupConfigData.membershipMode
  meta,       \* on disk: lockedList and the RestoreRecord of the package
  member,     \* in memory: whether SnapGroup.apps contains the package
  packageOps, \* PackageOpGuard.packageOps: groups whose packageDir is busy
  mutex,      \* holder of loadGroupsMutex
  job,        \* what each coroutine is doing
  saved,      \* archives a backup reported as done
  faults, crashes, changes

disk == <<dir, exclusive, meta>>
counters == <<faults, crashes, changes>>
vars == <<disk, member, packageOps, mutex, job, saved, counters>>

-----------------------------------------------------------------------------
(* Trees.  A package directory holds a directory per archive with its      *)
(* payload in it: "none", "dir" (the payload is missing), "short" (cut     *)
(* short, so of another length) or "whole".                                *)

Tree == [Archives -> {"none", "dir", "short", "whole"}]
NoDir == [a \in Archives |-> "gone"]
EmptyDir == [a \in Archives |-> "none"]

directories(t) == {a \in Archives : t[a] \notin {"none", "gone"}}
files(t) == {a \in Archives : t[a] \in {"short", "whole"}}
Whole(t) == {a \in Archives : t[a] = "whole"}

isCompletelyEmptyDir(t) == directories(t) = {}

isIdenticalRelativeTo(src, dst) == src = dst

\* A mutant: a residual is not compared by length.
SubsetOfNames(src, dst) ==
  /\ directories(dst) # {} /\ files(dst) \subseteq files(src)
  /\ directories(dst) \subseteq directories(src)

isStrictSubsetResidual(src, dst) ==
  /\ directories(dst) # {}
  /\ \A a \in files(dst) : src[a] = dst[a]
  /\ directories(dst) \subseteq directories(src)
  /\ \E a \in files(src) : a \notin files(dst)

isCompleteRelativeTo(src, dst) ==
  IF files(src) = {} THEN directories(dst) = {} ELSE \A a \in files(src) : dst[a] = src[a]

\* What a recursive delete of t that stopped may leave.
Remnants(t) ==
  {u \in Tree : \E cut \in Archives :
     /\ u[cut] \in {t[cut], "none"} \cup (IF cut \in files(t) THEN {"dir"} ELSE {})
     /\ \A a \in Archives \ {cut} : u[a] \in {t[a], "none"}}

\* What a recursive copy of t that stopped may have written.
Cuts(t) ==
  {u \in Tree : \E cut \in Archives :
     /\ u[cut] \in {"none"} \cup (IF cut \in directories(t) THEN {"dir"} ELSE {})
                            \cup (IF cut \in files(t) THEN {"short"} ELSE {})
     /\ \A a \in Archives \ {cut} : u[a] \in {t[a], "none"}}

-----------------------------------------------------------------------------
(* Jobs.  from and to are the groups of a move (from alone, of an add or a *)
(* backup), held the keys to give back, had the archives that were whole   *)
(* when a transfer began, step the position in a load or in the metadata.  *)

MoveLabels == {"precheck", "source_key", "target_key", "look", "drop_target", "move", "copy",
               "undo", "drop_source", "await", "meta", "reload", "release"}
Labels == MoveLabels \cup {"idle", "mkdir", "backup"}
Answers == {"none", "moved", "already", "locked", "nonempty", "corrupt", "busy", "error"}
Locked == {"meta", "reload", "mkdir"}   \* labels inside the mutex

Job == [pc : Labels, from : Groups, to : Groups, held : SUBSET Groups, had : SUBSET Archives,
        step : 0..(Len(groupIds) + 3), answer : Answers]
Idle == [pc |-> "idle", from |-> groupIds[1], to |-> groupIds[1], held |-> {}, had |-> {},
         step |-> 0, answer |-> "none"]

At(p, label) == job[p].pc = label
Become(p, r) == job' = [job EXCEPT ![p] = r]
Goto(p, label) == Become(p, [job[p] EXCEPT !.pc = label])
Answer(p, a) == Become(p, [job[p] EXCEPT !.pc = "release", !.answer = a, !.step = 0])
Reload(p) == Become(p, [job[p] EXCEPT !.pc = "reload", !.step = 1])

CanFail == faults < MaxFaults
Fail == CanFail /\ faults' = faults + 1 /\ UNCHANGED <<crashes, changes>>

\* What a reader may see of a directory: exists() and listDir() answer "no"
\* and "nothing" when they fail.
Views(t) == {t} \cup (IF ReadFaults /\ CanFail /\ t # NoDir THEN {NoDir, EmptyDir} ELSE {})
Seen(real, view) == IF real = view THEN UNCHANGED counters ELSE Fail

SetDir(g, t) == dir' = [dir EXCEPT ![g] = t] /\ UNCHANGED <<exclusive, meta>>

-----------------------------------------------------------------------------
(* Ownership, from what was listed last.                                   *)

findExclusiveOwners == {g \in Groups : exclusive[g] /\ member[g]}

\* reloadGroupsLocked lists one group after the other.
LoadApps(p) ==
  LET g == groupIds[job[p].step]  last == job[p].step = Len(groupIds) IN
  /\ At(p, "reload")
  /\ \E t \in Views(dir[g]) : Seen(dir[g], t) /\ member' = [member EXCEPT ![g] = t # NoDir]
  /\ IF ~last THEN Become(p, [job[p] EXCEPT !.step = @ + 1]) /\ UNCHANGED mutex
     ELSE /\ mutex' = NoOne
          /\ IF p = User THEN Become(p, Idle) ELSE Answer(p, job[p].answer)
  /\ UNCHANGED <<disk, packageOps, saved>>

\* The launcher is shown again, a batch has ended: loadGroups.
LoadGroups ==
  /\ At(User, "idle") /\ mutex = NoOne /\ mutex' = User
  /\ Reload(User)
  /\ UNCHANGED <<disk, member, packageOps, saved, counters>>

Change == changes < MaxChanges /\ changes' = changes + 1 /\ UNCHANGED <<faults, crashes>>

\* addAppsToGroup: an app that is busy, already there, or owned elsewhere is
\* answered without writing, which leaves the state as it is.
AddApp(g) ==
  /\ At(User, "idle") /\ mutex = NoOne /\ mutex' = User
  /\ g \notin packageOps /\ ~member[g]
  /\ exclusive[g] => findExclusiveOwners \subseteq {g}
  /\ Change /\ Become(User, [Idle EXCEPT !.pc = "mkdir", !.from = g])
  /\ UNCHANGED <<disk, member, packageOps, saved>>

\* The result of mkdirs is not looked at.
Made(g) == IF dir[g] = NoDir THEN EmptyDir ELSE dir[g]

MakeAppDir ==
  LET g == job[User].from IN
  /\ At(User, "mkdir") /\ Reload(User)
  /\ \/ SetDir(g, Made(g)) /\ UNCHANGED counters
     \/ Fail /\ UNCHANGED disk
  /\ UNCHANGED <<member, packageOps, mutex, saved>>

setMembershipMode(g) ==
  /\ At(User, "idle") /\ mutex = NoOne /\ mutex' = User
  /\ ~exclusive[g] /\ member[g] => findExclusiveOwners \subseteq {g}
  /\ exclusive' = [exclusive EXCEPT ![g] = ~@]
  /\ Change /\ Reload(User)
  /\ UNCHANGED <<dir, meta, member, packageOps, saved>>

\* The lock button of a card writes lockedList; it asks neither the mutex nor
\* the guard.
ToggleLock(g) ==
  /\ member[g] /\ Change
  /\ meta' = [meta EXCEPT ![g] = IF "locked" \in @ THEN @ \ {"locked"} ELSE @ \cup {"locked"}]
  /\ UNCHANGED <<dir, exclusive, member, packageOps, mutex, job, saved>>

\* SnapshotCreator and ArchiveMaker: take the key of a card that is shown, make
\* its directory unless another exclusive group owns the app, add an archive.
BackupBegin(g) ==
  /\ At(Snapshotter, "idle") /\ member[g] /\ saved # Archives
  /\ g \notin packageOps /\ packageOps' = packageOps \cup {g}
  /\ Become(Snapshotter, [Idle EXCEPT !.pc = "backup", !.from = g, !.held = {g}])
  /\ UNCHANGED <<disk, member, mutex, saved, counters>>

RefusesMkdir(g) ==
  dir[g] = NoDir /\ exclusive[g] /\ ~(findExclusiveOwners \subseteq {g})

BackupEnd ==
  LET g == job[Snapshotter].from IN
  /\ At(Snapshotter, "backup") /\ Become(Snapshotter, Idle)
  /\ packageOps' = packageOps \ job[Snapshotter].held
  /\ \/ RefusesMkdir(g) /\ UNCHANGED <<disk, saved, counters>>
     \/ ~RefusesMkdir(g) /\ Fail /\ SetDir(g, Made(g)) /\ UNCHANGED saved
     \/ /\ ~RefusesMkdir(g)
        /\ \E a \in Archives \ saved :
             saved' = saved \cup {a} /\ SetDir(g, [Made(g) EXCEPT ![a] = "whole"])
        /\ UNCHANGED counters
  /\ UNCHANGED <<member, mutex>>

-----------------------------------------------------------------------------
(* moveAppBetweenGroupsLocked.                                             *)

\* A dialog that offers the move may have been open for any length of time.
StartMove(m, f, t) ==
  /\ At(m, "idle") /\ f # t
  /\ Become(m, [Idle EXCEPT !.pc = "precheck", !.from = f, !.to = t])
  /\ UNCHANGED <<disk, member, packageOps, mutex, saved, counters>>

\* The checks made inside the mutex, and the answer they give.
Refusal(f, t) ==
  CASE ~exclusive[t] \/ ~exclusive[f] -> "error"
    [] Cardinality(findExclusiveOwners) >= 2 -> "corrupt"
    [] findExclusiveOwners # {} /\ findExclusiveOwners # {f} -> "error"
    [] "locked" \in meta[f] -> "locked"
    [] OTHER -> "none"

Precheck(m) ==
  /\ At(m, "precheck") /\ mutex = NoOne
  /\ LET r == Refusal(job[m].from, job[m].to) IN
       IF r = "none" THEN Goto(m, "source_key") ELSE Answer(m, r)
  /\ UNCHANGED <<disk, member, packageOps, mutex, saved, counters>>

\* A mutant: the source is not registered.
TakeNoKey(m, g, next) ==
  /\ UNCHANGED packageOps /\ Goto(m, next)

TakeKey(m, g, next) ==
  \/ g \in packageOps /\ UNCHANGED packageOps /\ Answer(m, "busy")
  \/ /\ g \notin packageOps /\ packageOps' = packageOps \cup {g}
     /\ Become(m, [job[m] EXCEPT !.pc = next, !.held = @ \cup {g}])

TakeSource(m) ==
  /\ At(m, "source_key") /\ TakeKey(m, job[m].from, "target_key")
  /\ UNCHANGED <<disk, member, mutex, saved, counters>>

TakeTarget(m) ==
  /\ At(m, "target_key") /\ TakeKey(m, job[m].to, "look")
  /\ UNCHANGED <<disk, member, mutex, saved, counters>>

\* What is done about the two directories.
Verdict(src, dst) ==
  CASE src = NoDir /\ dst # NoDir /\ ~isCompletelyEmptyDir(dst) -> "already"
    [] src = NoDir -> "error"
    [] dst = NoDir -> "move"
    [] isCompletelyEmptyDir(dst) -> "drop_target"
    [] isIdenticalRelativeTo(src, dst) -> "drop_source"
    [] isStrictSubsetResidual(src, dst) -> "drop_target"
    [] OTHER -> "nonempty"

Look(m) ==
  /\ At(m, "look")
  /\ \E src \in Views(dir[job[m].from]), dst \in Views(dir[job[m].to]) :
       LET v == Verdict(src, dst) IN
       /\ IF src = dir[job[m].from] THEN Seen(dir[job[m].to], dst) ELSE Fail
       /\ CASE v = "already" -> Become(m, [job[m] EXCEPT !.pc = "await", !.answer = v])
            [] v \in {"error", "nonempty"} -> Answer(m, v)
            [] OTHER -> Become(m, [job[m] EXCEPT !.pc = v, !.had = Whole(dir[job[m].from])])
  /\ UNCHANGED <<disk, member, packageOps, mutex, saved>>

-----------------------------------------------------------------------------
(* transferPackageDirectory, after the decision: one mutation at a time.   *)

\* FileSystemImpl.delete: all of it, or a failure that leaves remnants.
DropTarget(m) ==
  /\ At(m, "drop_target")
  /\ \/ SetDir(job[m].to, NoDir) /\ Goto(m, "move") /\ UNCHANGED counters
     \/ /\ Fail /\ Answer(m, "error")
        /\ \E u \in Remnants(dir[job[m].to]) : SetDir(job[m].to, u)
  /\ UNCHANGED <<member, packageOps, mutex, saved>>

\* FileSystemImpl.move refuses an existing target; a rename across volumes
\* fails, and the directory is copied.
MoveDir(m) ==
  LET f == job[m].from  t == job[m].to IN
  /\ At(m, "move")
  /\ \/ /\ dir[t] = NoDir /\ dir[f] # NoDir
        /\ dir' = [dir EXCEPT ![t] = dir[f], ![f] = NoDir]
        /\ Become(m, [job[m] EXCEPT !.pc = "await", !.answer = "moved"])
     \/ UNCHANGED dir /\ Goto(m, "copy")
  /\ UNCHANGED <<exclusive, meta, member, packageOps, mutex, saved, counters>>

\* The target is registered: at most an add made it meanwhile, and left it
\* empty.  A copy that stops says so.
\* A mutant: neither that nor the comparison is looked at.
CopyUnchecked(m) ==
  LET f == job[m].from  t == job[m].to IN
  /\ At(m, "copy")
  /\ \/ SetDir(t, dir[f]) /\ UNCHANGED counters
     \/ Fail /\ \E u \in Cuts(dir[f]) : SetDir(t, u)
  /\ Goto(m, "drop_source")
  /\ UNCHANGED <<member, packageOps, mutex, saved>>

CopyDir(m) ==
  LET f == job[m].from  t == job[m].to IN
  /\ At(m, "copy") /\ isCompletelyEmptyDir(dir[t])
  /\ \/ /\ SetDir(t, dir[f]) /\ UNCHANGED counters
        /\ Goto(m, IF isCompleteRelativeTo(dir[f], dir'[t]) THEN "drop_source" ELSE "undo")
     \/ /\ Fail /\ Goto(m, "undo")
        /\ \E u \in {dir[t]} \cup Cuts(dir[f]) : SetDir(t, u)
  /\ UNCHANGED <<member, packageOps, mutex, saved>>

\* A failed copy is removed, as far as that succeeds.
UndoCopy(m) ==
  /\ At(m, "undo") /\ Answer(m, "error")
  /\ \/ SetDir(job[m].to, NoDir) /\ UNCHANGED counters
     \/ Fail /\ \E u \in {dir[job[m].to]} \cup Remnants(dir[job[m].to]) : SetDir(job[m].to, u)
  /\ UNCHANGED <<member, packageOps, mutex, saved>>

DropSource(m) ==
  /\ At(m, "drop_source")
  /\ \/ /\ SetDir(job[m].from, NoDir) /\ UNCHANGED counters
        /\ Become(m, [job[m] EXCEPT !.pc = "await", !.answer = "moved"])
     \/ /\ Fail /\ Answer(m, "error")
        /\ \E u \in Remnants(dir[job[m].from]) : SetDir(job[m].from, u)
  /\ UNCHANGED <<member, packageOps, mutex, saved>>

AwaitMutex(m) ==
  /\ At(m, "await") /\ mutex = NoOne /\ mutex' = m
  /\ Become(m, [job[m] EXCEPT !.pc = "meta", !.step = 1])
  /\ UNCHANGED <<disk, member, packageOps, saved, counters>>

\* finalizeMoveMetadata: the lock goes from the source, then the record is
\* written to the target, then it goes from the source.
\* A mutant: the record goes from the source first.
RecordTaken(step, f, t) ==
  CASE step = 1 -> [meta EXCEPT ![f] = {}]
    [] step = 2 -> [meta EXCEPT ![t] = @ \cup {"record"}]
    [] step = 3 -> meta

Finalized(step, f, t) ==
  CASE step = 1 -> [meta EXCEPT ![f] = @ \ {"locked"}]
    [] step = 2 -> [meta EXCEPT ![t] = @ \cup (meta[f] \cap {"record"})]
    [] step = 3 -> [meta EXCEPT ![f] = @ \ {"record"}]

Finalize(m) ==
  LET k == job[m].step IN
  /\ At(m, "meta")
  /\ meta' = Finalized(k, job[m].from, job[m].to)
  /\ IF k = 3 THEN Reload(m) ELSE Become(m, [job[m] EXCEPT !.step = @ + 1])
  /\ UNCHANGED <<dir, exclusive, member, packageOps, mutex, saved, counters>>

\* A mutant: the mutex is not given back.
FinalizeKeepsMutex(m) ==
  /\ At(m, "meta") /\ job[m].step \in {1, 2} /\ Fail /\ Answer(m, "error")
  /\ UNCHANGED <<disk, member, packageOps, mutex, saved>>

\* save() of the source (step 1) or the target (step 2) throws: the move ends
\* with an error after the directory was moved, without a load.
FinalizeFails(m) ==
  /\ At(m, "meta") /\ job[m].step \in {1, 2} /\ Fail /\ Answer(m, "error")
  /\ mutex' = NoOne
  /\ UNCHANGED <<disk, member, packageOps, saved>>

Release(m) ==
  /\ At(m, "release")
  /\ packageOps' = packageOps \ job[m].held /\ Become(m, Idle)
  /\ UNCHANGED <<disk, member, mutex, saved, counters>>

-----------------------------------------------------------------------------
(* The process dies: what is in memory is lost, a delete or copy that was  *)
(* under way is partly done, and the next process begins with a load.      *)

InFlight(m) ==
  LET f == job[m].from  t == job[m].to IN
  CASE At(m, "drop_target") \/ At(m, "undo") -> {[dir EXCEPT ![t] = u] : u \in Remnants(dir[t])}
    [] At(m, "copy") -> {[dir EXCEPT ![t] = u] : u \in Cuts(dir[f])}
    [] At(m, "drop_source") -> {[dir EXCEPT ![f] = u] : u \in Remnants(dir[f])}
    [] OTHER -> {}

Crash ==
  /\ crashes < MaxCrashes /\ crashes' = crashes + 1 /\ UNCHANGED <<faults, changes>>
  /\ dir' \in {dir} \cup UNION {InFlight(m) : m \in Movers}
  /\ member' = [g \in Groups |-> FALSE] /\ packageOps' = {} /\ mutex' = User
  /\ job' = [p \in Procs |-> IF p = User THEN [Idle EXCEPT !.pc = "reload", !.step = 1] ELSE Idle]
  /\ UNCHANGED <<exclusive, meta, saved>>

-----------------------------------------------------------------------------
Transfer(m) ==
  DropTarget(m) \/ MoveDir(m) \/ CopyDir(m) \/ UndoCopy(m) \/ DropSource(m)

Proceed(m) ==
  \/ Precheck(m) \/ TakeSource(m) \/ TakeTarget(m) \/ Look(m) \/ Transfer(m)
  \/ AwaitMutex(m) \/ Finalize(m) \/ FinalizeFails(m)
  \/ LoadApps(m) \/ Release(m)

UserStep ==
  \/ LoadGroups \/ LoadApps(User) \/ MakeAppDir
  \/ \E g \in Groups : AddApp(g) \/ setMembershipMode(g) \/ ToggleLock(g)

Next ==
  \/ \E m \in Movers, f, t \in Groups : StartMove(m, f, t)
  \/ \E m \in Movers : Proceed(m)
  \/ UserStep
  \/ (\E g \in Groups : BackupBegin(g)) \/ BackupEnd
  \/ Crash

\* One group holds the app with one archive; the groups have been loaded.
Init ==
  \E o \in Groups, a \in Archives :
    /\ dir = [g \in Groups |-> IF g = o THEN [EmptyDir EXCEPT ![a] = "whole"] ELSE NoDir]
    /\ saved = {a}
    /\ meta = [g \in Groups |-> IF g = o THEN {"record"} ELSE {}]
    /\ exclusive \in [Groups -> BOOLEAN]
    /\ member = [g \in Groups |-> g = o]
    /\ packageOps = {} /\ mutex = NoOne /\ job = [p \in Procs |-> Idle]
    /\ faults = 0 /\ crashes = 0 /\ changes = 0

Spec == Init /\ [][Next]_vars

-----------------------------------------------------------------------------
(* The mutex is held exactly from a label that needs it, the guard holds   *)
(* exactly the keys the jobs will give back: reloadGroupsLocked and        *)
(* finalizeMoveMetadata run under loadGroupsMutex.                         *)
TypeOK ==
  /\ dir \in [Groups -> Tree \cup {NoDir}] /\ exclusive \in [Groups -> BOOLEAN]
  /\ meta \in [Groups -> SUBSET {"locked", "record"}]
  /\ member \in [Groups -> BOOLEAN] /\ saved \subseteq Archives
  /\ mutex \in Procs \cup {NoOne} /\ job \in [Procs -> Job]
  /\ \A p \in Procs : job[p].pc \in Locked <=> mutex = p
  /\ packageOps = UNION {job[p].held : p \in Procs}
  /\ faults \in 0..MaxFaults /\ crashes \in 0..MaxCrashes /\ changes \in 0..MaxChanges

(* Every archive a backup reported as done is whole in some group,         *)
(* whatever fails, dies or interleaves: transferPackageDirectory deletes a *)
(* source only when the target has all of it, and a target only when the   *)
(* source has all of it.                                                   *)
NothingLost == \A a \in saved : \E g \in Groups : a \in Whole(dir[g])

(* A move that answers Moved has brought every archive that was whole in   *)
(* the source, and left no archive behind.                                 *)
MovedArrives ==
  \A m \in Movers : At(m, "release") /\ job[m].answer = "moved" =>
    /\ job[m].had \subseteq Whole(dir[job[m].to])
    /\ files(dir[job[m].from]) = {}

(* The record of the last restore survives a move that is interrupted      *)
(* anywhere (finalizeMoveMetadata puts it before it removes it).           *)
RecordKept == \E g \in Groups : "record" \in meta[g]

(* A target with a file the source lacks, or has with another length, is   *)
(* never deleted (PackageDirTransfer.kt, comment before                    *)
(* transferPackageDirectory).                                              *)
TargetKept ==
  \A m \in Movers : At(m, "drop_target") =>
    \A a \in files(dir[job[m].to]) : dir[job[m].from][a] = dir[job[m].to][a]
=============================================================================
