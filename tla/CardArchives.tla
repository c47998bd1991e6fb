----------------------------- MODULE CardArchives -----------------------------
(***************************************************************************)
(* The archives of one card: backups made by SnapshotCreator and           *)
(* ArchiveMaker, the retention that follows them, deletions by the user,   *)
(* and saved instances, all of which share the APKs kept in apks/.  A      *)
(* shared APK has no count of references: a deletion looks at the list of  *)
(* archives in memory and at the instances on disk.                        *)
(*                                                                         *)
(* The guard of the card lets one job run at a time.  The list is reloaded *)
(* by the job, and without the guard when a job is over or a menu opens;   *)
(* with Alone, such a reload meets no job.  What a reload reads is         *)
(* reliable unless ReadFaults.  A snapshot always saves the APK.           *)
(***************************************************************************)
EXTENDS Naturals, FiniteSets

CONSTANTS
  Versions,     \* versions of the package; a version stands for a size too
  MaxArchives,  \* bound on archives made
  Locked,       \* archives the user locks
  maxVersionCount, minSameVersionCount,  \* the policy
  extraRetentionCount, extraRetentionDays,
  Alone, ReadFaults,
  MaxFaults,    \* bound on failing calls
  MaxDeaths     \* bound on deaths of the app

ASSUME BoundsAssumption ==
  /\ Versions \subseteq Nat \ {0} /\ MaxArchives \in Nat /\ Locked \subseteq Nat
  /\ maxVersionCount \in Nat \ {0} /\ minSameVersionCount \in Nat
  /\ extraRetentionCount \in Nat /\ extraRetentionDays \in Nat
  /\ Alone \in BOOLEAN /\ ReadFaults \in BOOLEAN
  /\ MaxFaults \in Nat /\ MaxDeaths \in Nat

Names == 1 .. MaxArchives    \* names are times: a larger one is newer

VARIABLES
  installed,  \* the installed version, or 0
  apks,       \* a shared APK: absent, without valid descriptor, or whole
  archives,   \* directories of archives: their state, their version (that of
              \* the APK they need, or 0), whether the user asked to delete them
  slot,       \* the instance: the APK of its slot, that of its .committing, and
              \* whether the latter has its manifest
  staged,     \* the directory a backup is made in, and the APK it names
  list,       \* item.archives, with the versions
  reader,     \* a reload without the guard, and the names it still reads
  job,        \* the operation that holds the guard
  clock,      \* archives made so far
  fault       \* failing calls, those that leave something behind, deaths

vars == <<installed, apks, archives, slot, staged, list, reader, job, clock, fault>>
disk == <<apks, archives, slot, staged>>

NoEntry == [name |-> 0, version |-> 0]
NoJob == [kind |-> "none", pc |-> "none", name |-> 0, version |-> 0, todo |-> {},
          victim |-> NoEntry]
Nothing == [state |-> "none", apk |-> 0]
Gone == [state |-> "none", version |-> 0, asked |-> FALSE]
NoSlot == [apk |-> 0, next |-> 0, named |-> FALSE]
MayFail == fault.count < MaxFaults
Faulty == fault' = [fault EXCEPT !.count = @ + 1]
Messy == fault' = [fault EXCEPT !.count = @ + 1, !.messy = TRUE]
At(pc) == job.pc = pc
Goto(pc) == job' = [job EXCEPT !.pc = pc]
HasApk(v) == v # 0 /\ apks[v] = "whole"
Free == job = NoJob /\ (Alone => reader.pc = "idle")

\* A directory is listed when its manifest can be read; of one whose deletion
\* stopped half way only the manifest may be left.
Entry(n) == [name |-> n, version |-> archives[n].version]
Listable == {Entry(n) : n \in {m \in Names : archives[m].state = "whole"}}
Doubtful == {Entry(n) : n \in {m \in Names : archives[m].state = "hollow"}}

\* loadArchives: an exception at one archive, or a listing that fails, leaves
\* the list short.
Reload ==
  \/ \E d \in SUBSET Doubtful : list' = Listable \cup d /\ UNCHANGED fault
  \/ ReadFaults /\ MayFail /\ Faulty /\ \E l \in SUBSET Listable : list' = l

-----------------------------------------------------------------------------
(* A backup: SnapshotCreator, or InstanceStore for an instance.            *)

BeginBackup ==
  /\ Free /\ installed # 0
  /\ clock < MaxArchives /\ clock' = clock + 1
  /\ job' = [NoJob EXCEPT !.kind = "snapshot", !.pc = "make", !.name = clock + 1]
  /\ UNCHANGED <<installed, disk, list, reader, fault>>

\* The store settles what an interrupted replacement left before it works.
Reconciled ==
  IF slot.named THEN [NoSlot EXCEPT !.apk = slot.next] ELSE [NoSlot EXCEPT !.apk = slot.apk]

BeginInstance ==
  /\ Free /\ installed # 0 /\ slot' = Reconciled
  /\ job' = [NoJob EXCEPT !.kind = "instance", !.pc = "make"]
  /\ UNCHANGED <<installed, apks, archives, staged, list, reader, clock, fault>>

\* A snapshot deletes its directory as soon as it fails, and at its end; an
\* instance at its end.
Failed == IF job.kind = "snapshot" THEN "abort" ELSE "finish"

\* makeSnapshot: the staging directory; an APK that is saved and verifies is
\* used again, the payload of one that does not is deleted.  When that fails
\* it deletes the directory itself, and nobody else will.
Make ==
  /\ At("make")
  /\ \/ /\ installed # 0 /\ staged' = [state |-> "made", apk |-> 0]
        /\ job' = [job EXCEPT !.version = installed,
                     !.pc = IF HasApk(installed) THEN "data" ELSE "apk"]
        /\ apks' = [apks EXCEPT ![installed] = IF @ = "stale" THEN "none" ELSE @]
        /\ UNCHANGED fault
     \/ /\ Goto("finish") /\ UNCHANGED <<apks, staged>>
        /\ \/ installed = 0 /\ UNCHANGED fault
           \/ MayFail /\ (Faulty \/ Messy)
  /\ UNCHANGED <<installed, archives, slot, list, reader, clock>>

\* The APK is compressed from the path it had; an update removes that.  Its
\* descriptor is written by onDone, when the payload is there.
CompressApk ==
  /\ At("apk")
  /\ \/ /\ installed = job.version /\ apks' = [apks EXCEPT ![job.version] = "stale"]
        /\ Goto("descriptor") /\ UNCHANGED fault
     \/ installed # job.version /\ Goto(Failed) /\ UNCHANGED <<apks, fault>>
     \/ /\ MayFail /\ Faulty /\ Goto(Failed)
        /\ \E s \in {"none", "stale"} : apks' = [apks EXCEPT ![job.version] = s]
  /\ UNCHANGED <<installed, archives, slot, staged, list, reader, clock>>

WriteDescriptor ==
  /\ At("descriptor")
  /\ \/ /\ apks' = [apks EXCEPT ![job.version] = "whole"] /\ Goto("data")
        /\ UNCHANGED fault
     \/ MayFail /\ Faulty /\ Goto(Failed) /\ UNCHANGED apks
  /\ UNCHANGED <<installed, archives, slot, staged, list, reader, clock>>

\* The other items; one that fails, or a cancellation between two, aborts.
CompressData ==
  /\ At("data")
  /\ \E pc \in {"meta", Failed} : Goto(pc)
  /\ staged' = [staged EXCEPT !.state = IF job'.pc = "meta" THEN "filled" ELSE @]
  /\ UNCHANGED <<installed, apks, archives, slot, list, reader, clock, fault>>

\* The manifest names the APK by the version read at first and by the size
\* measured now.
WriteMetadata ==
  /\ At("meta")
  /\ \/ /\ staged' = [state |-> "described",
                      apk |-> IF installed = job.version THEN job.version ELSE 0]
        /\ Goto("validate") /\ UNCHANGED fault
     \/ MayFail /\ Faulty /\ Goto(Failed) /\ UNCHANGED staged
  /\ UNCHANGED <<installed, apks, archives, slot, list, reader, clock>>

\* RestorePreflight.prepare on the staged directory.
Validate ==
  /\ At("validate")
  /\ \/ HasApk(staged.apk) /\ Goto("publish") /\ UNCHANGED fault
     \/ ~HasApk(staged.apk) /\ Goto(Failed) /\ UNCHANGED fault
     \/ MayFail /\ Faulty /\ Goto(Failed)
  /\ UNCHANGED <<installed, disk, list, reader, clock>>

\* The directory gets its name, the manifest is still pending.  A cancellation
\* is looked for once more.
Publish ==
  /\ At("publish")
  /\ \/ /\ staged' = Nothing /\ UNCHANGED fault
        /\ \/ /\ job.kind = "snapshot" /\ UNCHANGED slot
              /\ archives' = [archives EXCEPT
                   ![job.name] = [Gone EXCEPT !.state = "moved", !.version = staged.apk]]
           \/ /\ job.kind = "instance" /\ slot' = [slot EXCEPT !.next = staged.apk]
              /\ UNCHANGED archives
        /\ Goto("rename")
     \/ Goto(Failed) /\ UNCHANGED <<archives, slot, staged, fault>>
  /\ UNCHANGED <<installed, apks, list, reader, clock>>

\* The manifest is renamed; if that fails the archive is deleted again.
Rename ==
  /\ At("rename") /\ job.kind = "snapshot"
  /\ \/ /\ archives' = [archives EXCEPT ![job.name].state = "whole"]
        /\ Goto("after") /\ UNCHANGED fault
     \/ /\ MayFail /\ Goto("finish")
        /\ \/ Faulty /\ archives' = [archives EXCEPT ![job.name] = Gone]
           \/ Messy /\ archives' = [archives EXCEPT ![job.name].state = "rest"]
  /\ UNCHANGED <<installed, apks, slot, staged, list, reader, clock>>

\* An instance: the manifest is renamed, then .committing takes the place of
\* the slot; if one of these fails it is reconciled at once, and if that fails
\* too, later.
RenameInstance ==
  /\ At("rename") /\ job.kind = "instance"
  /\ \/ slot' = [slot EXCEPT !.named = TRUE] /\ Goto("commit") /\ UNCHANGED fault
     \/ /\ MayFail /\ Goto("finish")
        /\ \/ Faulty /\ slot' = Reconciled
           \/ Messy /\ UNCHANGED slot
  /\ UNCHANGED <<installed, apks, archives, staged, list, reader, clock>>

CommitInstance ==
  /\ At("commit") /\ Goto("finish")
  /\ \/ slot' = Reconciled /\ UNCHANGED fault
     \/ MayFail /\ Messy /\ UNCHANGED slot
  /\ UNCHANGED <<installed, apks, archives, staged, list, reader, clock>>

\* A mutant: a failed uninstallation takes the backup with it.
AfterCommitUndoing ==
  /\ At("after")
  /\ \/ Goto("reload") /\ UNCHANGED <<archives, fault>>
     \/ /\ MayFail /\ Faulty /\ Goto("finish")
        /\ archives' = [archives EXCEPT ![job.name] = Gone]
  /\ UNCHANGED <<installed, apks, slot, staged, list, reader, clock>>

\* The package may be uninstalled now; a failure, or a cancellation, only skips
\* the retention.
AfterCommit ==
  /\ At("after")
  /\ \/ Goto("reload") /\ \E v \in {0, installed} : installed' = v
     \/ Goto("finish") /\ UNCHANGED installed
  /\ UNCHANGED <<disk, list, reader, clock, fault>>

\* A deletion of the staging directory nobody asks about.  What it leaves is
\* there for good.
Abort ==
  /\ At("abort") /\ Goto("finish")
  /\ \/ staged' = Nothing /\ UNCHANGED fault
     \/ MayFail /\ Faulty /\ UNCHANGED staged
  /\ UNCHANGED <<installed, apks, archives, slot, list, reader, clock>>

-----------------------------------------------------------------------------
(* RetentionPolicyExecutor.                                                *)

Newer(e, S) == {f \in S : f.name > e.name}
Same(e, S) == {f \in S : f.version = e.version}

\* days * 24 * 60 * 60 is a product of Ints: 128 * (days * 675) modulo 2^32.  A
\* negative one puts the time before which archives are expired into the future,
\* a small one less than a day into the past.
ExpiryWraps ==
  LET seconds == (extraRetentionDays * 675) % 33554432    \* of 128, modulo 2^25
  IN extraRetentionDays > 0 /\ (seconds >= 16777216 \/ seconds < 675)

\* analyzeArchivesToDelete: too many at all, too many of a version; and of the
\* extra ones of a version those that are too old, which may be any but the one
\* just made.
ToDelete ==
  LET unlocked == {e \in list : e.name \notin Locked}
      total == minSameVersionCount + extraRetentionCount
      many == {e \in unlocked : Cardinality(Newer(e, unlocked)) >= maxVersionCount}
      kept == unlocked \ many
      same == IF total = 0 THEN {}
              ELSE {e \in kept : Cardinality(Newer(e, Same(e, kept))) >= total}
      rest == kept \ same
      extra == IF extraRetentionCount = 0 \/ extraRetentionDays = 0 THEN {}
               ELSE {e \in rest :
                       /\ Cardinality(Newer(e, Same(e, rest))) >= minSameVersionCount
                       /\ ExpiryWraps \/ e.name # job.name}
  IN {many \cup same \cup expired : expired \in SUBSET extra}

ReloadInJob ==
  /\ \/ At("reload") /\ Goto("retain")
     \/ At("reload again") /\ Goto("finish")
  /\ Reload
  /\ UNCHANGED <<installed, disk, reader, clock>>

\* applyPolicy; a policy that is not enabled deletes nothing.
Retain ==
  /\ At("retain")
  /\ \/ \E todo \in ToDelete : job' = [job EXCEPT !.pc = "delete", !.todo = todo]
     \/ Goto("finish")
  /\ UNCHANGED <<installed, disk, list, reader, clock, fault>>

-----------------------------------------------------------------------------
(* Deletions by the user, and deleteArchive.                               *)

BeginDelete ==
  /\ Free
  /\ \E e \in list :
       /\ job' = [NoJob EXCEPT !.kind = "delete", !.pc = "delete", !.todo = {e}]
       /\ archives' = [archives EXCEPT ![e.name].asked = TRUE]
  /\ UNCHANGED <<installed, apks, slot, staged, list, reader, clock, fault>>

\* What a recursive delete leaves when it stops half way.
Torn(n) ==
  {s \in {"hollow", "rest"} : archives[n].state \in {"whole", "hollow"} \/ s = "rest"}

\* The shared APK is looked at only after a deletion that succeeded.
DeleteArchive ==
  /\ At("delete")
  /\ \E e \in job.todo :
       LET n == e.name IN
       \/ /\ archives' = [archives EXCEPT ![n] = Gone]
          /\ job' = [job EXCEPT !.pc = "cleanup", !.todo = @ \ {e}, !.victim = e]
          /\ UNCHANGED fault
       \/ /\ MayFail /\ archives[n].state # "none" /\ Messy
          /\ \E s \in Torn(n) \cup {archives[n].state} :
               archives' = [archives EXCEPT ![n].state = s]
          /\ job' = [job EXCEPT !.todo = @ \ {e}]
  /\ UNCHANGED <<installed, apks, slot, staged, list, reader, clock>>

\* A mutant: the instances are not asked.
ReferencedByArchive(v) == \E e \in list \ {job.victim} : e.version = v

\* By an archive other than the victim, in memory, or by the instance, on disk.
\* A directory without a readable manifest keeps every APK.
Referenced(v) ==
  \/ \E e \in list \ {job.victim} : e.version = v
  \/ slot.next # 0 /\ (slot.named => slot.next = v)
  \/ slot.apk = v

\* cleanupArchivedApks; the payload and its descriptor are two files.
CleanupApks ==
  /\ At("cleanup")
  /\ LET v == job.victim.version IN
     \/ /\ Referenced(v) /\ UNCHANGED <<apks, fault>>
     \/ /\ ~Referenced(v) /\ apks' = [apks EXCEPT ![v] = "none"] /\ UNCHANGED fault
     \/ /\ ~Referenced(v) /\ MayFail /\ Messy
        /\ \E s \in {"none", "stale"} : apks' = [apks EXCEPT ![v] = s]
  /\ job' = [job EXCEPT !.pc = "delete", !.victim = NoEntry]
  /\ UNCHANGED <<installed, archives, slot, staged, list, reader, clock>>

DeletedAll ==
  /\ At("delete") /\ job.todo = {}
  /\ Goto(IF job.kind = "snapshot" THEN "reload again" ELSE "finish")
  /\ UNCHANGED <<installed, disk, list, reader, clock, fault>>

\* clearAllArchives: every entry of the directory but the instances, and but
\* the APKs while there are instances.  NoEntry stands for apks/.
BeginClear ==
  /\ Free
  /\ LET there == {n \in Names : archives[n].state # "none"} IN
     /\ job' = [NoJob EXCEPT !.kind = "clear", !.pc = "clear",
                  !.todo = {Entry(n) : n \in there}
                           \cup (IF slot = NoSlot THEN {NoEntry} ELSE {})]
     /\ archives' = [n \in Names |-> [archives[n] EXCEPT !.asked = n \in there]]
  /\ UNCHANGED <<installed, apks, slot, staged, list, reader, clock, fault>>

\* One deletion that fails stops none of the others.
ClearEntry ==
  /\ At("clear")
  /\ \E e \in job.todo :
       /\ job' = [job EXCEPT !.todo = @ \ {e}]
       /\ \/ /\ e # NoEntry /\ UNCHANGED apks
             /\ \/ archives' = [archives EXCEPT ![e.name] = Gone] /\ UNCHANGED fault
                \/ /\ MayFail /\ Messy
                   /\ \E s \in Torn(e.name) :
                        archives' = [archives EXCEPT ![e.name].state = s]
          \/ /\ e = NoEntry /\ UNCHANGED archives
             /\ \/ apks' = [v \in Versions |-> "none"] /\ UNCHANGED fault
                \/ /\ MayFail /\ Messy
                   /\ \E v \in Versions : apks' = [apks EXCEPT ![v] = "none"]
  /\ UNCHANGED <<installed, slot, staged, list, reader, clock>>

ClearedAll ==
  /\ At("clear") /\ job.todo = {} /\ Goto("finish")
  /\ UNCHANGED <<installed, disk, list, reader, clock, fault>>

\* InstanceStore.delete.
DeleteInstance ==
  /\ Free /\ slot # NoSlot /\ slot' = NoSlot
  /\ UNCHANGED <<installed, apks, archives, staged, list, reader, job, clock, fault>>

-----------------------------------------------------------------------------
(* The end of a job, reloads without the guard, and the world.             *)

\* A mutant: the end does not look for a staging directory.
FinishAnyhow ==
  /\ At("finish") /\ job' = NoJob /\ UNCHANGED <<staged, fault>>
  /\ reader.pc = "idle" /\ reader' = [pc |-> "list", left |-> {}]
  /\ UNCHANGED <<installed, apks, archives, slot, list, clock>>

\* The finally block: a staging directory that is still there is deleted, the
\* guard is returned, and then the list is reloaded; one such reload at a time
\* is modelled.
Finish ==
  /\ At("finish") /\ job' = NoJob
  /\ \/ staged' = Nothing /\ UNCHANGED fault
     \/ MayFail /\ staged # Nothing /\ Messy /\ staged' = Nothing
  /\ reader.pc = "idle" /\ reader' = [pc |-> "list", left |-> {}]
  /\ UNCHANGED <<installed, apks, archives, slot, list, clock>>

\* A menu opens.
OpenMenu ==
  /\ reader.pc = "idle" /\ (Alone => job = NoJob)
  /\ reader' = [pc |-> "list", left |-> {}]
  /\ UNCHANGED <<installed, disk, list, job, clock, fault>>

ListNames ==
  /\ reader.pc = "list"
  /\ reader' = [pc |-> "clear", left |-> {n \in Names : archives[n].state # "none"}]
  /\ UNCHANGED <<installed, disk, list, job, clock, fault>>

ClearList ==
  /\ reader.pc = "clear" /\ reader' = [reader EXCEPT !.pc = "read"] /\ list' = {}
  /\ UNCHANGED <<installed, disk, job, clock, fault>>

ReadArchive ==
  /\ reader.pc = "read"
  /\ \/ /\ reader.left = {} /\ reader' = [reader EXCEPT !.pc = "idle"]
        /\ UNCHANGED <<list, fault>>
     \/ \E n \in reader.left :
          /\ reader' = [reader EXCEPT !.left = @ \ {n}]
          /\ \/ /\ Entry(n) \in Listable \cup Doubtful /\ list' = list \cup {Entry(n)}
                /\ UNCHANGED fault
             \/ Entry(n) \notin Listable /\ UNCHANGED <<list, fault>>
             \/ ReadFaults /\ MayFail /\ Faulty /\ UNCHANGED list
  /\ UNCHANGED <<installed, disk, job, clock>>

\* The package is updated, reinstalled or uninstalled.
ChangePackage ==
  /\ \E v \in (Versions \cup {0}) \ {installed} : installed' = v
  /\ UNCHANGED <<disk, list, reader, job, clock, fault>>

\* The app dies and is started again: nothing looks for staging directories.
\* An instance that was being replaced is settled before the next job of its
\* store, and keeps every APK until then.
Die ==
  /\ fault.deaths < MaxDeaths
  /\ job # NoJob \/ reader.pc # "idle"
  /\ fault' = [fault EXCEPT !.deaths = @ + 1]
  /\ job' = NoJob /\ staged' = Nothing /\ reader' = [pc |-> "list", left |-> {}]
  /\ list' = {}
  /\ UNCHANGED <<installed, apks, archives, slot, clock>>

-----------------------------------------------------------------------------
Init ==
  /\ installed \in Versions /\ apks = [v \in Versions |-> "none"]
  /\ archives = [n \in Names |-> Gone]
  /\ slot = NoSlot /\ staged = Nothing /\ list = {} /\ clock = 0
  /\ reader = [pc |-> "idle", left |-> {}] /\ job = NoJob
  /\ fault = [count |-> 0, messy |-> FALSE, deaths |-> 0]

Backup ==
  \/ BeginBackup \/ BeginInstance \/ Make \/ CompressApk \/ WriteDescriptor
  \/ CompressData \/ WriteMetadata \/ Validate \/ Publish \/ Rename
  \/ RenameInstance \/ CommitInstance \/ AfterCommit \/ Abort
Deletion ==
  \/ ReloadInJob \/ Retain \/ BeginDelete \/ DeleteArchive \/ CleanupApks \/ DeletedAll
  \/ BeginClear \/ ClearEntry \/ ClearedAll \/ DeleteInstance
Viewing == OpenMenu \/ ListNames \/ ClearList \/ ReadArchive

Next == Backup \/ Deletion \/ Finish \/ Viewing \/ ChangePackage \/ Die

Spec == Init /\ [][Next]_vars

-----------------------------------------------------------------------------
(* Properties                                                              *)

Entries == [name : Names, version : Versions \cup {0}]
Kinds == {"none", "snapshot", "instance", "delete", "clear"}
Labels == {"none", "make", "apk", "descriptor", "data", "meta", "validate", "publish",
           "rename", "commit", "after", "abort", "reload", "reload again", "retain",
           "delete", "cleanup", "clear", "finish"}
Apks == [Versions -> {"none", "stale", "whole"}]
Archives == [state : {"none", "moved", "whole", "hollow", "rest"},
             version : Versions \cup {0}, asked : BOOLEAN]
Slots == [apk : Versions \cup {0}, next : Versions \cup {0}, named : BOOLEAN]
Stages == [state : {"none", "made", "filled", "described"}, apk : Versions \cup {0}]
JobRecords == [kind : Kinds, pc : Labels, name : 0 .. MaxArchives,
               version : Versions \cup {0}, todo : SUBSET (Entries \cup {NoEntry}),
               victim : Entries \cup {NoEntry}]
Faults == [count : 0 .. MaxFaults, messy : BOOLEAN, deaths : 0 .. MaxDeaths]

\* Every variable keeps its type.
TypeOK ==
  /\ installed \in Versions \cup {0} /\ apks \in Apks
  /\ archives \in [Names -> Archives] /\ slot \in Slots /\ staged \in Stages
  /\ list \subseteq Entries /\ clock \in 0 .. MaxArchives
  /\ reader \in [pc : {"idle", "list", "clear", "read"}, left : SUBSET Names]
  /\ job \in JobRecords /\ fault \in Faults

\* A whole archive nobody asked to delete, and an instance, can be restored:
\* the shared APK its manifest names is there, whatever was deleted, updated or
\* cut short meanwhile.
ApkOutlivesReferences ==
  /\ \A n \in Names :
       archives[n].state = "whole" /\ ~archives[n].asked => HasApk(archives[n].version)
  /\ slot.apk # 0 => HasApk(slot.apk)
  /\ slot.next # 0 => HasApk(slot.next)

\* A backup that was committed is never lost to a failure after it: only the
\* user's deletion takes it, or a retention that leaves the backup it follows
\* and as many newer ones as the smaller of the two counts of the policy, also
\* when deletions fail and extra archives expire in the same pass.
CommittedSurvives ==
  [][\A n \in Names :
       archives[n].state = "whole" /\ archives'[n].state # "whole" =>
         \/ archives[n].asked
         \/ LET newer == {m \in Names : m > n /\ archives[m].state \in {"whole", "hollow"}}
            IN /\ job.kind = "snapshot" /\ job.name \in newer
               /\ archives[job.name].state = "whole"
               /\ \/ Cardinality(newer) >= maxVersionCount
                  \/ Cardinality(newer) >= minSameVersionCount]_vars

\* When no job runs, nothing of a backup that failed or was cancelled is left,
\* unless a deletion failed or the app died.
NothingLeftBehind ==
  job = NoJob /\ ~fault.messy /\ fault.deaths = 0 =>
    staged = Nothing /\ \A n \in Names : archives[n].state \in {"none", "whole"}
==============================================================================
