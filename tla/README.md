# Verification of AppSnapshoter

AppSnapshoter is a root backup tool for Android. This directory holds TLA+
specifications of its backup protocols, TLC configurations that check them on
small instances, and TLAPS proofs of the results that matter most. Paths below
are relative to `src/app/src/main/java/tiiehenry/android/app/snapshot/` unless
they start with `src/`.

## 1. The system

| Part | State it keeps | Operations | What is hard |
|---|---|---|---|
| Instance slots (`instance/InstanceCatalog.kt`, `InstanceStore.kt`) | per id the directories `{id}`, `{id}.committing`, `{id}.previous`; in each a manifest, a payload, `instance.json` with `.bak` and `.tmp` | create, update, edit, delete, restore, reconcile | crashes, failing calls and undecided reads between two renames |
| Occupancy guard (`group/PackageOpGuard.kt`) | a batch flag, a set of busy card keys | try, end, busy test | interleaved coroutines, cancelled scopes |
| Snapshot (`main/launch/makearchive/SnapshotCreator.kt`, `archive/make/`) | a `.pending` directory, the final archive directory | stage, validate, move, rename the manifest, retention, uninstall | crash between move and rename, cancellation |
| Batches (`main/launch/GroupBatchArchiver.kt`, `main/launch/batch/`, `main/timeline/TimelineBatchOperator.kt`) | the list of cards left | next card, stop, force stop, finish | the screen is closed in the middle |
| Group repository (`repository/AppDataRepository.kt`, `PackageDirTransfer.kt`) | loaded groups, the set of packages seen clean | load, reconcile instances, move, add, delete | prechecks used after the mutex was left, directory copies |
| Suspension (`utils/AppSuspendTracker.kt`, `AppStatusHelper.kt`) | a persisted set of suspended packages | suspend and mark, release, recover at start | unlocked read-modify-write, crashes |
| Archives, retention, shared APKs (`archive/manage/`) | archives in memory and on disk, shared APK files | delete, apply policy, clean up | an APK still referenced by an instance |
| Restore (`archive/restore/`) | app data on the device | preflight, extract, replace, chown | one step of several failing |
| External control (`external/`) | table of operations, queue of confirmations, bindings | call, confirm, cancel, expire | bounds, expiry racing acceptance |
| Groups and sets (`group/`, `repository/ArchiveListProjector.kt`) | group roots, sets, memberships | discover, project, order | exclusive ownership |
| Provider (`src/provider/`) | none of its own | files, tar and zstd streams, root service | failing calls, FIFOs |

They interact by direct calls and shared state. Everything that writes into a
card's directory should first take the card's key, or the batch flag, from the
guard; below it `InstanceStore`, `SnapshotCreator` and `AppDataRepository` call
the provider, whose calls may fail one by one. A group load, itself started
after each batch and by the screens, calls `reconcileInstances`, which takes the
key of each card in turn and lets `InstanceCatalog` repair what an interrupted
operation left.

What makes each part correct: a slot never loses what the user was told is
saved, and ends up as one directory; the guard keeps registered work on a card
apart and forgets no key; a batch ends; a package is suspended only while
somebody needs it to be; a shared APK outlives its references; a restore that
fails leaves the old file; an external operation has one outcome. The line of
each known hazard, and what covers it, is in `PROJECT.json`.

## 2. Modules

| Module | Models | Extends |
|---|---|---|
| `InstanceSlot` | one instance id on disk, `InstanceCatalog` and the backup and edit of `InstanceStore` | |
| `BackupRegister` | the abstract promise of an id; instantiated by `InstanceSlot` | |
| `PackageOps` | the guard and the jobs that run under it | |
| `MCPackageOps` | three cards, two of them spellings of one path | `PackageOps` |
| `GroupMembership` | which group owns an app, and moves between groups | |
| `MCGroupMembership` | two groups, in the order they are listed | `GroupMembership` |
| `SuspendTracker` | packages suspended while they are saved, and the record of them | |
| `MCSuspendTracker` | one package, two jobs on its two cards or on one | `SuspendTracker` |
| `CardArchives` | the archives of one card, its instance and the APKs they share | |
| `Relay` | the abstract promise of a stream copier | |
| `ParallelCopier` | `StreamParallelCopier`, two threads and a cancel; implements `Relay` | |
| `TarFifo` | one compress task over two FIFOs | |
| `TarExtract` | one decompress task over a pipe, its publication, `runTar` | |
| `InstanceSlotProofs` | types and control of a slot, final deletions, what Done means, what a slot keeps, and that it implements the register | `InstanceSlot` |
| `PackageOpsProofs` | mutual exclusion under the guard | `PackageOps` |
| `GroupMembershipProofs` | mutex, keys and restore record of moves, and what moves do to the archives | `GroupMembership` |
| `SuspendTrackerProofs` | how a suspended package can lose its record | `SuspendTracker` |
| `CardArchivesProofs` | how a shared APK can be lost, what a failed backup leaves, and what the retention leaves | `CardArchives` |
| `ParallelCopierProofs` | the ring of buffers, the order of the chunks, and that the copier implements `Relay` | `ParallelCopier` |
| `TarFifoProofs` | what a compress task reports and leaves behind | `TarFifo` |
| `TarExtractProofs` | what a decompress task publishes, reports and leaves behind | `TarExtract` |

Operators whose comment begins "A mutant" are faulty variants of the definition
after them: each property of a passing run fails when its variant is put in.
They are never part of a specification.

### InstanceSlot

Because `guarded` and `reconcileInstances` take the guard's key, one thread of
control works on an id at a time; the adversary is the file system. So the
module is a sequential program with a program counter `pc`, its locals `loc`,
the three directories `dir`, and an environment.

* One action is one mutation of the file system together with the reads and
  decisions before it. `Step(f)` carries an outage `f`: while it is TRUE each
  call of that action may fail. A recursive delete that fails may leave any
  subset of the directory (`Remnants`); a `move` refuses an existing target.
* A reader sees three answers, `ready`, `unavailable`, `unknown`
  (`SlotReadiness`), and `exists()` answers FALSE when it fails, as
  `FileSystemImpl.exists` does. `ReadFaults` says whether an outage reaches reads.
* `Survey` to `SweepDone` are `reconcileDetailed`, `recoverMeta` and
  `replaceWithFallback`; `PublishCheck` to `PublishTidy` are `publishCommit`;
  `ClearStaging` to `BackupVerdict` are `InstanceStore.backup` with its finally
  block; `ClearTemp` to `DropKept` are `writeText`; `DeleteSlotDir` to
  `DeleteVerdict` are `deleteSlot`. `Begin`, `Block`, `End` are `guarded` and the
  blocks it runs, and a `load` is one pass of `reconcileInstances`, which skips a
  package that is `marked`.
* `ack` is what the user was told: the newest payload and metadata reported as
  saved, whether a deletion was asked for, whether one was reported as done.
* A payload is the number of the backup it belongs to; a metadata file is the
  number of its write, `NoFile` or `Torn`. Names, accounts and notes are left
  out: no modelled decision reads them.

### BackupRegister

An id as its user sees it: a version that only grows, an acknowledged version
that never exceeds it, until a deletion is asked for. The refinement mapping in
`InstanceSlot` (`Register`) takes as value the copy the next reconcile will keep:
the slot if complete, else `.previous`, else `.committing`. That every step maps
to a register step says that no crash, failed call or recovery rolls an id back.

### PackageOps

`globalBatch` and `packageOps` are the fields of `PackageOpGuard`. A job is a
coroutine: a single operation (`card_op`: snapshot, instance operation, deletion
of an archive, instance reconcile), a move between groups, a batch archive, a
batch over archive items (restore, delete, export), a restore from a card's
menu, an uninstall. The guard's calls are synchronized, so each is one step; the
work between them is where others interleave. `Cancel` is the end of the scope
the job was launched in: a coroutine that is cancelled and then switches to the
main thread inside `finally` stops there (`dead`), while calls that do not
suspend are still made. That distinction, read off each finally block, decides
what is returned.

### GroupMembership

One package of one user, over several groups. `dir` is the package's directory
in each group, `exclusive` and `meta` are the stored mode, lock and restore
record; `member` is what the last load saw; `mutex` is `loadGroupsMutex`,
`packageOps` the keys of the guard, `job` what each coroutine does.

* `LoadApps` lists one group (`reloadGroupsLocked`, `SnapGroup.loadApps`): a load
  takes as many steps as there are groups, and a move may rename a directory
  between two of them, since the transfer runs outside the mutex.
* `Precheck` to `Release` are `moveAppBetweenGroupsLocked`; `DropTarget` to
  `DropSource` are the mutations of `transferPackageDirectory`, one a step, each
  with its failure; a failed recursive delete or copy leaves any part of its
  tree (`Remnants`, `Cuts`). `Finalize` is `finalizeMoveMetadata` in three writes.
* A tree says for each archive whether its directory is there, and whether its
  payload is missing, cut short or whole: what names and lengths, all that
  `collectRelativeTree` compares, can tell apart.
* `AddApp` and `MakeAppDir` are `addAppsToGroup`; `BackupBegin` and `BackupEnd`
  are a snapshot as far as it makes the directory and adds an archive; `Crash`
  may leave whatever mutation was under way partly done.
* Left out: icons (fetched again by a load) and sort order (cosmetic); the batch
  flag, which `PackageOps` covers; groups of several users. A failing save of the
  mode is a stutter. Writes to MMKV (the restore record) are taken to succeed, as
  the code never asks.

### SuspendTracker

`suspended` is what the system knows, `marks` the set under
`pending_unsuspend_packages`. A job is an operation on a card
(`SnapshotCreator`, or `InstanceStore.guarded`); `Recovery` is the thread that
`SnapshotApp` starts with the app.

* `Prepare`, `Suspend`, `Mark`, `Record` are `preparePackageForSnapshot` with
  `markSuspended` in its two halves: the set is read (`copy`), then written back.
  `EndPackageOp` returns the guard, and only then come `Tracked`, `CheckRelease`,
  `Unsuspend`, `Drop`, `Erase`, which are `releasePackageAfterSnapshot` with
  `markReleased`. The recovery runs the same steps for each entry of the record.
* A call that fails may have had its effect; `isInstalledSafe` answers FALSE when
  it fails. The user may uninstall and install a package at any step, also by
  `uninstallInstalledApp`, which registers nothing with the guard.
* `excused` names the packages that a fault put out of the record: suspended by
  a call that answered no, suspended just before a death, or struck off because
  they seemed not to be installed. `refused` are those whose release failed.
* Operations, their releases and the recovery overlap as the guards of the cards let
  them: a package has a card in each of its groups, and a release comes after the
  guard was returned. `torn` names the packages whose record such an overlap may
  have cost: suspended or recorded while another actor, which had released the
  package, goes to strike it off (`Striking`), or recorded while another actor has
  read the record and not yet written it back (`Changing`).
* Between the read and the write of the record the code takes no lock, so each half
  is a step.

### CardArchives

One card: the archives by time (`Names`), the shared APK of each version
(absent, without a valid descriptor, whole), one instance with its
`.committing`, the staging directory, the list in memory.

* `Make` to `AfterCommit` are a backup: `makeSnapshot`, the APK and its
  descriptor (which `onDone` writes after the payload), the other items, the
  manifest, `RestorePreflight`, the move to the final name, the rename of the
  manifest, the uninstallation. `Abort` and `Finish` are the deletions of the
  staging directory on failure and in `finally`. A backup of an instance takes
  the same steps and `RenameInstance`, `CommitInstance`.
* The package may be updated or removed at any step (`ChangePackage`): the version
  was read when the tasks were made, the size is measured again for the manifest.
* `ToDelete` is `analyzeArchivesToDelete`, with any of the extra archives expired but
  the one just made; if the days of the policy, a product of Ints, wrap
  (`ExpiryWraps`), also that one;
  `DeleteArchive`, `CleanupApks` are `deleteArchive` and its clean-up, which looks
  at `list` and at the instance on disk; `ClearEntry` is one entry of
  `clearAllArchives`.
* `reader` is a reload without the guard, step by step (`ListNames`, `ClearList`,
  `ReadArchive`): by a menu that opens, or after a job returned the guard. With
  `Alone` it meets no job. A reload within a job is one step.
* Simplifications: one unguarded reload at a time, every backup needs its APK, the
  locked archives are a constant, a version stands for version and size. Reads
  fail only with `ReadFaults`.

### Relay and ParallelCopier

`Relay`: chunks come out in order, and a normal return means all of them, unless
the copier was asked to stop. `ParallelCopier` is the class with its two threads,
the caller of `startAndWait` and a thread that calls `cancel()` at any time.
`finished`, `canceled` and the two thread fields are plain Java fields: a thread
may read an old value of one unless the write happened before its read. `knows`
and `shared` hold what happened before what, through `Thread.start` and the
queue's lock. Buffers hold chunk numbers, `InterruptedException` is raised by
`put` and `take` and by the test of the flag. `onException` and `cancel()` interrupt
a thread and clear its field in two steps (`Interrupt`, `Forget`); an interrupt of a
thread that was not started is lost (`unheard`). A thread is `Stranded` if it waits
for the other, lost its interrupt so, and can no longer be reached, its field being
null. The refinement mapping reads `status` off the caller and `stopped` off the
canceller.

### TarFifo

A task of `TarCompressor` (or of `ZstdCompressor`, which differs in the copy):
two FIFOs (`fifo`: path, read end, writers, content), three coroutines, the tar
process, the target file, `TaskCancellation`. A read of a FIFO without writers
returns end of file, also before tar came; a write to one without readers
fails. `OpenAnchors`, `StartTar` and `AwaitTar` are `FileSystemHandler.callTarCli` and
the call of it. Any coroutine may fail at any call, and then breaks both pipes.

* The read ends are opened without waiting, and nothing in the code keeps the first
  read behind the root service's open: a reader may be `early`, see end of file and
  leave before tar came. `VerdictIsTrue` and `Ends` say what that does.
* The two anchors are opened before the `try`. If the second open throws, the first
  stays in the root service, as a reader and writer of the archive's FIFO, until
  that process dies. The exception is taken to reach the app as a failing call.
* `AwaitTar` may fail at any time, while tar runs: the root service died, or its wait
  was interrupted. tar then goes on by itself until it finds no reader.
* `BreakPipes` takes the closing of the stream that `BlockingFifo.kt:13` makes of a
  descriptor to close the descriptor, as the comment there says. Where such a stream
  does not own its descriptor, as on Android, nothing closes the end, and neither
  what `Ends` says of a failing task nor what `QuietAtEnd` says of read ends would hold.
* A `cancel()` after DONE makes the `runBlocking` of `TarCompressor` throw to whoever
  called `start()`, which reports nothing to the callback and is outside the module.

### TarExtract

A task of `TarDecompressor` or `ZstdDecompressor`: the coroutines of
`ReliablePipeTransfer`, the reliable pipe (its word, `ok` or an error, is what
`checkError` reads), the call in the root service (`extractTarFromFd`,
`extractTarCommand`), `runTar` of `jni.cpp` with its temporary files and its
child, and `publishExtractedDirectory`. Any call may fail, `cancel()` may come,
the app or the root service may die; the child of a root service that died gets
a signal, but may write a little longer. A move may take effect and its reply be
lost (`Rename`, `fault.lost`): the task then goes on as if it had failed.
`TarDecompressor` binds the job of its `runBlocking`, so that a `cancel()` which comes
after `shouldCommitExtract` lets it publish and call `onDone`, and then throws: `Return`
ends as `recanted`, an error after done. `ZstdDecompressor` binds none.

## 3. Runs

| Run | Question | Bounds | States |
|---|---|---|---|
| `slot_crash` | does an id keep what it acknowledged, end up as one directory, and stay deleted? | 3 versions, 2 faults, 2 crashes, reliable reads | 219 thousand |
| `slot_reads` | do undecided reads or outside damage cost a complete copy? | 3 versions, 3 faults, 1 crash, 1 damaged file | 1.7 million |
| `ops_all` | is registered work on a card exclusive, and every registration returned? | 2 jobs of 6 kinds, 3 cards, 2 keys, 2 cancelled scopes | 33 thousand |
| `move_all` | do moves keep archives, arrive whole, keep the restore record and spare foreign targets? | 2 groups, 2 archives, 2 movers, 2 faults, 1 crash, 1 change by the user, reliable reads | 2.2 million |
| `suspend_all` | in which ways alone can a suspended package lose its record, and is it released in the end? | 2 jobs on the 2 cards of a package, 2 faults, 2 deaths, everything overlaps | 242 thousand |
| `archives_all` | do shared APKs outlive their users, do committed backups survive, is nothing left of failed ones? | 3 archives, 2 versions, 1 instance, 1 fault, 1 death, reloads that meet no job, reliable reads | 2.7 million |
| `copier_all` | does the copier keep its promise under a racing cancel? | 6 chunks, 5 buffers, 1 failing read or write | 615 thousand |
| `fifo_all` | is the verdict of a compress task true, does it end, and what may it leave? | 3 chunks, FIFOs of 2, 3 faults, 1 cancel, reads before tar | 139 thousand |
| `extract_all` | is an old tree kept until a verified new one is in place, and does the task end, leaving nothing? | 2 chunks and padding, a pipe of 2, 3 faults, 2 deaths, 1 cancel | 35 thousand |
| `slot_undecided` | is a slot kept when a read is undecided? (no) | 3 versions, 3 faults | |
| `suspend_left` | does the record hold when operations follow each other closely? (no) | 2 jobs on 1 card, no faults | |
| `archives_torn` | do shared APKs survive a reload during a job? (no) | 3 archives, no faults | |

Why the bounds are enough. Three versions of a slot allow a create and two
updates, or an update and an edit, after the first: an old, a current and a new
copy, one per directory, which is all three directories can hold. Two faults and
two crashes let an interrupted recovery be interrupted again; an edit, an update
and the reconcile between them each meet one. Two jobs suffice for exclusion,
which is a statement about pairs. In `move_all` two movers over two groups can
move in opposite directions, one after the other's failure; two archives make a
directory that is partly whole; two faults let a failed copy meet a failed
clean-up, and a death may follow. Archives and movers are interchangeable, which
the run uses as symmetry; groups are not, because a load visits them in order.
In `suspend_all` two faults let a suspension that answered no be followed by a
release that failed, and two deaths interrupt the recovery itself; one package is
enough for three actors to meet at its record, and what updates for different
packages do to one another is left to the theorem `LossOnlyTorn`. In
`archives_all` two archives can share an APK while a third does not, one more
than the policy keeps, and one fault is what its checks are made to survive;
the proofs remove these bounds for the invariants. Six chunks make the reader
come round a ring of five while the queue of three is full, before and after a
cancel empties it; five is not the constant of the code, but the queue is two
smaller than the ring there too. A FIFO of two chunks fills before the third, so
that tar waits; three faults hit all coroutines at once. In `extract_all` the pipe fills
before the padding, both processes may die, and three faults let a publication
fail, its way back fail, and the clean-up fail.

Deadlock is checked where the system never stops: slots, guard, groups,
suspensions, archives. The copier and the two tasks end, so their runs do not
check it; that they end is `Ends`.

Fairness. `FairSpec` of `InstanceSlot` has weak fairness on the running
operation (a coroutine on the IO dispatcher is scheduled until it returns) and
on beginning a load while the package is not marked: the screens load groups
whenever they are shown and each batch loads them at its end, and the next
process loads them at its start. Nothing forces a crash or an outage, both are
bounded. `FairSpec` of `PackageOps` has weak fairness on each coroutine; nothing
forces a cancellation. `FairSpec` of `SuspendTracker` has weak fairness on what
was begun, of each job and of the recovery; it forces neither an operation nor a
start nor the recovery, so `IsReleased` speaks of packages somebody works on.
The stream modules have weak fairness on each thread, coroutine and process; the
scheduler of the system gives it to them, and a read or write that waits does
not count as a step; in the two tasks it is on steps that do not fail (`Well`), so
that nothing is made to end by a failing call. `Settles` covers only packages not yet marked, since
`reconcileInstances` skips the others until a guarded operation on the package
or the next process: leftovers of an update that failed after the mark are
retried only then, which the comments in the code accept.

### What the failing runs show

1. `slot_undecided`. `src/docs/systems/snapshot/INSTANCE.md` says that an undecided
   read must keep the slot. `reconcileDetailed` reads the metadata twice; if the
   second read throws, a complete slot is deleted and an older copy moved in.
2. `suspend_left`. The comment on `AppSuspendTracker` says that the record holds
   the packages not yet released. Two operations on one card, the second beginning
   as soon as the first returned the guard: the first releases the package, the
   second suspends and records it, the first erases the record. The release of
   the second then does nothing and answers success: the package stays suspended,
   and no later start knows of it. The same happens to two packages whose updates
   of the record overlap, and between an operation and the recovery of a start.
3. `archives_torn`. The comments in `cleanupArchivedApks` say that the APK is deleted
   if no other archive refers to it. A menu that opens clears and refills the list
   without the guard; a deletion that looks at the list meanwhile finds no
   reference, and deletes the APK of an archive that is whole. A reload that
   failed on one archive leaves the same gap, since nobody asks
   `archivesComplete` (set `ReadFaults`).

### What the passing properties leave out, because the code does not have it

* `DeletedIsGone` needs `exists()` to be reliable. It answers FALSE when the root
  service is away, so `deleteSlot` may report a deletion that removed nothing.
* `Settles` excuses ids whose deletion was asked for: a deletion that stopped half
  way next to an incomplete copy makes every later reconcile answer Failed.
* `Released` excuses coroutines that stopped inside `finally`: a screen closed during
  a batch leaves the batch flag set until the process ends, since
  `endBatchOperation` is called inside `withContext(Dispatchers.Main)`, which
  throws in a cancelled coroutine (`GroupBatchRestorer` 101, `TimelineBatchOperator` 98).
* `GuardedNeverShare` speaks of the kinds the guard registers. A restore from a menu
  and the uninstall button are not among them and overlap the others.
* After a death in the middle of the copy of a move, the next process loads two
  owners and answers `CorruptMultiOwner`: nothing is lost, but the retry is
  refused. A load that meets a move may see the app in no group.
* `Ends` of `ParallelCopier` excuses a `cancel()` that clears a thread field between
  the test and the use of it in `onException`: the thread dies of it. It also excuses
  a thread that is `Stranded`: `cancel()` interrupts the writer between the assignment
  of its field and its start, so the interrupt is lost, the writer starts, the field
  is cleared, the reader ends and finds no field to interrupt through, and the writer
  waits in `take()` for ever; `startAndWait` then never returns.
* A first read that comes before tar makes `fifo_all` end in two ways that
  `VerdictIsTrue` and `Ends` name: an archive that fits into the FIFO is never read, and
  the task is done with an empty target; a longer one leaves tar at the full FIFO and
  the task waiting for tar, until somebody calls `cancel()` (`Stuck`). Early diagnostics
  may turn the task into an error when tar writes to them.
* `QuietAtEnd` of `TarFifo` excuses what a call that threw leaves in the root service:
  a tar that runs until it finds no reader, and the first of two anchors.
* `VerdictIsTrue` of `TarExtract` names the errors that come with the new tree in place: the
  reply of a move was lost, the size could not be asked for after the publication, or
  `cancel()` came after the decision to publish. In the last case `TarDecompressor` calls
  `onDone` and then `onError`; `TaskCancellationTest.kt:12` (`cancel closes the blocking
  stream and refuses onDone`) tests the `TaskCancellation` object only.
* `LossIsTorn` and `IsReleased` leave out suspensions that an overlap tore off the record;
  `suspend_left` shows that such overlaps happen without any fault.
* `CommittedSurvives` needs a policy with a minimum per version, as in `archives_all`, or
  days that do not wrap. `RetentionPolicyExecutor.kt:191` computes `expiryDays * 24 *
  60 * 60 * 1000L`, whose first three products are of Ints and wrap from 24856 days
  on. A hundred years, 36500 days, come out negative: the time of expiry is in the
  future, every extra archive is expired at once, and without a minimum the retention
  deletes the backup it follows (set `extraRetentionDays = 36500` and
  `minSameVersionCount = 0`). `VersionRetentionConfig.java:23` promises the days until
  an extra archive expires, and the screen accepts every Int.
* `ApkOutlivesReferences` is about archives nobody asked to delete: `clearAllArchives`
  deletes `apks/` although the deletion of an archive failed. The other way round,
  a retention that deletes two archives of one version keeps their APK, each being
  a reference for the other while the list is not reloaded.

## 4. Proofs

| Theorem | Statement | Assumes |
|---|---|---|
| `PackageOpsProofs!TypeCorrect` | `Spec => []TypeOK` | `ConstantsAssumption` |
| `PackageOpsProofs!Owners` | `Spec => []KeysHaveOwners` | the same |
| `PackageOpsProofs!BatchExclusion` | `Spec => []BatchAlone` | the same |
| `PackageOpsProofs!CardExclusion` | `Spec => []GuardedNeverShare` | the same |
| `PackageOpsProofs!BatchFindsFree` | `Spec => []BatchFindsCardsFree` | the same |
| `InstanceSlotProofs!TypeCorrect` | `Spec => []TypeOK` | `BoundsAssumption` |
| `InstanceSlotProofs!DeletionFinal` | `Spec => []DeletedIsGone` | the same, `~ReadFaults` |
| `InstanceSlotProofs!DoneLeavesOne` | `Spec => []DoneMeansOne` | the same, `~ReadFaults` |
| `InstanceSlotProofs!AcknowledgedSurvives` | `Spec => []Durable` | the same, `~ReadFaults`, `MaxDamage = 0` |
| `InstanceSlotProofs!ImplementsTheRegister` | `Spec => ImplementsRegister` | the same, `~ReadFaults`, `MaxDamage = 0` |
| `InstanceSlotProofs!PublishKeepsGround` | `Spec => PublishNeverDowngrades` | `BoundsAssumption` |
| `InstanceSlotProofs!DoubtSparesCopies` | `Spec => CopiesOutliveDoubt` | `BoundsAssumption` |
| `GroupMembershipProofs!TypeCorrect` | `Spec => []TypeOK` | `ConstantsAssumption` |
| `GroupMembershipProofs!RecordSurvives` | `Spec => []RecordKept` | the same |
| `GroupMembershipProofs!NoArchiveLost` | `Spec => []NothingLost` | the same, `~ReadFaults` |
| `GroupMembershipProofs!MoveArrives` | `Spec => []MovedArrives` | the same, `~ReadFaults` |
| `GroupMembershipProofs!TargetSpared` | `Spec => []TargetKept` | the same, `~ReadFaults` |
| `SuspendTrackerProofs!TypeCorrect` | `Spec => []TypeOK` | `JobsAssumption` |
| `SuspendTrackerProofs!LossOnlyTorn` | `Spec => []LossIsTorn` | the same |
| `CardArchivesProofs!TypeCorrect` | `Spec => []TypeOK` | `BoundsAssumption` |
| `CardArchivesProofs!InstanceKept` | `Spec => []InstanceHasApk` | the same |
| `CardArchivesProofs!ArchiveLossIsBlind` | `Spec => LossIsBlind` | the same |
| `CardArchivesProofs!NothingLeft` | `Spec => []NothingLeftBehind` | the same |
| `CardArchivesProofs!CommittedKept` | `Spec => CommittedSurvives` | `BoundsAssumption`, `~ExpiryWraps` or `minSameVersionCount > 0` |
| `ParallelCopierProofs!TypeCorrect` | `Spec => []TypeOK` | `BoundsAssumption` |
| `ParallelCopierProofs!RingHolds` | `Spec => []BuffersApart` | the same |
| `ParallelCopierProofs!OutputIsPrefix` | `Spec => []NoHoles` | the same |
| `ParallelCopierProofs!ImplementsTheRelay` | `Spec => ImplementsRelay` | the same |
| `TarFifoProofs!TypeCorrect` | `Spec => []TypeOK` | `BoundsAssumption` |
| `TarFifoProofs!VerdictHolds` | `Spec => []VerdictIsTrue` | the same |
| `TarFifoProofs!EndIsQuiet` | `Spec => []QuietAtEnd` | the same |
| `TarExtractProofs!TypeCorrect` | `Spec => []TypeOK` | `BoundsAssumption` |
| `TarExtractProofs!OldIsKept` | `Spec => []OldUntilNew` | the same |
| `TarExtractProofs!PublishedIsVerified` | `Spec => []NewIsVerified` | the same |
| `TarExtractProofs!VerdictHolds` | `Spec => []VerdictIsTrue` | the same |
| `TarExtractProofs!EndIsQuiet` | `Spec => []QuietAtEnd` | the same |
| `TarExtractProofs!ErrorsHaveReasons` | `Spec => []ErrorHasReason` | the same |

**Guard.** None of the exclusion properties is inductive: that two jobs do not
share a card says nothing about who may take the next key. The invariant `IInv`
adds, for every job, what its label implies about its cards and keys (`JobOK`),
and for the guard that its set is exactly the union of the keys held
(`OwnedKeys`), that no two jobs hold the same key (`OwnersDiffer`), that the flag
is set exactly when one job owns it (`OwnedFlag`) and that its owner excludes the
keys of others (`FlagExcludes`). With it a successful try proves that nobody
holds the key. The properties follow from `IInv` without another induction.

**Types of a slot.** The label of `pc` and the fields of `loc` depend on each
other: a recursive delete in `Sweep` needs a directory in `todo`, `install` needs
a source. `CtlOK` ties them, which is why it accompanies the shape of the
directories.

**Deletion.** `DeletedIsGone` needs to know that a directory that is not there
is `Absent` (`HereOK`), that only a delete reaches the labels of `deleteSlot`
(`OpOK`), and that after `DeleteVerdict` nothing is left to move in (`GoneOK`).
The assumption `~ReadFaults` cannot be dropped: section 3
says what an `exists()` that lies does.

**Moves.** `CInv` says what a label implies about a coroutine's keys and answer
(`JobsFit`), that keys have one holder (`KeysApart`, `KeysFit`) and that the mutex
is held exactly from the labels that need it (`MutexFits`); one lemma, `OneJob`,
covers a step of one coroutine, and every action is an instance of it. The
directories need `Backed` on top: what is about to be deleted is held whole by
the other group. It is stable because the keys of two movers are disjoint
(`Framed`), and because the one writer without a key, an add, only makes an empty
directory (`MakeAppDirData`). `Backed` at the step before a deletion is what
`NothingLost` needs (`Spared`), at the end it is `MovedArrives`, at `drop_target`
`TargetKept`. With `ReadFaults` a move may take a full target for an empty one
and delete it, so the assumption cannot be dropped. `RecordKept` needs that only
the holder of the mutex writes the record (`AloneAtMeta`) and that it is in the
target before it leaves the source (`RInv`).

**Suspensions.** `LossIsTorn` is not inductive: a write of the record is harmless only
if what was read is still good. `CopyIsBehind` says so: what was added to the record
since an actor read it is torn, excused, about to be recorded once more, or not
suspended, since whoever recorded it found a change under way. `DroppedIsReleased`
says that a package which is struck off is released, torn or excused, since whoever
suspends it meanwhile finds the striker. The two are kept by every step of every actor,
for any number of packages and jobs, and with them neither `Record` nor `Erase` costs
a record that is not torn. `SuspendedIsRecorded` itself fails, which is `suspend_left`.

**Archives.** That an archive keeps its APK is no theorem of this code, `archives_torn`
refutes it; what is proved is the one step in which it is lost. `Lacks` is an archive,
whole and not asked to be deleted, without the APK its manifest names. `OnlyBlind`: a step
brings an archive there only if it is a clean-up that looked at a list without its
entry. For the other steps the invariant needs what a job relies on at each label
(`JobKnows`): the APK of a staged backup is whole at `publish`, that of an archive at
`rename`, and `apk` writes only where there was none. `InstanceHasApk` belongs to it,
and holds without any condition, because the clean-up reads the instance from disk.
With `Alone` and `~ReadFaults` a list at a clean-up is complete, so that
`ApkOutlivesReferences` holds; that is model-checked in `archives_all`. `OwnedInv`, for
`NothingLeft`, says which label owns the staging directory and a directory without a
manifest.

**Retention.** `CommittedSurvives` rests on two counts. In a finite list, the k newest
of the entries newer than e are k if there are that many (`TopNewer`): were they
fewer, the newest of the others would have fewer than k newer ones. So whatever the
retention takes leaves its count of newer entries (`RetentionLeaves`): too many of a
version, or expired, leaves the minimum of that version; too many at all leaves the
maximum, unless one of the kept goes for another reason, and then what that one
leaves is newer as well. And entries of the list are archives, one per name
(`SurvivorsAreSpared`). `KeepInv` carries this through the deletions (`SparedOK`), with
what the backup's own archive is at each label (`NameOK`) and that a deletion of the
user was asked for (`AskedOK`). It holds with reloads that meet jobs and with reads
that fail: a list that is short only spares more.

**Done.** `DoneMeansOne` follows from two facts about the sweep, with reads that
do not lie: the directories it has not visited yet are all that can be there
(`Covered`), and a reconcile that met a failure is not `clean` and does not answer
Done. `DoneInv` carries them from `Survey` to `SweepDone`, with what
`recoverMeta` leaves (`MetaOK`) and what a fallback installs (`PickOK`).

**Register.** With truthful reads and undamaged files the value of an id is at
one place at a time: the slot if it is there, else `.previous`, else
`.committing` (`Held`), and in it the manifest is whole and `instance.json` or
its `.bak` legible (`Sound`). `RegOK` adds where the steps are: a reconcile never
gets to replace a slot (`RecAt`); a staging directory is cleared only while the
slot holds the value or nothing was ever saved (`StageAt`); between the manifest
and the rename `.committing` is the newest backup (`NewAt`); an edit keeps the
old file at `.bak` until the new one has its name (`EditAt`); what was reported,
or is about to be, is covered by the value (`SaidAt`). Each step but a deletion
keeps `RegOK` and lets the value rise (`Onward`), which gives `Durable`, and with
the types of the versions the step of the register; `RegInv` weakens it to ids
whose deletion nobody asked for. Neither assumption can be dropped: an outage of
reads makes a reconcile replace a complete slot by an older copy
(`slot_undecided`), and outside damage may hit the only copy.

**Copies.** What is left without these two assumptions. An answer that is given is
true, only `unknown` and `exists()` mislead (`SeesTruth`). So whatever an
operation installs is complete (`PickSafe`), the sweep removes copies only beside
a complete slot (`SweepSafe`), and a publication has the newest backup complete in
`.committing` until it is in the slot (`PubSafe`). `CopyInv` gives
`CopiesOutliveDoubt`, `PubInv` gives `PublishNeverDowngrades`: they hold for every
number of failing calls, outages, crashes and damaged files.

**Copier.** The bounds of the queue say nothing about which buffer is where. Until
a `cancel()` empties the queue, the buffers in it and the one being written are
those just before the one that is filled, around the ring (`RingOK`), and hold the
chunks that come next (`NextChunks`). Once the queue was emptied both are lost, and
the memory model takes their place: the queue's lock then shows the flag, so the
reader puts at most one more buffer, and the writer writes nothing it takes
(`ClearedOK`). `EndOK` is for the refinement: while nobody cancels and nothing
throws, only the end marker stops the two threads, so a normal return has written
all. `FlagKept`, in the properties themselves, excuses a `cancel()` whose flag
`startAndWait` reset.

**Compression.** `JobsOK`, `TarOK` and `FifoOK` say what the labels of the task and of
the tar coroutine imply about the coroutines, tar and the write ends; a read end
and a path are gone, or known to be left, once the task is past `DropFifos`
(`DropOK`), which with them gives `QuietAtEnd`. `TargetOK` balances the books: as
long as the copy goes on, what is in the target and what is in the FIFO is what
tar sent. `FlowOK`: a copy that ended well either met an early end and copied
nothing, or the FIFO had been open for writing and has lost its writers, so that tar
is gone and sends no more. `ReasonOK` is about a whole run: without a `cancel()`, a
failing call or early diagnostics no end is closed before tar ended, and nothing fails.

**Extraction.** One invariant, `EInv`, gives all six theorems. `JobsOK`, `EndsOK`
and `ServiceOK` tie the labels of the task, the coroutines, the root service and
tar to one another and to the pipe; the chain that `NewIsVerified` needs runs
through them: a consumer that ended well saw the call return success, that took a
tar that ended well and an end of the stream with the word `ok`, or a `cancel()`,
and then `Decide` refuses. `DirsOK` says where the old and the new tree are at each
label of the publication, a move whose reply was lost included, `FilesOK` and `TempOK`
what is on disk besides.
`ErrorHasReason` is about a whole run rather than a state, so its part of the
invariant, `CalmOK`, is conditional: as long as nothing failed, died or was
cancelled, no step takes a way out, and a step that keeps it so started so.

Only model-checked: the liveness properties `Settles`, `Released`, `IsReleased` and `Ends`,
which are out of the prover's reach, and `ApkOutlivesReferences` under its two assumptions.

## 5. Not modelled, and why

* Screens, dialogs, navigation, AIDL declarations and the SDK: no protocol state.
* GNU tar with gnulib, zstd and their headers, which are nearly all of the
  repository's C and C++ (about 250 thousand lines in 680 files). They are
  vendored; the application is Kotlin and Java, and its own native code is
  `src/io-tar/src/main/jni/jni.cpp`, of which `runTar` is in `TarExtract`, and a wrapper of libc calls
  in `src/io-nativefs`. A share of mapped lines counted over C and C++ alone
  therefore says little about how much of the application is modelled.
* External control: a table of operations and a queue of confirmations in memory
  and its transport; what it does to instances goes through the guarded
  operations of `InstanceStore`, which are modelled.
* Configuration files: `GroupMembership` takes a save as one step that may throw.
* Restore of single files, owners, permissions, installation of APKs: the
  replacement of one file has the shape of `publishExtractedDirectory`.
* Making and deleting groups, group sets, discovery, the projection of the list.
* Tasks that compress or decompress single files and lists of files, and the
  binding of the root service.
* `deleteAppCompletely`, and locking an archive while a job runs.

Arithmetic is not modelled where it only feeds a choice the model leaves open.

An update that deletes a stale `.committing` is outside `CopiesOutliveDoubt`: what
it destroys was never acknowledged.
