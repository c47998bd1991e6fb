----------------------------- MODULE PackageOps -----------------------------
(***************************************************************************)
(* The process-wide occupancy guard (PackageOpGuard) and the jobs that run *)
(* under it.  A card is one app of one group, stored in a packageDir.  The *)
(* guard holds one flag for a batch over many cards and one key per busy   *)
(* card; every call is a try, nobody waits.  Jobs are coroutines: the      *)
(* scope a job was launched in may be cancelled at any time, and a job     *)
(* that then reaches a suspension point inside its finally block stops     *)
(* there.                                                                  *)
(***************************************************************************)
EXTENDS Naturals, FiniteSets

CONSTANTS
  Jobs,        \* coroutines
  Cards,       \* package directories
  Keys,        \* normalised paths
  normalize,   \* the key of a card: its path in lower case, slashes trimmed
  MaxCancels,  \* bound on cancelled scopes
  Kinds        \* the kinds of job started in this instance

Guarded == {"card_op", "move", "batch_archive", "batch_items"}
AllKinds == Guarded \cup {"restore", "uninstall"}

ASSUME ConstantsAssumption ==
  /\ normalize \in [Cards -> Keys]
  /\ MaxCancels \in Nat
  /\ Kinds \subseteq AllKinds

VARIABLES
  globalBatch,  \* PackageOpGuard.globalBatch
  packageOps,   \* PackageOpGuard.packageOps
  job,          \* what each coroutine is doing
  cancels       \* cancelled scopes so far

vars == <<globalBatch, packageOps, job, cancels>>

-----------------------------------------------------------------------------
(* A job: todo is the cards a batch has not reached, cards the ones it is  *)
(* working on, held the keys it will give back, batch whether it owns the  *)
(* batch flag, cancelled whether its scope is gone.                        *)

Labels == {"idle", "begin", "begin_target", "launch", "work", "release", "finish", "dead"}
Job == [kind : AllKinds \cup {"none"}, pc : Labels, todo : SUBSET Cards,
        cards : SUBSET Cards, held : SUBSET Keys, batch : BOOLEAN, cancelled : BOOLEAN]

Idle == [kind |-> "none", pc |-> "idle", todo |-> {}, cards |-> {}, held |-> {},
         batch |-> FALSE, cancelled |-> FALSE]

Become(j, r) == job' = [job EXCEPT ![j] = r]
At(j, label, kinds) == job[j].pc = label /\ job[j].kind \in kinds

-----------------------------------------------------------------------------
(* PackageOpGuard.                                                         *)

\* Two mutants: a batch that does not wait for busy cards, a key not looked up.
CanBeginBatchAnyway == ~globalBatch
CanBeginTwice(c) == ~globalBatch

CanBeginGlobalBatch == ~globalBatch /\ packageOps = {}
CanBeginPackageOp(c) == ~globalBatch /\ normalize[c] \notin packageOps
CanBeginWhileBatch(c) == globalBatch /\ normalize[c] \notin packageOps
isBusy == globalBatch \/ packageOps # {}

\* A mutant: the path is registered as it is, without normalize.
TakeRaw(c) == packageOps' = packageOps \cup {c} /\ UNCHANGED globalBatch

Take(c) == packageOps' = packageOps \cup {normalize[c]} /\ UNCHANGED globalBatch
Give(k) == packageOps' = packageOps \ k /\ UNCHANGED globalBatch
GuardUnchanged == UNCHANGED <<globalBatch, packageOps>>

-----------------------------------------------------------------------------
(* Jobs.                                                                   *)

\* A tap, an external call or a reload launches a coroutine on some cards; a
\* move names its source, then its target.
Start(j, kind, cs) ==
  /\ job[j].pc = "idle" /\ kind \in Kinds
  /\ cs # {} /\ (kind \notin {"batch_archive", "batch_items"} => Cardinality(cs) = 1)
  /\ Become(j, [Idle EXCEPT !.kind = kind, !.todo = cs, !.pc = "begin"])
  /\ UNCHANGED <<cancels>> /\ GuardUnchanged

\* One snapshot, instance operation, archive deletion or instance reconcile:
\* each takes the key of its card or gives up.
BeginPackageOp(j) ==
  /\ At(j, "begin", {"card_op"}) /\ UNCHANGED cancels
  /\ \E c \in job[j].todo :
       \/ ~CanBeginPackageOp(c) /\ GuardUnchanged /\ Become(j, Idle)
       \/ /\ CanBeginPackageOp(c) /\ Take(c)
          /\ Become(j, [job[j] EXCEPT !.pc = "work", !.cards = {c}, !.todo = {},
                                      !.held = {normalize[c]}])

\* A move takes the source, then the target, and gives the source back if the
\* target is busy.
BeginMoveSource(j) ==
  /\ At(j, "begin", {"move"}) /\ UNCHANGED cancels
  /\ \E c \in job[j].todo :
       \/ ~CanBeginPackageOp(c) /\ GuardUnchanged /\ Become(j, Idle)
       \/ /\ CanBeginPackageOp(c) /\ Take(c)
          /\ Become(j, [job[j] EXCEPT !.pc = "begin_target", !.cards = {c}, !.todo = {},
                                      !.held = {normalize[c]}])

\* A mutant: a busy target ends the move without giving the source back.
BeginMoveTargetLeaks(j, c) ==
  /\ At(j, "begin_target", {"move"}) /\ c \notin job[j].cards /\ UNCHANGED cancels
  /\ \/ ~CanBeginPackageOp(c) /\ GuardUnchanged /\ Become(j, Idle)
     \/ /\ CanBeginPackageOp(c) /\ Take(c)
        /\ Become(j, [job[j] EXCEPT !.pc = "work", !.cards = @ \cup {c},
                                    !.held = @ \cup {normalize[c]}])

BeginMoveTarget(j, c) ==
  /\ At(j, "begin_target", {"move"}) /\ c \notin job[j].cards /\ UNCHANGED cancels
  /\ \/ ~CanBeginPackageOp(c) /\ GuardUnchanged
          /\ Become(j, [job[j] EXCEPT !.pc = "release", !.cards = {}])
     \/ /\ CanBeginPackageOp(c) /\ Take(c)
        /\ Become(j, [job[j] EXCEPT !.pc = "work", !.cards = @ \cup {c},
                                    !.held = @ \cup {normalize[c]}])

\* The work on the cards ends, well or badly; the finally block is next.
EndWork(j) ==
  /\ At(j, "work", {"card_op", "move"})
  /\ GuardUnchanged /\ UNCHANGED cancels
  /\ Become(j, [job[j] EXCEPT !.pc = "release", !.cards = {}])

\* A mutant: an operation that ends in an early return skips its finally block.
ReleaseSkipped(j) ==
  /\ At(j, "release", {"card_op", "move"}) /\ UNCHANGED cancels
  /\ GuardUnchanged /\ Become(j, [job[j] EXCEPT !.pc = "idle"])

\* endPackageOp does not suspend, so a cancelled scope does not prevent it.
ReleasePackageOp(j) ==
  /\ At(j, "release", {"card_op", "move"}) /\ UNCHANGED cancels
  /\ Give(job[j].held) /\ Become(j, Idle)

-----------------------------------------------------------------------------
(* Batches.                                                                *)

BeginBatch(j) ==
  /\ At(j, "begin", {"batch_archive", "batch_items"}) /\ UNCHANGED <<packageOps, cancels>>
  /\ \/ ~CanBeginGlobalBatch /\ Become(j, Idle) /\ UNCHANGED globalBatch
     \/ /\ CanBeginGlobalBatch /\ globalBatch' = TRUE
        /\ Become(j, [job[j] EXCEPT !.pc = "launch", !.batch = TRUE])

\* createSnapshotsSequentially: the next card, unless it is busy; the snapshot
\* is launched in the scope and never starts if the scope is gone.
ArchiveNext(j, c) ==
  /\ At(j, "launch", {"batch_archive"}) /\ c \in job[j].todo /\ UNCHANGED cancels
  /\ \/ /\ ~CanBeginWhileBatch(c) /\ GuardUnchanged
        /\ Become(j, [job[j] EXCEPT !.todo = @ \ {c}])
     \/ /\ CanBeginWhileBatch(c) /\ Take(c)
        /\ Become(j, [job[j] EXCEPT !.todo = @ \ {c}, !.held = {normalize[c]},
                        !.pc = IF job[j].cancelled THEN "dead" ELSE "work",
                        !.cards = IF job[j].cancelled THEN {} ELSE {c}])

\* A mutant: the finished snapshot leaves its card registered until the batch ends.
ArchiveDoneKeeps(j) ==
  /\ At(j, "work", {"batch_archive"}) /\ UNCHANGED cancels /\ GuardUnchanged
  /\ Become(j, [job[j] EXCEPT !.pc = "launch", !.cards = {}])

\* The snapshot's finally block hands over to onFinish on the main thread,
\* which a cancelled coroutine never reaches.
ArchiveDone(j) ==
  /\ At(j, "work", {"batch_archive"}) /\ UNCHANGED cancels
  /\ IF job[j].cancelled
     THEN GuardUnchanged /\ Become(j, [job[j] EXCEPT !.pc = "dead", !.cards = {}])
     ELSE /\ Give(job[j].held)
          /\ Become(j, [job[j] EXCEPT !.pc = "launch", !.cards = {}, !.held = {}])

\* Restore, delete or export of the next entry: the batch flag is the guard.
ItemNext(j, c) ==
  /\ At(j, "launch", {"batch_items"}) /\ ~job[j].cancelled
  /\ c \in job[j].todo /\ UNCHANGED cancels /\ GuardUnchanged
  /\ Become(j, [job[j] EXCEPT !.pc = "work", !.cards = {c}, !.todo = @ \ {c}])

ItemDone(j) ==
  /\ At(j, "work", {"batch_items"}) /\ UNCHANGED cancels /\ GuardUnchanged
  /\ Become(j, [job[j] EXCEPT !.pc = "launch", !.cards = {}])

\* No card is left, the user stopped the batch, or the loop was cancelled.
LeaveLoop(j) ==
  /\ At(j, "launch", {"batch_archive", "batch_items"})
  /\ GuardUnchanged /\ UNCHANGED cancels
  /\ Become(j, [job[j] EXCEPT !.pc = "finish", !.todo = {}])

\* finishBatch runs on the main thread at once; the other batches switch to it
\* inside finally, and a cancelled coroutine is stopped by that switch.
EndBatch(j) ==
  /\ At(j, "finish", {"batch_archive", "batch_items"}) /\ UNCHANGED <<packageOps, cancels>>
  /\ IF job[j].cancelled /\ job[j].kind = "batch_items"
     THEN UNCHANGED globalBatch /\ Become(j, [job[j] EXCEPT !.pc = "dead"])
     ELSE globalBatch' = FALSE /\ Become(j, Idle)

-----------------------------------------------------------------------------
(* Jobs that register nothing.                                             *)

\* A restore of one card from its menu asks the guard nothing.
BeginRestore(j) ==
  /\ At(j, "begin", {"restore"}) /\ GuardUnchanged /\ UNCHANGED cancels
  /\ Become(j, [job[j] EXCEPT !.pc = "work", !.cards = job[j].todo, !.todo = {}])

\* Uninstalling from the apps tab looks at the guard once.
BeginUninstall(j) ==
  /\ At(j, "begin", {"uninstall"}) /\ GuardUnchanged /\ UNCHANGED cancels
  /\ IF isBusy THEN Become(j, Idle)
     ELSE Become(j, [job[j] EXCEPT !.pc = "work", !.cards = job[j].todo, !.todo = {}])

EndUnregistered(j) ==
  /\ At(j, "work", {"restore", "uninstall"}) /\ GuardUnchanged /\ UNCHANGED cancels
  /\ Become(j, Idle)

-----------------------------------------------------------------------------
\* The screen whose scope launched the job is gone.  Moves and uninstalls run
\* in the repository's own scope, which lives as long as the process.
Cancel(j) ==
  /\ job[j].pc \notin {"idle", "dead"} /\ ~job[j].cancelled
  /\ job[j].kind \notin {"move", "uninstall"} /\ cancels < MaxCancels
  /\ cancels' = cancels + 1 /\ GuardUnchanged
  /\ Become(j, [job[j] EXCEPT !.cancelled = TRUE])

Init ==
  /\ globalBatch = FALSE /\ packageOps = {} /\ cancels = 0
  /\ job = [j \in Jobs |-> Idle]

Run(j) ==
  \/ BeginPackageOp(j) \/ BeginMoveSource(j)
  \/ \E c \in Cards : BeginMoveTarget(j, c) \/ ArchiveNext(j, c) \/ ItemNext(j, c)
  \/ EndWork(j) \/ ReleasePackageOp(j)
  \/ BeginBatch(j) \/ ArchiveDone(j) \/ ItemDone(j) \/ LeaveLoop(j) \/ EndBatch(j)
  \/ BeginRestore(j) \/ BeginUninstall(j) \/ EndUnregistered(j)

Next ==
  \E j \in Jobs :
    \/ \E kind \in AllKinds, cs \in SUBSET Cards : Start(j, kind, cs)
    \/ Run(j)
    \/ Cancel(j)

Spec == Init /\ [][Next]_vars

\* A launched coroutine is dispatched until it ends or is cancelled.
FairSpec == Spec /\ \A j \in Jobs : WF_vars(Run(j))

-----------------------------------------------------------------------------
(* Properties                                                              *)

\* Every variable keeps its type; keys, never raw paths, are in the guard.
TypeOK ==
  /\ globalBatch \in BOOLEAN /\ packageOps \subseteq Keys
  /\ job \in [Jobs -> Job] /\ cancels \in 0 .. MaxCancels

Share(i, j) ==
  \E c \in job[i].cards, d \in job[j].cards : normalize[c] = normalize[d]

\* Two registered jobs never work on one card, nor on two spellings of one path.
GuardedNeverShare ==
  \A i, j \in Jobs :
    i # j /\ job[i].kind \in Guarded /\ job[j].kind \in Guarded => ~Share(i, j)

\* While a batch owns the flag no other registered job holds a key or works,
\* even after the batch's scope was cancelled; and no second batch runs.
BatchAlone ==
  \A i, j \in Jobs :
    i # j /\ job[i].batch =>
      ~job[j].batch /\ job[j].held = {} /\ (job[j].kind \in Guarded => job[j].cards = {})

\* Nothing is registered on behalf of nobody: each key in the guard is held by
\* one job that still exists (dead ones included), and so is the batch flag.
KeysHaveOwners ==
  /\ packageOps = UNION {job[j].held : j \in Jobs}
  /\ \A i, j \in Jobs : i # j => job[i].held \cap job[j].held = {}
  /\ globalBatch <=> \E j \in Jobs : job[j].batch

\* A batch archive between two cards finds every card free: the busy branch of
\* createSnapshotsSequentially is never taken.
BatchFindsCardsFree ==
  \A j \in Jobs : At(j, "launch", {"batch_archive"}) => packageOps = {}

\* Every registration is given back, except by a batch whose scope was cancelled.
Dead == \E j \in Jobs : job[j].pc = "dead"
Released ==
  /\ globalBatch ~> ~globalBatch \/ Dead
  /\ \A k \in Keys : k \in packageOps ~> k \notin packageOps \/ Dead
=============================================================================
