---------------------------- MODULE InstanceSlot ----------------------------
(***************************************************************************)
(* One instance id on disk.  An instance is a complete backup kept in      *)
(* instances/{id}; while it is being replaced two siblings may exist,      *)
(* {id}.committing (the new backup) and {id}.previous (the old one).       *)
(* InstanceStore runs create / update / edit / delete under the package    *)
(* guard, each after a reconcile, and a group load reconciles too; so one  *)
(* thread of control at a time works on an id, and what can go wrong is    *)
(* the file system: a call fails, a recursive delete stops half way, a     *)
(* read comes back undecided, the process dies between two calls.          *)
(*                                                                         *)
(* Every action is one file-system mutation together with the reads and    *)
(* decisions that precede it.  An outage (a fault) may hit any action: any *)
(* subset of the calls that action makes may then fail.                    *)
(***************************************************************************)
EXTENDS Integers, Sequences

CONSTANTS
  Ops,         \* the operations the user performs in this instance
  MaxClock,    \* bound on backups staged and metadata files written
  MaxFaults,   \* bound on actions hit by an outage
  MaxCrashes,  \* bound on process deaths
  MaxDamage,   \* bound on files corrupted by something else than the program
  ReadFaults   \* TRUE: an outage also makes reads and exists() fail

ASSUME BoundsAssumption ==
  /\ Ops \subseteq {"create", "update", "edit", "delete"}
  /\ MaxClock \in Nat /\ MaxFaults \in Nat /\ MaxCrashes \in Nat /\ MaxDamage \in Nat
  /\ ReadFaults \in BOOLEAN

VARIABLES
  dir,      \* the three directories of the id
  pc,       \* where the running operation is; "idle" between operations
  op,       \* the running operation
  loc,      \* its local variables
  clock,    \* number of the newest backup or metadata file written
  ack,      \* what the user was told: newest version and metadata saved, ...
  marked,   \* reconciledInstanceDirs has the package: loads skip it from now on
  budget    \* faults, crashes and damages so far

vars == <<dir, pc, op, loc, clock, ack, marked, budget>>

-----------------------------------------------------------------------------
(* What a directory holds.  A metadata file (instance.json, its .bak and   *)
(* .tmp) is NoFile, Torn (undecodable), or the number of the write that    *)
(* produced it.  ver is the number of the backup the payload belongs to, 0 *)
(* when any of the payload is gone.  man is the manifest.                  *)

Dirs == {"slot", "committing", "previous"}
NoFile == 0
Torn == -1
File == Torn .. MaxClock
Content == [here : BOOLEAN, man : {"none", "bad", "ok"}, ver : 0 .. MaxClock,
            meta : File, bak : File, tmp : File]
Absent == [here |-> FALSE, man |-> "none", ver |-> 0,
           meta |-> NoFile, bak |-> NoFile, tmp |-> NoFile]

Legible(file) == file > 0
MetaReady(c) == Legible(c.meta) \/ Legible(c.bak) \/ Legible(c.tmp)
Ready(c) == c.man = "ok" /\ MetaReady(c)

\* The metadata a reader is shown: instance.json, else .bak, else .tmp.
ReadMeta(c) == IF Legible(c.meta) THEN c.meta
               ELSE IF Legible(c.bak) THEN c.bak
               ELSE IF Legible(c.tmp) THEN c.tmp ELSE NoFile

\* What a recursive delete that stopped half way may leave of c.
Remnants(c) ==
  [here : {TRUE}, man : {c.man, "none"}, ver : {c.ver, 0},
   meta : {c.meta, NoFile}, bak : {c.bak, NoFile}, tmp : {c.tmp, NoFile}]

-----------------------------------------------------------------------------
(* Reads, under an outage f.  exists() answers false when it fails; the    *)
(* readiness checks have a third answer, "unknown".                        *)

Sees(f, truth, failed) == IF f /\ ReadFaults THEN {truth, failed} ELSE {truth}

Exists(f, d) == Sees(f, dir[d].here, FALSE)
Readiness(b) == IF b THEN "ready" ELSE "unavailable"
metaState(f, file) == Sees(f, Readiness(Legible(file)), "unknown")
metaReadiness(f, d) == Sees(f, Readiness(MetaReady(dir[d])), "unknown")
backupReady(f, d) == Sees(f, Readiness(Ready(dir[d])), "unknown")
manifestExists(f, d) == Sees(f, dir[d].man # "none", TRUE)
hasReadableMetaCopy(f, d) ==
  Sees(f, Legible(dir[d].bak) \/ Legible(dir[d].tmp), FALSE)

\* The state replaceWithFallback gives a candidate: exists() first.
CandidateState(f, d) ==
  UNION {IF e THEN backupReady(f, d) ELSE {"unavailable"} : e \in Exists(f, d)}

-----------------------------------------------------------------------------
(* Mutations, under an outage f.                                           *)

\* The outcomes of "!exists(d) || delete(d)": what is left, and the verdict.
Drops(f, c) ==
  IF ~f \/ ~c.here THEN {[left |-> Absent, ok |-> TRUE]}
  ELSE [left : Remnants(c), ok : {FALSE}]
         \cup [left : {c}, ok : Sees(f, FALSE, TRUE)]

\* The same for one metadata file.
DropsFile(f, file) ==
  IF ~f \/ file = NoFile THEN {[left |-> NoFile, ok |-> TRUE]}
  ELSE [left : {file}, ok : Sees(f, FALSE, TRUE)]

\* move() refuses a missing source and an existing target.
CanMove(f, a, b) == ~f /\ dir[a].here /\ ~dir[b].here
Moved(a, b) == [dir EXCEPT ![b] = dir[a], ![a] = Absent]

Outages == IF budget.faults < MaxFaults THEN BOOLEAN ELSE {FALSE}

Fresh == [ret |-> "end", rec |-> "none", then |-> "none", resume |-> "return",
          src |-> "none", file |-> "none", todo |-> <<>>, clean |-> TRUE,
          published |-> FALSE, owns |-> FALSE, ok |-> FALSE]

Goto(label) == pc' = label /\ UNCHANGED loc
GotoWith(label, l) == pc' = label /\ loc' = l

\* reconcileDetailed returns r to the operation that called it.
Return(r) ==
  GotoWith(loc.ret, [Fresh EXCEPT !.ret = loc.ret, !.rec = r,
                       !.published = loc.published, !.owns = loc.owns])

\* One step of the running operation that only reads and decides.
Reading(label) == pc = label /\ UNCHANGED <<dir, op, clock, ack>>
\* One that may change the directories.
Writing(label) == pc = label /\ UNCHANGED <<op, clock, ack>>

-----------------------------------------------------------------------------
(* reconcileDetailed                                                       *)

Fallback(after) == GotoWith("pick", [loc EXCEPT !.resume = after])
InstallFrom(d, leftovers) ==
  GotoWith("install", [loc EXCEPT !.src = d, !.then = "sweep", !.todo = leftovers])
SweepOnly(leftovers) == GotoWith("sweep", [loc EXCEPT !.todo = leftovers])

\* A mutant: a leftover .previous is taken for an interrupted replacement.
SurveySlotRollsBack(f) ==
  \E m \in metaReadiness(f, "slot") :
    \/ m = "unknown" /\ Return("pending")
    \/ (m = "unavailable" \/ dir["previous"].here) /\ Fallback("return")
    \/ m = "ready" /\ ~dir["previous"].here
         /\ GotoWith("meta", [loc EXCEPT !.then = "check"])

SurveySlot(f) ==
  \E m \in metaReadiness(f, "slot") :
    \/ m = "unknown" /\ Return("pending")
    \/ m = "unavailable" /\ Fallback("return")
    \/ m = "ready" /\ GotoWith("meta", [loc EXCEPT !.then = "check"])

\* A mutant: an incomplete staging directory is always left alone.
SurveyStagedKeepsDebris(f) ==
  \E c \in backupReady(f, "committing") :
    IF c = "ready" THEN InstallFrom("committing", <<>>) ELSE Return("pending")

SurveyStaged(f) ==
  \E c \in backupReady(f, "committing"), listed \in manifestExists(f, "committing") :
    \/ c = "unknown" /\ Return("pending")
    \/ c = "unavailable" /\ listed /\ Return("pending")
    \/ c = "unavailable" /\ ~listed /\ SweepOnly(<<"committing">>)
    \/ c = "ready" /\ InstallFrom("committing", <<>>)

SurveyPrevious(f) ==
  \E p \in backupReady(f, "previous"),
     staged \in Exists(f, "committing"), c \in backupReady(f, "committing") :
    \/ p = "unknown" /\ Return("pending")
    \/ p = "ready" /\ InstallFrom("previous", <<"committing">>)
    \/ p = "unavailable" /\ staged /\ c = "unknown" /\ Return("pending")
    \/ p = "unavailable" /\ staged /\ c = "ready"
         /\ InstallFrom("committing", <<"previous">>)
    \/ p = "unavailable" /\ (staged => c = "unavailable") /\ Return("failed")

Survey(f) ==
  /\ Reading("reconcile")
  /\ \E slot \in Exists(f, "slot"), prev \in Exists(f, "previous"),
        staged \in Exists(f, "committing") :
       \/ slot /\ SurveySlot(f)
       \/ ~slot /\ prev /\ SurveyPrevious(f)
       \/ ~slot /\ ~prev /\ staged /\ SurveyStaged(f)
       \/ ~slot /\ ~prev /\ ~staged /\ Return("done")

\* recoverMeta: where it goes on, and where it gives up.
Unrecovered == IF loc.then = "check" THEN Goto("doubt") ELSE Return("failed")

ReadSlotMeta(f) ==
  /\ Reading("meta")
  /\ \E m \in metaState(f, dir["slot"].meta), b \in metaState(f, dir["slot"].bak),
        t \in metaState(f, dir["slot"].tmp) :
       \/ m = "ready" /\ Goto(loc.then)
       \/ m = "unknown" /\ Unrecovered
       \/ /\ m = "unavailable"
          /\ \/ b = "ready" /\ GotoWith("meta_drop", [loc EXCEPT !.file = "bak"])
             \/ b # "ready" /\ t = "ready"
                  /\ GotoWith("meta_drop", [loc EXCEPT !.file = "tmp"])
             \/ b # "ready" /\ t # "ready" /\ Unrecovered

DropSlotMeta(f) ==
  /\ Writing("meta_drop")
  /\ \E r \in DropsFile(f, dir["slot"].meta) :
       /\ dir' = [dir EXCEPT !["slot"].meta = r.left]
       /\ IF r.ok THEN Goto("meta_move") ELSE Unrecovered

RestoreSlotMeta(f) ==
  /\ Writing("meta_move")
  /\ IF f \/ dir["slot"].meta # NoFile
     THEN UNCHANGED dir /\ Unrecovered
     ELSE /\ dir' = IF loc.file = "bak"
                    THEN [dir EXCEPT !["slot"].meta = dir["slot"].bak, !["slot"].bak = NoFile]
                    ELSE [dir EXCEPT !["slot"].meta = dir["slot"].tmp, !["slot"].tmp = NoFile]
          /\ Goto(loc.then)

\* recoverMeta failed on the published slot: is there a readable copy left?
DoubtSlotMeta(f) ==
  /\ Reading("doubt")
  /\ \E copy \in hasReadableMetaCopy(f, "slot") :
       IF copy THEN Return("pending") ELSE Fallback("check")

Tidy == GotoWith("sweep", [loc EXCEPT !.todo = <<"bak", "tmp", "previous", "committing">>,
                                      !.resume = "return", !.clean = TRUE])

\* A mutant: a slot that cannot be validated is kept like a complete one.
CheckSlotTrustsMeta(f) ==
  /\ Reading("check")
  /\ \E s \in backupReady(f, "slot") : IF s = "unknown" THEN Return("pending") ELSE Tidy

CheckSlot(f) ==
  /\ Reading("check")
  /\ \E s \in backupReady(f, "slot") :
       \/ s = "unknown" /\ Return("pending")
       \/ s = "unavailable" /\ Fallback("tidy")
       \/ s = "ready" /\ Tidy

\* replaceWithFallback
PickFallback(f) ==
  /\ Reading("pick")
  /\ \E p \in CandidateState(f, "previous"), c \in CandidateState(f, "committing") :
       LET use(d) == GotoWith("slot_drop", [loc EXCEPT !.src = d, !.then = "verify"])
       IN  \/ p = "ready" /\ use("previous")
           \/ p # "ready" /\ c = "ready" /\ use("committing")
           \/ p # "ready" /\ c # "ready" /\ "unknown" \in {p, c} /\ Return("pending")
           \/ p = "unavailable" /\ c = "unavailable" /\ Return("failed")

DropSlot(f) ==
  /\ Writing("slot_drop")
  /\ \E r \in Drops(f, dir["slot"]) :
       /\ dir' = [dir EXCEPT !["slot"] = r.left]
       /\ IF r.ok THEN Goto("install") ELSE Return("failed")

Install(f) ==
  /\ Writing("install")
  /\ IF CanMove(f, loc.src, "slot")
     THEN dir' = Moved(loc.src, "slot") /\ Goto("meta")
     ELSE UNCHANGED dir /\ Return("failed")

VerifyInstalled(f) ==
  /\ Reading("verify")
  /\ \E s \in backupReady(f, "slot") :
       IF s = "ready"
       THEN SweepOnly(<<IF loc.src = "previous" THEN "committing" ELSE "previous">>)
       ELSE Return("failed")

\* Drop the recovery copies one by one; a failure is only remembered.
Sweep(f) ==
  /\ Writing("sweep") /\ loc.todo # <<>>
  /\ LET d == Head(loc.todo)
         rest(ok) == GotoWith("sweep", [loc EXCEPT !.todo = Tail(@), !.clean = @ /\ ok])
     IN  \/ /\ d \in Dirs
            /\ \E r \in Drops(f, dir[d]) :
                 dir' = [dir EXCEPT ![d] = r.left] /\ rest(r.ok)
         \/ /\ d = "bak"
            /\ \E r \in DropsFile(f, dir["slot"].bak) :
                 dir' = [dir EXCEPT !["slot"].bak = r.left] /\ rest(r.ok)
         \/ /\ d = "tmp"
            /\ \E r \in DropsFile(f, dir["slot"].tmp) :
                 dir' = [dir EXCEPT !["slot"].tmp = r.left] /\ rest(r.ok)

\* A mutant: failed clean-ups are not remembered.
SweepDoneRegardless(f) ==
  /\ Reading("sweep") /\ loc.todo = <<>>
  /\ \/ loc.resume = "return" /\ Return("done")
     \/ loc.resume = "check" /\ Goto("check")
     \/ loc.resume = "tidy" /\ Tidy

\* A replacement that left debris is not Done, so its caller does not go on.
SweepDone(f) ==
  /\ Reading("sweep") /\ loc.todo = <<>>
  /\ \/ ~loc.clean /\ Return("pending")
     \/ loc.clean /\ loc.resume = "return" /\ Return("done")
     \/ loc.clean /\ loc.resume = "check" /\ Goto("check")
     \/ loc.clean /\ loc.resume = "tidy" /\ Tidy

ReconcileLabels == {"reconcile", "meta", "meta_drop", "meta_move", "doubt", "check",
                    "pick", "slot_drop", "install", "verify", "sweep"}

\* A call that throws ends the reconcile with Failed.
ReconcileThrows(f) ==
  /\ f /\ pc \in ReconcileLabels
  /\ Return("failed") /\ UNCHANGED <<dir, op, clock, ack>>

Reconcile(f) ==
  \/ Survey(f) \/ ReadSlotMeta(f) \/ DropSlotMeta(f) \/ RestoreSlotMeta(f)
  \/ DoubtSlotMeta(f) \/ CheckSlot(f) \/ PickFallback(f) \/ DropSlot(f)
  \/ Install(f) \/ VerifyInstalled(f) \/ Sweep(f) \/ SweepDone(f)
  \/ ReconcileThrows(f)

-----------------------------------------------------------------------------
(* publishCommit: replace the slot by the staged backup.                   *)

NotPublished == Goto("final")

\* A mutant: an undecided read of the slot counts as an unusable slot.
PublishCheckHasty(f) ==
  /\ Reading("pub")
  /\ \E prev \in Exists(f, "previous"), slot \in Exists(f, "slot"),
        s \in backupReady(f, "slot") :
       \/ prev /\ ~slot /\ Goto("pub_back")
       \/ prev /\ slot /\ s = "ready" /\ Goto("pub_prev")
       \/ prev /\ slot /\ s # "ready" /\ Goto("pub_swap")
       \/ ~prev /\ Goto("pub_out")

PublishCheck(f) ==
  /\ Reading("pub")
  /\ \E staged \in Exists(f, "committing"), c \in backupReady(f, "committing"),
        prev \in Exists(f, "previous"), p \in backupReady(f, "previous"),
        slot \in Exists(f, "slot"), s \in backupReady(f, "slot") :
       \/ (~staged \/ c # "ready") /\ NotPublished
       \/ /\ staged /\ c = "ready" /\ prev
          /\ \/ ~slot /\ p = "ready" /\ Goto("pub_back")
             \/ ~slot /\ p # "ready" /\ NotPublished
             \/ slot /\ s = "ready" /\ Goto("pub_prev")
             \/ slot /\ s = "unavailable" /\ Goto("pub_swap")
             \/ slot /\ s = "unknown" /\ NotPublished
       \/ staged /\ c = "ready" /\ ~prev /\ Goto("pub_out")

\* A stale .previous beside a readable slot goes before the slot moves there.
DropStalePrevious(f) ==
  /\ Writing("pub_prev")
  /\ \E r \in Drops(f, dir["previous"]) :
       /\ dir' = [dir EXCEPT !["previous"] = r.left]
       /\ IF r.ok THEN Goto("pub_out") ELSE NotPublished

DropBadSlot(f) ==
  /\ Writing("pub_swap")
  /\ \E r \in Drops(f, dir["slot"]) :
       /\ dir' = [dir EXCEPT !["slot"] = r.left]
       /\ IF r.ok THEN Goto("pub_back") ELSE NotPublished

BringBackPrevious(f) ==
  /\ Writing("pub_back")
  /\ IF CanMove(f, "previous", "slot")
     THEN dir' = Moved("previous", "slot") /\ Goto("pub_out")
     ELSE UNCHANGED dir /\ NotPublished

\* Only an undecided slot is refused: one that is known to be unusable moves too.
MoveSlotAside(f) ==
  /\ Writing("pub_out")
  /\ \E slot \in Exists(f, "slot"), s \in backupReady(f, "slot"), there \in Exists(f, "slot") :
       \/ slot /\ s = "unknown" /\ UNCHANGED dir /\ NotPublished
       \/ (slot => s # "unknown") /\ ~there /\ UNCHANGED dir /\ Goto("pub_in")
       \/ /\ (slot => s # "unknown") /\ there
          /\ IF CanMove(f, "slot", "previous")
             THEN dir' = Moved("slot", "previous") /\ Goto("pub_in")
             ELSE UNCHANGED dir /\ NotPublished

MoveCommitIn(f) ==
  /\ Writing("pub_in")
  /\ IF CanMove(f, "committing", "slot")
     THEN dir' = Moved("committing", "slot") /\ Goto("pub_tidy")
     ELSE UNCHANGED dir /\ Goto("pub_undo")

UndoMoveAside(f) ==
  /\ Writing("pub_undo") /\ NotPublished
  /\ dir' = IF CanMove(f, "previous", "slot") THEN Moved("previous", "slot") ELSE dir

\* A leftover .previous is debt, not a failure; the verdict is the last exists().
PublishTidy(f) ==
  /\ Writing("pub_tidy")
  /\ \E r \in Drops(f, dir["previous"]) : dir' = [dir EXCEPT !["previous"] = r.left]
  /\ \E slot \in Exists(f, "slot"), staged \in Exists(f, "committing") :
       GotoWith("final", [loc EXCEPT !.published = slot /\ ~staged])

PublishLabels == {"pub", "pub_prev", "pub_swap", "pub_back", "pub_out",
                  "pub_in", "pub_undo", "pub_tidy"}

PublishThrows(f) ==
  /\ f /\ pc \in PublishLabels
  /\ NotPublished /\ UNCHANGED <<dir, op, clock, ack>>

PublishCommit(f) ==
  \/ PublishCheck(f) \/ DropStalePrevious(f) \/ DropBadSlot(f) \/ BringBackPrevious(f)
  \/ MoveSlotAside(f) \/ MoveCommitIn(f) \/ UndoMoveAside(f) \/ PublishTidy(f)
  \/ PublishThrows(f)

-----------------------------------------------------------------------------
(* InstanceStore.backup: create and update.                                *)

\* A stale staging directory goes first; failing here is outside the try.
ClearStaging(f) ==
  /\ Writing("clear")
  /\ \E r \in Drops(f, dir["committing"]) :
       /\ dir' = [dir EXCEPT !["committing"] = r.left]
       /\ IF r.ok THEN Goto("stage") ELSE Goto("end")

Staged(n) == [here |-> TRUE, man |-> "none", ver |-> n,
              meta |-> n, bak |-> NoFile, tmp |-> NoFile]

\* The backup is made and validated beside the archives, then moved in.
Stage(f) ==
  /\ pc = "stage" /\ UNCHANGED <<op, ack>>
  /\ \/ Goto("final") /\ UNCHANGED <<dir, clock>>
     \/ /\ clock' = clock + 1
        /\ IF f \/ dir["committing"].here
           THEN Goto("final") /\ UNCHANGED dir
           ELSE /\ dir' = [dir EXCEPT !["committing"] = Staged(clock + 1)]
                /\ GotoWith("manifest", [loc EXCEPT !.owns = TRUE])

\* The manifest gets its final name only inside the staging directory.
NameManifest(f) ==
  /\ Writing("manifest")
  /\ IF f THEN UNCHANGED dir /\ NotPublished
     ELSE dir' = [dir EXCEPT !["committing"].man = "ok"] /\ Goto("pub")

\* A mutant: the finally block's reconcile returns into the finally block.
BackupFinallyAgain(f) ==
  /\ Reading("final")
  /\ GotoWith("reconcile", [loc EXCEPT !.ret = "final"])

\* The finally block: reconcile what the backup may have left.
BackupFinally(f) ==
  /\ Reading("final")
  /\ \/ \E prev \in Exists(f, "previous") :
          IF loc.published \/ loc.owns \/ prev
          THEN GotoWith("reconcile", [loc EXCEPT !.ret = "settle"])
          ELSE GotoWith("settle", [loc EXCEPT !.rec = "done"])
     \/ f /\ GotoWith("settle", [loc EXCEPT !.rec = "failed"])

BackupVerdict(f) ==
  /\ ~f /\ Reading("settle")
  /\ GotoWith("end", [loc EXCEPT !.ok = loc.published /\ loc.rec # "failed"])

Backup(f) ==
  ClearStaging(f) \/ Stage(f) \/ NameManifest(f) \/ BackupFinally(f) \/ BackupVerdict(f)

-----------------------------------------------------------------------------
(* writeText on the published slot: edit.                                  *)

ClearTemp(f) ==
  /\ Writing("w_clear")
  /\ \E r \in DropsFile(f, dir["slot"].tmp) :
       /\ dir' = [dir EXCEPT !["slot"].tmp = r.left]
       /\ IF r.ok THEN Goto("w_open") ELSE Goto("end")

\* A mutant: instance.json itself is opened for writing.
OpenInPlace(f) ==
  /\ pc = "w_open" /\ UNCHANGED <<op, ack>>
  /\ clock' = clock + 1
  /\ dir' = [dir EXCEPT !["slot"].meta = Torn]
  /\ IF f THEN Goto("end") ELSE Goto("w_close")

\* Opening truncates; the text is only there once the stream is closed.
OpenTemp(f) ==
  /\ pc = "w_open" /\ UNCHANGED <<op, ack>>
  /\ clock' = clock + 1
  /\ dir' = [dir EXCEPT !["slot"].tmp = Torn]
  /\ IF f THEN Goto("end") ELSE Goto("w_close")

CloseTemp(f) ==
  /\ ~f /\ Writing("w_close")
  /\ dir' = [dir EXCEPT !["slot"].tmp = clock]
  /\ Goto("w_old")

\* instance.json exists: make room for it at .bak.
DropOldBackup(f) ==
  /\ Writing("w_old")
  /\ \E listed \in Sees(f, dir["slot"].meta # NoFile, FALSE) :
       \/ ~listed /\ UNCHANGED dir /\ Goto("w_new")
       \/ /\ listed
          /\ \E r \in DropsFile(f, dir["slot"].bak) :
               /\ dir' = [dir EXCEPT !["slot"].bak = r.left]
               /\ IF r.ok THEN Goto("w_keep") ELSE Goto("w_abort")

KeepOld(f) ==
  /\ Writing("w_keep")
  /\ IF f \/ dir["slot"].bak # NoFile
     THEN UNCHANGED dir /\ Goto("w_abort")
     ELSE /\ dir' = [dir EXCEPT !["slot"].bak = dir["slot"].meta, !["slot"].meta = NoFile]
          /\ Goto("w_new")

PublishTemp(f) ==
  /\ Writing("w_new")
  /\ IF f \/ dir["slot"].meta # NoFile
     THEN UNCHANGED dir /\ Goto("w_back")
     ELSE /\ dir' = [dir EXCEPT !["slot"].meta = dir["slot"].tmp, !["slot"].tmp = NoFile]
          /\ Goto("w_done")

PutBackOld(f) ==
  /\ Writing("w_back") /\ Goto("w_abort")
  /\ dir' = IF f \/ dir["slot"].meta # NoFile \/ dir["slot"].bak = NoFile THEN dir
            ELSE [dir EXCEPT !["slot"].meta = dir["slot"].bak, !["slot"].bak = NoFile]

AbortEdit(f) ==
  /\ Writing("w_abort") /\ Goto("end")
  /\ \E r \in DropsFile(f, dir["slot"].tmp) : dir' = [dir EXCEPT !["slot"].tmp = r.left]

DropKept(f) ==
  /\ Writing("w_done") /\ GotoWith("end", [loc EXCEPT !.ok = TRUE])
  /\ \E r \in DropsFile(f, dir["slot"].bak) : dir' = [dir EXCEPT !["slot"].bak = r.left]

EditLabels == {"w_clear", "w_open", "w_close", "w_old", "w_keep", "w_new", "w_back",
               "w_abort", "w_done"}

\* A call that throws reports the edit as failed and cleans nothing.
EditThrows(f) ==
  /\ f /\ pc \in EditLabels
  /\ Goto("end") /\ UNCHANGED <<dir, op, clock, ack>>

Edit(f) ==
  \/ ClearTemp(f) \/ OpenTemp(f) \/ CloseTemp(f) \/ DropOldBackup(f) \/ KeepOld(f)
  \/ PublishTemp(f) \/ PutBackOld(f) \/ AbortEdit(f) \/ DropKept(f) \/ EditThrows(f)

-----------------------------------------------------------------------------
(* deleteSlot                                                              *)

DeleteSlotDir(f) ==
  /\ pc = "d_slot" /\ UNCHANGED <<op, clock>>
  /\ ack' = [ack EXCEPT !.doomed = TRUE]
  /\ \E r \in Drops(f, dir["slot"]) :
       /\ dir' = [dir EXCEPT !["slot"] = r.left]
       /\ GotoWith("d_comm", [loc EXCEPT !.clean = r.ok])

DeleteStaged(f) ==
  /\ Writing("d_comm") /\ Goto("d_prev")
  /\ \E r \in Drops(f, dir["committing"]) : dir' = [dir EXCEPT !["committing"] = r.left]

DeletePrevious(f) ==
  /\ Writing("d_prev") /\ Goto("d_check")
  /\ \E r \in Drops(f, dir["previous"]) : dir' = [dir EXCEPT !["previous"] = r.left]

\* A mutant: only the slot decides whether the deletion succeeded.
DeleteVerdictSlotOnly(f) ==
  /\ Reading("d_check")
  /\ \E slot \in Exists(f, "slot") : GotoWith("end", [loc EXCEPT !.ok = loc.clean /\ ~slot])

DeleteVerdict(f) ==
  /\ Reading("d_check")
  /\ \E slot \in Exists(f, "slot"), staged \in Exists(f, "committing"),
        prev \in Exists(f, "previous") :
       GotoWith("end", [loc EXCEPT !.ok = loc.clean /\ ~slot /\ ~staged /\ ~prev])

DeleteLabels == {"d_slot", "d_comm", "d_prev", "d_check"}

DeleteThrows(f) ==
  /\ f /\ pc \in DeleteLabels
  /\ Goto("end") /\ UNCHANGED <<dir, op, clock, ack>>

Delete(f) ==
  \/ DeleteSlotDir(f) \/ DeleteStaged(f) \/ DeletePrevious(f) \/ DeleteVerdict(f)
  \/ DeleteThrows(f)

-----------------------------------------------------------------------------
(* The operations themselves.                                              *)

\* InstanceStore.guarded took the package guard; a load is a group reload, which
\* passes over a package it has already seen clean in this process.
Begin(o) ==
  /\ pc = "idle" /\ (o = "load" => ~marked)
  /\ o = "create" => clock = 0
  /\ o \in {"update", "edit", "delete"} => clock > 0
  /\ o \in {"create", "update", "edit"} => clock < MaxClock
  /\ op' = o
  /\ GotoWith("reconcile", [Fresh EXCEPT !.ret = IF o = "load" THEN "end" ELSE "block"])
  /\ UNCHANGED <<dir, clock, ack, marked, budget>>

\* The guarded block ignores what reconcileAll returned, then checks its input.
Block(f) ==
  /\ ~f /\ Reading("block")
  /\ \/ Goto("end")
     \/ op = "create" /\ Goto("clear")
     \/ op = "delete" /\ dir["slot"].here /\ Goto("d_slot")
     \/ /\ op \in {"update", "edit"} /\ MetaReady(dir["slot"])
        /\ Goto(IF op = "update" THEN "clear" ELSE "w_clear")

\* The answer the user gets; the guard is released.  A load marks the package
\* when this id and every other one in it were reconciled.
End ==
  /\ pc = "end" /\ pc' = "idle" /\ op' = "none" /\ loc' = Fresh
  /\ ack' = IF ~loc.ok THEN ack
            ELSE IF op \in {"create", "update"}
                 THEN [ack EXCEPT !.ver = clock, !.meta = clock]
            ELSE IF op = "edit" THEN [ack EXCEPT !.meta = clock]
            ELSE [ack EXCEPT !.gone = TRUE]
  /\ \/ marked' = (marked \/ (op = "load" /\ loc.rec = "done"))
     \/ UNCHANGED marked
  /\ UNCHANGED <<dir, clock, budget>>

-----------------------------------------------------------------------------
(* The environment.                                                        *)

\* The process dies; the directories stay as they are, the mark is lost.
Crash ==
  /\ pc # "idle" /\ budget.crashes < MaxCrashes
  /\ budget' = [budget EXCEPT !.crashes = @ + 1]
  /\ pc' = "idle" /\ op' = "none" /\ loc' = Fresh /\ marked' = FALSE
  /\ UNCHANGED <<dir, clock, ack>>

\* A load that no longer finds the package (its group was removed, and may be
\* registered again) drops the mark.
Forget ==
  /\ pc = "idle" /\ marked /\ marked' = FALSE
  /\ UNCHANGED <<dir, pc, op, loc, clock, ack, budget>>

\* A manifest or metadata file is corrupted while nothing runs.
Damage(d) ==
  /\ pc = "idle" /\ dir[d].here /\ budget.damage < MaxDamage
  /\ budget' = [budget EXCEPT !.damage = @ + 1]
  /\ \/ dir[d].man = "ok" /\ dir' = [dir EXCEPT ![d].man = "bad"]
     \/ Legible(dir[d].meta) /\ dir' = [dir EXCEPT ![d].meta = Torn]
  /\ UNCHANGED <<pc, op, loc, clock, ack, marked>>

Step(f) ==
  /\ UNCHANGED marked
  /\ Block(f) \/ Reconcile(f) \/ PublishCommit(f) \/ Backup(f) \/ Edit(f) \/ Delete(f)
  /\ budget' = [budget EXCEPT !.faults = IF f THEN @ + 1 ELSE @]

Init ==
  /\ dir = [d \in Dirs |-> Absent]
  /\ pc = "idle" /\ op = "none" /\ loc = Fresh /\ clock = 0 /\ marked = FALSE
  /\ ack = [ver |-> 0, meta |-> 0, doomed |-> FALSE, gone |-> FALSE]
  /\ budget = [faults |-> 0, crashes |-> 0, damage |-> 0]

Program == End \/ \E f \in Outages : Step(f)

Next ==
  \/ Program
  \/ \E o \in Ops \cup {"load"} : Begin(o)
  \/ Crash
  \/ Forget
  \/ \E d \in Dirs : Damage(d)

Spec == Init /\ [][Next]_vars

\* A started operation runs on, and groups are loaded again and again, within a
\* process or by the next one.
FairSpec == Spec /\ WF_vars(Program) /\ WF_vars(Begin("load"))

-----------------------------------------------------------------------------
(* Properties                                                              *)

Labels == {"idle", "block", "end", "clear", "stage", "manifest", "final", "settle"}
            \cup ReconcileLabels \cup PublishLabels \cup EditLabels \cup DeleteLabels
Targets == Dirs \cup {"bak", "tmp"}
Local == [ret : {"end", "block", "settle"}, rec : {"none", "done", "pending", "failed"},
          then : {"none", "check", "verify", "sweep"}, resume : {"return", "check", "tidy"},
          src : {"none", "previous", "committing"}, file : {"none", "bak", "tmp"},
          todo : Seq(Targets), clean : BOOLEAN, published : BOOLEAN,
          owns : BOOLEAN, ok : BOOLEAN]

\* Every variable keeps its type: the catalog of the states an id can be in.
TypeOK ==
  /\ dir \in [Dirs -> Content]
  /\ pc \in Labels
  /\ op \in {"none", "load"} \cup Ops
  /\ loc \in Local
  /\ clock \in 0 .. MaxClock /\ marked \in BOOLEAN
  /\ ack \in [ver : 0 .. MaxClock, meta : 0 .. MaxClock, doomed : BOOLEAN, gone : BOOLEAN]
  /\ budget \in [faults : 0 .. MaxFaults, crashes : 0 .. MaxCrashes, damage : 0 .. MaxDamage]

\* The copy the next reconcile will settle on.
Best == IF Ready(dir["slot"]) THEN dir["slot"]
        ELSE IF Ready(dir["previous"]) THEN dir["previous"]
        ELSE IF Ready(dir["committing"]) THEN dir["committing"]
        ELSE Absent

BestVersion == [ver |-> Best.ver, meta |-> ReadMeta(Best)]

\* What the user was told is saved stays recoverable: until a deletion is asked
\* for, the copy the next reconcile keeps has a whole payload, and its payload
\* and metadata are at least as new as the newest acknowledged ones.
Durable ==
  ack.ver > 0 /\ ~ack.doomed =>
    /\ Best.ver >= ack.ver
    /\ ReadMeta(Best) >= ack.meta

\* A reconcile that answers Done to a guarded operation has left one directory:
\* no .committing, no .previous, and a slot that is absent or complete.
DoneMeansOne ==
  pc = "block" /\ loc.rec = "done" =>
    /\ ~dir["committing"].here /\ ~dir["previous"].here
    /\ dir["slot"].here => Ready(dir["slot"]) /\ Legible(dir["slot"].meta)

\* A deletion reported as successful leaves nothing that could come back.
DeletedIsGone == ack.gone => \A d \in Dirs : ~dir[d].here

Whole(c) == Ready(c) /\ c.ver > 0

\* Outside deletion and the clearing of a stale staging directory, a step that
\* destroys a complete recovery copy leaves a complete slot behind.
CopiesOutliveDoubt ==
  [][\A d \in {"previous", "committing"} :
       /\ pc \notin DeleteLabels \cup {"idle", "clear"}
       /\ Whole(dir[d]) /\ ~Whole(dir'[d])
       => Ready(dir'["slot"])]_vars

\* The id implements one register: its value is the copy the next reconcile
\* keeps, which no failed call, crash or reconcile ever replaces by an older one.
Register == INSTANCE BackupRegister WITH
  MaxVersion <- MaxClock,
  value <- BestVersion,
  acked <- [ver |-> ack.ver, meta |-> ack.meta],
  doomed <- ack.doomed
ImplementsRegister == Register!Spec

\* A reconcile replaces the published slot only when it is really unusable: a
\* read that came back undecided never costs a complete slot.
UndecidedKeepsSlot ==
  [][pc = "slot_drop" /\ Ready(dir["slot"]) => UNCHANGED dir]_vars

\* Publishing never loses ground: no step of publishCommit, failed or not, makes
\* the copy the next reconcile keeps older than it was.
PublishNeverDowngrades ==
  [][(pc \in PublishLabels) =>
       Register!Covers(BestVersion', BestVersion)]_vars

\* .committing and .previous that a process finds at its start, or that are there
\* before it has seen the package clean, are gone after some later group load,
\* once outages and crashes stop, unless a deletion is asked for.
Leftover == dir["committing"].here \/ dir["previous"].here
Settles == Leftover /\ ~marked /\ ~ack.doomed ~> ~Leftover \/ ack.doomed
=============================================================================
