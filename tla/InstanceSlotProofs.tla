------------------------- MODULE InstanceSlotProofs -------------------------
(***************************************************************************)
(* InstanceSlot for all bounds, operations and kinds of outage.            *)
(*                                                                         *)
(* Types.  The type invariant is not inductive as it stands: a step jumps  *)
(* to loc.then, moves the directory loc.src and numbers a backup clock + 1, *)
(* so CtlOK adds what the running operation's locals hold at each label.   *)
(*                                                                         *)
(* Deletion.  A deletion reported as successful is final, as long as       *)
(* exists() does not lie: an absent directory holds no files (HereOK), each *)
(* component runs for its own operations only (OpOK), and after a deletion *)
(* control stays where nothing is written (GoneOK).                        *)
(*                                                                         *)
(* Done.  With reliable reads a reconcile that answers Done has swept every *)
(* directory it saw: the sweep's list covers what is there (Covered).      *)
(*                                                                         *)
(* Register.  With truthful reads and undamaged files the id holds its     *)
(* newest whole backup at one place at a time (Held): in the slot, else in *)
(* .previous, else in .committing, and instance.json or its .bak is        *)
(* legible there.  RegOK says where at each label; Durable and the         *)
(* refinement of BackupRegister follow from it.                            *)
(*                                                                         *)
(* Copies.  Under outages of reads and damage that fails; what remains is  *)
(* that an answer which is given is true.  CopyInv and PubInv say what an  *)
(* operation may rely on then: only complete copies are installed or kept  *)
(* aside, and nothing complete is dropped but beside a complete slot.      *)
(***************************************************************************)
EXTENDS InstanceSlot, TLAPS

-----------------------------------------------------------------------------
(* Types.                                                                  *)

Writers == {"create", "update", "edit"}
Results == {"done", "pending", "failed"}

\* The program counter p and the locals l fit together; an operation that will
\* number a backup or a metadata file still has a number left.
CtlOK(p, l, o, n) ==
  /\ p \in Labels /\ l \in Local
  /\ p \in {"meta", "meta_drop", "meta_move", "slot_drop", "install"} => l.then # "none"
  /\ p \in {"slot_drop", "install"} => l.src # "none"
  /\ p \in {"clear", "stage", "w_clear", "w_open"} => n < MaxClock
  /\ o \in Writers /\ (p = "block" \/ (p \in ReconcileLabels /\ l.ret = "block"))
       => n < MaxClock

RestOK ==
  /\ op \in {"none", "load"} \cup Ops
  /\ clock \in 0 .. MaxClock /\ marked \in BOOLEAN
  /\ ack \in [ver : 0 .. MaxClock, meta : 0 .. MaxClock, doomed : BOOLEAN, gone : BOOLEAN]
  /\ budget \in [faults : 0 .. MaxFaults, crashes : 0 .. MaxCrashes, damage : 0 .. MaxDamage]

DirOK == dir \in [Dirs -> Content]
IInv == DirOK /\ CtlOK(pc, loc, op, clock) /\ RestOK

-----------------------------------------------------------------------------
(* Control.                                                                *)

LEMMA TodoOK ==
  /\ <<>> \in Seq(Targets)
  /\ <<"committing">> \in Seq(Targets)
  /\ <<"previous">> \in Seq(Targets)
  /\ <<"bak", "tmp", "previous", "committing">> \in Seq(Targets)
BY DEF Targets, Dirs

LEMMA FreshOK == Fresh \in Local
BY TodoOK DEF Fresh, Local

\* Returning from a reconcile leads back to its caller.
LEMMA ReturnOK ==
  ASSUME CtlOK(pc, loc, op, clock), pc \in ReconcileLabels,
         NEW r \in Results, Return(r)
  PROVE  CtlOK(pc', loc', op, clock)
<1>1. loc' \in Local /\ loc'.ret = loc.ret /\ pc' = loc.ret
  BY FreshOK DEF Return, GotoWith, CtlOK, Local, Fresh, Results
<1>2. loc.ret \in {"end", "block", "settle"}
  BY DEF CtlOK, Local
<1>. QED BY <1>1, <1>2 DEF CtlOK, Labels, ReconcileLabels

\* Moving on inside a reconcile keeps the return label and what it stands for.
LEMMA WithinOK ==
  ASSUME CtlOK(pc, loc, op, clock), pc \in ReconcileLabels,
         NEW p \in ReconcileLabels, NEW l \in Local, GotoWith(p, l), l.ret = loc.ret,
         p \in {"meta", "meta_drop", "meta_move", "slot_drop", "install"} => l.then # "none",
         p \in {"slot_drop", "install"} => l.src # "none"
  PROVE  CtlOK(pc', loc', op, clock)
BY DEF CtlOK, GotoWith, Labels, ReconcileLabels

LEMMA FallbackOK ==
  ASSUME CtlOK(pc, loc, op, clock), pc \in ReconcileLabels,
         NEW after \in {"return", "check", "tidy"}, Fallback(after)
  PROVE  CtlOK(pc', loc', op, clock)
<1>. DEFINE l == [loc EXCEPT !.resume = after]
<1>1. l \in Local /\ l.ret = loc.ret
  BY DEF CtlOK, Local
<1>2. GotoWith("pick", l)
  BY DEF Fallback
<1>. HIDE DEF l
<1>. QED BY <1>1, <1>2, WithinOK DEF ReconcileLabels

LEMMA InstallFromOK ==
  ASSUME CtlOK(pc, loc, op, clock), pc \in ReconcileLabels,
         NEW d \in {"previous", "committing"}, NEW left \in Seq(Targets), InstallFrom(d, left)
  PROVE  CtlOK(pc', loc', op, clock)
<1>. DEFINE l == [loc EXCEPT !.src = d, !.then = "sweep", !.todo = left]
<1>1. l \in Local /\ l.ret = loc.ret /\ l.then = "sweep" /\ l.src = d
  BY DEF CtlOK, Local
<1>2. GotoWith("install", l)
  BY DEF InstallFrom
<1>. HIDE DEF l
<1>. QED BY <1>1, <1>2, WithinOK DEF ReconcileLabels

LEMMA SweepOnlyOK ==
  ASSUME CtlOK(pc, loc, op, clock), pc \in ReconcileLabels,
         NEW left \in Seq(Targets), SweepOnly(left)
  PROVE  CtlOK(pc', loc', op, clock)
<1>. DEFINE l == [loc EXCEPT !.todo = left]
<1>1. l \in Local /\ l.ret = loc.ret
  BY DEF CtlOK, Local
<1>2. GotoWith("sweep", l)
  BY DEF SweepOnly
<1>. HIDE DEF l
<1>. QED BY <1>1, <1>2, WithinOK DEF ReconcileLabels

LEMMA TidyOK ==
  ASSUME CtlOK(pc, loc, op, clock), pc \in ReconcileLabels, Tidy
  PROVE  CtlOK(pc', loc', op, clock)
<1>. DEFINE l == [loc EXCEPT !.todo = <<"bak", "tmp", "previous", "committing">>,
                             !.resume = "return", !.clean = TRUE]
<1>1. l \in Local /\ l.ret = loc.ret
  BY TodoOK DEF CtlOK, Local
<1>2. GotoWith("sweep", l)
  BY DEF Tidy
<1>. HIDE DEF l
<1>. QED BY <1>1, <1>2, WithinOK DEF ReconcileLabels

\* A jump that leaves the locals alone.
LEMMA JumpOK ==
  ASSUME CtlOK(pc, loc, op, clock), pc \in ReconcileLabels,
         NEW p \in ReconcileLabels, Goto(p),
         p \in {"meta", "meta_drop", "meta_move", "slot_drop", "install"} => loc.then # "none",
         p \in {"slot_drop", "install"} => loc.src # "none"
  PROVE  CtlOK(pc', loc', op, clock)
BY DEF CtlOK, Goto, Labels, ReconcileLabels

LEMMA UnrecoveredOK ==
  ASSUME CtlOK(pc, loc, op, clock), pc \in ReconcileLabels, Unrecovered
  PROVE  CtlOK(pc', loc', op, clock)
BY ReturnOK, JumpOK DEF Unrecovered, ReconcileLabels, Results

\* Where recoverMeta goes on.
LEMMA ThenOK ==
  ASSUME CtlOK(pc, loc, op, clock), pc \in {"meta", "meta_drop", "meta_move"},
         Goto(loc.then)
  PROVE  CtlOK(pc', loc', op, clock)
<1>1. loc.then \in {"check", "verify", "sweep"}
  BY DEF CtlOK, Local
<1>. QED BY <1>1, JumpOK DEF ReconcileLabels

-----------------------------------------------------------------------------
(* The steps of a reconcile.                                               *)

LEMMA SurveyCtl ==
  ASSUME CtlOK(pc, loc, op, clock), NEW f \in BOOLEAN, Survey(f)
  PROVE  CtlOK(pc', loc', op, clock)
<1>1. pc = "reconcile" /\ pc \in ReconcileLabels
  BY DEF Survey, Reading, ReconcileLabels
<1>2. CASE SurveySlot(f)
  <2>1. CASE GotoWith("meta", [loc EXCEPT !.then = "check"])
    <3>. DEFINE l == [loc EXCEPT !.then = "check"]
    <3>1. l \in Local /\ l.ret = loc.ret /\ l.then = "check"
      BY DEF CtlOK, Local
    <3>2. GotoWith("meta", l)
      BY <2>1
    <3>. HIDE DEF l
    <3>. QED BY <1>1, <3>1, <3>2, WithinOK DEF ReconcileLabels
  <2>2. CASE Return("pending") \/ Fallback("return")
    BY <1>1, <2>2, ReturnOK, FallbackOK DEF Results
  <2>. QED BY <1>2, <2>1, <2>2 DEF SurveySlot
<1>3. CASE SurveyPrevious(f)
  <2>1. \/ Return("pending") \/ Return("failed")
        \/ InstallFrom("previous", <<"committing">>) \/ InstallFrom("committing", <<"previous">>)
    BY <1>3 DEF SurveyPrevious
  <2>. QED BY <1>1, <2>1, ReturnOK, InstallFromOK, TodoOK DEF Results
<1>4. CASE SurveyStaged(f)
  <2>1. \/ Return("pending") \/ SweepOnly(<<"committing">>) \/ InstallFrom("committing", <<>>)
    BY <1>4 DEF SurveyStaged
  <2>. QED BY <1>1, <2>1, ReturnOK, InstallFromOK, SweepOnlyOK, TodoOK DEF Results
<1>5. CASE Return("done")
  BY <1>1, <1>5, ReturnOK DEF Results
<1>. QED BY <1>2, <1>3, <1>4, <1>5 DEF Survey

LEMMA ReadSlotMetaCtl ==
  ASSUME CtlOK(pc, loc, op, clock), NEW f \in BOOLEAN, ReadSlotMeta(f)
  PROVE  CtlOK(pc', loc', op, clock)
<1>1. pc = "meta" /\ pc \in ReconcileLabels
  BY DEF ReadSlotMeta, Reading, ReconcileLabels
<1>2. ASSUME NEW file \in {"bak", "tmp"}, GotoWith("meta_drop", [loc EXCEPT !.file = file])
      PROVE  CtlOK(pc', loc', op, clock)
  <2>. DEFINE l == [loc EXCEPT !.file = file]
  <2>1. l \in Local /\ l.ret = loc.ret /\ l.then = loc.then /\ loc.then # "none"
    BY <1>1 DEF CtlOK, Local
  <2>2. GotoWith("meta_drop", l)
    BY <1>2
  <2>. HIDE DEF l
  <2>. QED BY <1>1, <2>1, <2>2, WithinOK DEF ReconcileLabels
<1>3. \/ Goto(loc.then) \/ Unrecovered
      \/ \E file \in {"bak", "tmp"} : GotoWith("meta_drop", [loc EXCEPT !.file = file])
  BY DEF ReadSlotMeta
<1>. QED BY <1>1, <1>2, <1>3, ThenOK, UnrecoveredOK

LEMMA DropSlotMetaCtl ==
  ASSUME CtlOK(pc, loc, op, clock), NEW f \in BOOLEAN, DropSlotMeta(f)
  PROVE  CtlOK(pc', loc', op, clock)
<1>1. pc = "meta_drop" /\ pc \in ReconcileLabels /\ loc.then # "none"
  BY DEF DropSlotMeta, Writing, ReconcileLabels, CtlOK
<1>2. Goto("meta_move") \/ Unrecovered
  BY DEF DropSlotMeta
<1>. QED BY <1>1, <1>2, JumpOK, UnrecoveredOK DEF ReconcileLabels

LEMMA RestoreSlotMetaCtl ==
  ASSUME CtlOK(pc, loc, op, clock), NEW f \in BOOLEAN, RestoreSlotMeta(f)
  PROVE  CtlOK(pc', loc', op, clock)
<1>1. pc = "meta_move" /\ pc \in ReconcileLabels
  BY DEF RestoreSlotMeta, Writing, ReconcileLabels
<1>2. Goto(loc.then) \/ Unrecovered
  BY DEF RestoreSlotMeta
<1>. QED BY <1>1, <1>2, ThenOK, UnrecoveredOK

LEMMA DoubtCheckCtl ==
  ASSUME CtlOK(pc, loc, op, clock), NEW f \in BOOLEAN, DoubtSlotMeta(f) \/ CheckSlot(f)
  PROVE  CtlOK(pc', loc', op, clock)
<1>1. pc \in ReconcileLabels
  BY DEF DoubtSlotMeta, CheckSlot, Reading, ReconcileLabels
<1>2. Return("pending") \/ Fallback("check") \/ Fallback("tidy") \/ Tidy
  BY DEF DoubtSlotMeta, CheckSlot
<1>. QED BY <1>1, <1>2, ReturnOK, FallbackOK, TidyOK DEF Results

LEMMA PickFallbackCtl ==
  ASSUME CtlOK(pc, loc, op, clock), NEW f \in BOOLEAN, PickFallback(f)
  PROVE  CtlOK(pc', loc', op, clock)
<1>1. pc \in ReconcileLabels
  BY DEF PickFallback, Reading, ReconcileLabels
<1>2. ASSUME NEW d \in {"previous", "committing"},
             GotoWith("slot_drop", [loc EXCEPT !.src = d, !.then = "verify"])
      PROVE  CtlOK(pc', loc', op, clock)
  <2>. DEFINE l == [loc EXCEPT !.src = d, !.then = "verify"]
  <2>1. l \in Local /\ l.ret = loc.ret /\ l.then = "verify" /\ l.src = d
    BY DEF CtlOK, Local
  <2>2. GotoWith("slot_drop", l)
    BY <1>2
  <2>. HIDE DEF l
  <2>. QED BY <1>1, <2>1, <2>2, WithinOK DEF ReconcileLabels
<1>3. \/ Return("pending") \/ Return("failed")
      \/ \E d \in {"previous", "committing"} :
           GotoWith("slot_drop", [loc EXCEPT !.src = d, !.then = "verify"])
  BY DEF PickFallback
<1>. QED BY <1>1, <1>2, <1>3, ReturnOK DEF Results

LEMMA InstallCtl ==
  ASSUME CtlOK(pc, loc, op, clock), NEW f \in BOOLEAN, DropSlot(f) \/ Install(f)
  PROVE  CtlOK(pc', loc', op, clock)
<1>1. pc \in ReconcileLabels /\ loc.then # "none" /\ loc.src # "none"
  BY DEF DropSlot, Install, Writing, ReconcileLabels, CtlOK
<1>2. Goto("install") \/ Goto("meta") \/ Return("failed")
  BY DEF DropSlot, Install
<1>. QED BY <1>1, <1>2, JumpOK, ReturnOK DEF ReconcileLabels, Results

LEMMA VerifyInstalledCtl ==
  ASSUME CtlOK(pc, loc, op, clock), NEW f \in BOOLEAN, VerifyInstalled(f)
  PROVE  CtlOK(pc', loc', op, clock)
<1>1. pc \in ReconcileLabels
  BY DEF VerifyInstalled, Reading, ReconcileLabels
<1>2. Return("failed") \/ SweepOnly(<<"committing">>) \/ SweepOnly(<<"previous">>)
  BY DEF VerifyInstalled
<1>. QED BY <1>1, <1>2, ReturnOK, SweepOnlyOK, TodoOK DEF Results

\* Each target swept is one of the directories or metadata copies.
LEMMA SweepCtl ==
  ASSUME CtlOK(pc, loc, op, clock), NEW f \in BOOLEAN, Sweep(f)
  PROVE  CtlOK(pc', loc', op, clock)
<1>1. pc \in ReconcileLabels /\ loc \in Local
  BY DEF Sweep, Writing, ReconcileLabels, CtlOK
<1>2. PICK ok : GotoWith("sweep", [loc EXCEPT !.todo = Tail(@), !.clean = @ /\ ok])
  BY DEF Sweep
<1>. DEFINE l == [loc EXCEPT !.todo = Tail(@), !.clean = @ /\ ok]
<1>3. loc.todo \in Seq(Targets) /\ loc.todo # <<>>
  BY <1>1 DEF Local, Sweep
<1>4. Tail(loc.todo) \in Seq(Targets) /\ (loc.clean /\ ok) \in BOOLEAN
  BY <1>3
<1>5. l \in Local /\ l.ret = loc.ret
  BY <1>1, <1>4 DEF Local
<1>6. GotoWith("sweep", l)
  BY <1>2
<1>. HIDE DEF l
<1>. QED BY <1>1, <1>5, <1>6, WithinOK DEF ReconcileLabels

LEMMA SweepDoneCtl ==
  ASSUME CtlOK(pc, loc, op, clock), NEW f \in BOOLEAN, SweepDone(f)
  PROVE  CtlOK(pc', loc', op, clock)
<1>1. pc \in ReconcileLabels
  BY DEF SweepDone, Reading, ReconcileLabels
<1>2. Return("pending") \/ Return("done") \/ Goto("check") \/ Tidy
  BY DEF SweepDone
<1>. QED BY <1>1, <1>2, ReturnOK, JumpOK, TidyOK DEF ReconcileLabels, Results

LEMMA ReconcileCtl ==
  ASSUME CtlOK(pc, loc, op, clock), NEW f \in BOOLEAN, Reconcile(f)
  PROVE  CtlOK(pc', loc', op, clock')
<1>1. UNCHANGED clock
  BY DEF Reconcile, Survey, ReadSlotMeta, DropSlotMeta, RestoreSlotMeta, DoubtSlotMeta,
         CheckSlot, PickFallback, DropSlot, Install, VerifyInstalled, Sweep, SweepDone,
         ReconcileThrows, Reading, Writing
<1>2. CASE ReconcileThrows(f)
  BY <1>1, <1>2, ReturnOK DEF ReconcileThrows, Results
<1>3. CASE Survey(f) \/ ReadSlotMeta(f) \/ DropSlotMeta(f) \/ RestoreSlotMeta(f)
  BY <1>1, <1>3, SurveyCtl, ReadSlotMetaCtl, DropSlotMetaCtl, RestoreSlotMetaCtl
<1>4. CASE DoubtSlotMeta(f) \/ CheckSlot(f) \/ PickFallback(f) \/ DropSlot(f) \/ Install(f)
  BY <1>1, <1>4, DoubtCheckCtl, PickFallbackCtl, InstallCtl
<1>5. CASE VerifyInstalled(f) \/ Sweep(f) \/ SweepDone(f)
  BY <1>1, <1>5, VerifyInstalledCtl, SweepCtl, SweepDoneCtl
<1>. QED BY <1>2, <1>3, <1>4, <1>5 DEF Reconcile

-----------------------------------------------------------------------------
(* What reads answer and mutations leave.                                  *)

LEMMA SeesOK == \A f, t, x : Sees(f, t, x) \subseteq {t, x}
BY DEF Sees

LEMMA FileOK == NoFile \in File /\ Torn \in File /\ 0 \in 0 .. MaxClock
BY BoundsAssumption DEF File, NoFile, Torn

LEMMA RemnantsOK ==
  ASSUME NEW c \in Content, NEW x \in Remnants(c)
  PROVE  x \in Content
<1>1. \A b \in {c.man, "none"} : b \in {"none", "bad", "ok"}
  BY DEF Content
<1>2. {c.ver, 0} \subseteq 0 .. MaxClock
  BY FileOK DEF Content
<1>3. {c.meta, NoFile} \subseteq File /\ {c.bak, NoFile} \subseteq File
      /\ {c.tmp, NoFile} \subseteq File
  BY FileOK DEF Content
<1>. QED BY <1>1, <1>2, <1>3 DEF Content, Remnants

LEMMA AbsentOK == Absent \in Content
BY BoundsAssumption DEF Absent, Content, File, NoFile, Torn

\* A delete leaves the directory, part of it, or nothing; and gives a verdict.
LEMMA DropsOK ==
  ASSUME NEW f \in BOOLEAN, NEW c \in Content, NEW r \in Drops(f, c)
  PROVE  r.left \in Content /\ r.ok \in BOOLEAN
<1>. DEFINE Outcome == [left : Content, ok : BOOLEAN]
<1>1. [left |-> Absent, ok |-> TRUE] \in Outcome
  BY AbsentOK
<1>2. Remnants(c) \subseteq Content /\ Sees(f, FALSE, TRUE) \subseteq BOOLEAN
  BY RemnantsOK, SeesOK
<1>3. [left : Remnants(c), ok : {FALSE}] \subseteq Outcome
  BY <1>2
<1>4. [left : {c}, ok : Sees(f, FALSE, TRUE)] \subseteq Outcome
  BY <1>2
<1>5. r \in Outcome
  <2>. HIDE DEF Outcome
  <2>. QED BY <1>1, <1>3, <1>4 DEF Drops
<1>. QED BY <1>5

LEMMA DropsFileOK ==
  ASSUME NEW f \in BOOLEAN, NEW file \in File, NEW r \in DropsFile(f, file)
  PROVE  r.left \in File /\ r.ok \in BOOLEAN
<1>. DEFINE Outcome == [left : File, ok : BOOLEAN]
<1>1. [left |-> NoFile, ok |-> TRUE] \in Outcome
  BY FileOK
<1>2. Sees(f, FALSE, TRUE) \subseteq BOOLEAN
  BY SeesOK
<1>3. [left : {file}, ok : Sees(f, FALSE, TRUE)] \subseteq Outcome
  BY <1>2
<1>4. r \in Outcome
  <2>. HIDE DEF Outcome
  <2>. QED BY <1>1, <1>3 DEF DropsFile
<1>. QED BY <1>4

LEMMA MovedOK ==
  ASSUME DirOK, NEW a \in Dirs, NEW b \in Dirs
  PROVE  Moved(a, b) \in [Dirs -> Content]
BY AbsentOK DEF DirOK, Moved

-----------------------------------------------------------------------------
(* The steps of publishCommit, a backup, an edit and a deletion.           *)

\* The labels that ask nothing of the locals or of the clock.
Easy == Labels \ (ReconcileLabels \cup {"block", "clear", "stage", "w_clear", "w_open"})

LEMMA EasyOK ==
  ASSUME NEW p \in Easy, NEW l \in Local, GotoWith(p, l)
  PROVE  CtlOK(pc', loc', op, clock')
BY DEF CtlOK, GotoWith, Easy, ReconcileLabels

LEMMA EasyGoto ==
  ASSUME CtlOK(pc, loc, op, clock), NEW p \in Easy, Goto(p)
  PROVE  CtlOK(pc', loc', op, clock')
BY EasyOK DEF CtlOK, Goto, GotoWith

LEMMA EasyLabels ==
  /\ PublishLabels \subseteq Easy /\ DeleteLabels \subseteq Easy
  /\ {"idle", "end", "final", "settle", "manifest"} \subseteq Easy
  /\ EditLabels \ {"w_clear", "w_open"} \subseteq Easy
BY DEF PublishLabels, DeleteLabels, EditLabels, Easy, Labels, ReconcileLabels

LEMMA PublishCtl ==
  ASSUME CtlOK(pc, loc, op, clock), NEW f \in BOOLEAN, PublishCommit(f)
  PROVE  CtlOK(pc', loc', op, clock')
<1>1. CASE PublishTidy(f)
  <2>1. PICK b \in BOOLEAN : GotoWith("final", [loc EXCEPT !.published = b])
    <3>1. \A slot, staged : (slot /\ ~staged) \in BOOLEAN
      OBVIOUS
    <3>. QED BY <1>1, <3>1 DEF PublishTidy
  <2>2. [loc EXCEPT !.published = b] \in Local
    BY DEF CtlOK, Local
  <2>. QED BY <2>1, <2>2, EasyLabels, EasyOK
<1>2. CASE ~PublishTidy(f)
  <2>1. \E p \in PublishLabels \cup {"final"} : Goto(p)
    BY <1>2 DEF PublishCommit, PublishCheck, DropStalePrevious, DropBadSlot,
       BringBackPrevious, MoveSlotAside, MoveCommitIn, UndoMoveAside, PublishThrows,
       NotPublished, PublishLabels
  <2>. QED BY <2>1, EasyLabels, EasyGoto
<1>. QED BY <1>1, <1>2

LEMMA EditCtl ==
  ASSUME CtlOK(pc, loc, op, clock), NEW f \in BOOLEAN, Edit(f)
  PROVE  CtlOK(pc', loc', op, clock')
<1>1. CASE ClearTemp(f)
  <2>1. pc = "w_clear" /\ clock < MaxClock /\ UNCHANGED clock /\ loc \in Local
    BY <1>1 DEF ClearTemp, Writing, CtlOK
  <2>2. CASE Goto("w_open")
    BY <2>1, <2>2 DEF CtlOK, Goto, Labels, EditLabels, ReconcileLabels
  <2>3. CASE Goto("end")
    BY <2>3, EasyLabels, EasyGoto
  <2>. QED BY <1>1, <2>2, <2>3 DEF ClearTemp
<1>2. CASE DropKept(f)
  <2>1. [loc EXCEPT !.ok = TRUE] \in Local
    BY DEF CtlOK, Local
  <2>. QED BY <1>2, <2>1, EasyLabels, EasyOK DEF DropKept
<1>3. CASE ~ClearTemp(f) /\ ~DropKept(f)
  <2>1. \E p \in (EditLabels \ {"w_clear", "w_open"}) \cup {"end"} : Goto(p)
    BY <1>3 DEF Edit, OpenTemp, CloseTemp, DropOldBackup, KeepOld, PublishTemp, PutBackOld,
       AbortEdit, EditThrows, EditLabels
  <2>. QED BY <2>1, EasyLabels, EasyGoto
<1>. QED BY <1>1, <1>2, <1>3

LEMMA DeleteCtl ==
  ASSUME CtlOK(pc, loc, op, clock), NEW f \in BOOLEAN, Delete(f), DirOK
  PROVE  CtlOK(pc', loc', op, clock')
<1>1. CASE DeleteSlotDir(f)
  <2>1. PICK b \in BOOLEAN : GotoWith("d_comm", [loc EXCEPT !.clean = b])
    BY <1>1, SeesOK, DropsOK DEF DeleteSlotDir, DirOK, Dirs
  <2>2. [loc EXCEPT !.clean = b] \in Local
    BY DEF CtlOK, Local
  <2>. QED BY <2>1, <2>2, EasyLabels, EasyOK DEF DeleteLabels
<1>2. CASE DeleteVerdict(f)
  <2>1. PICK b \in BOOLEAN : GotoWith("end", [loc EXCEPT !.ok = b])
    <3>1. \A slot, staged, prev : (loc.clean /\ ~slot /\ ~staged /\ ~prev) \in BOOLEAN
      OBVIOUS
    <3>. QED BY <1>2, <3>1 DEF DeleteVerdict
  <2>2. [loc EXCEPT !.ok = b] \in Local
    BY DEF CtlOK, Local
  <2>. QED BY <2>1, <2>2, EasyLabels, EasyOK
<1>3. CASE ~DeleteSlotDir(f) /\ ~DeleteVerdict(f)
  <2>1. \E p \in DeleteLabels \cup {"end"} : Goto(p)
    BY <1>3 DEF Delete, DeleteStaged, DeletePrevious, DeleteThrows, DeleteLabels
  <2>. QED BY <2>1, EasyLabels, EasyGoto
<1>. QED BY <1>1, <1>2, <1>3

\* A backup numbers what it stages once, with a number left by Begin.
LEMMA BackupCtl ==
  ASSUME CtlOK(pc, loc, op, clock), clock \in 0 .. MaxClock, NEW f \in BOOLEAN, Backup(f)
  PROVE  CtlOK(pc', loc', op, clock')
<1>1. CASE ClearStaging(f)
  <2>1. pc = "clear" /\ clock < MaxClock /\ UNCHANGED clock /\ loc \in Local
    BY <1>1 DEF ClearStaging, Writing, CtlOK
  <2>2. CASE Goto("stage")
    BY <2>1, <2>2 DEF CtlOK, Goto, Labels, ReconcileLabels
  <2>3. CASE Goto("end")
    BY <2>3, EasyLabels, EasyGoto
  <2>. QED BY <1>1, <2>2, <2>3 DEF ClearStaging
<1>2. CASE Stage(f)
  <2>1. [loc EXCEPT !.owns = TRUE] \in Local
    BY DEF CtlOK, Local
  <2>2. Goto("final") \/ GotoWith("manifest", [loc EXCEPT !.owns = TRUE])
    BY <1>2 DEF Stage
  <2>. QED BY <2>1, <2>2, EasyLabels, EasyOK, EasyGoto
<1>3. CASE NameManifest(f)
  <2>1. Goto("final") \/ Goto("pub")
    BY <1>3 DEF NameManifest, NotPublished
  <2>. QED BY <2>1, EasyLabels, EasyGoto DEF PublishLabels
<1>4. CASE BackupFinally(f)
  <2>1. UNCHANGED clock
    BY <1>4 DEF BackupFinally, Reading
  <2>2. [loc EXCEPT !.ret = "settle"] \in Local
    BY DEF CtlOK, Local
  <2>3. CASE GotoWith("reconcile", [loc EXCEPT !.ret = "settle"])
    BY <2>1, <2>2, <2>3 DEF CtlOK, GotoWith, Labels, ReconcileLabels, Local
  <2>4. ASSUME NEW r \in Results, GotoWith("settle", [loc EXCEPT !.rec = r])
        PROVE  CtlOK(pc', loc', op, clock')
    <3>1. [loc EXCEPT !.rec = r] \in Local
      BY DEF CtlOK, Local, Results
    <3>. QED BY <2>4, <3>1, EasyLabels, EasyOK
  <2>. QED BY <1>4, <2>3, <2>4 DEF BackupFinally, Results
<1>5. CASE BackupVerdict(f)
  <2>1. PICK b \in BOOLEAN : GotoWith("end", [loc EXCEPT !.ok = b])
    <3>1. (loc.published /\ loc.rec # "failed") \in BOOLEAN
      OBVIOUS
    <3>. QED BY <1>5, <3>1 DEF BackupVerdict
  <2>2. [loc EXCEPT !.ok = b] \in Local
    BY DEF CtlOK, Local
  <2>. QED BY <2>1, <2>2, EasyLabels, EasyOK
<1>. QED BY <1>1, <1>2, <1>3, <1>4, <1>5 DEF Backup

-----------------------------------------------------------------------------
(* The directories.                                                        *)

\* Replacing one directory, or one file of the slot, by something of its type.
LEMMA PutOK ==
  ASSUME DirOK
  PROVE  /\ \A d \in Dirs, c \in Content : [dir EXCEPT ![d] = c] \in [Dirs -> Content]
         /\ \A x \in File : [dir EXCEPT !["slot"].meta = x] \in [Dirs -> Content]
         /\ \A x \in File : [dir EXCEPT !["slot"].bak = x] \in [Dirs -> Content]
         /\ \A x \in File : [dir EXCEPT !["slot"].tmp = x] \in [Dirs -> Content]
         /\ dir["slot"].meta \in File /\ dir["slot"].bak \in File /\ dir["slot"].tmp \in File
         /\ \A d \in Dirs : dir[d] \in Content
         /\ "slot" \in Dirs /\ "committing" \in Dirs /\ "previous" \in Dirs
BY DEF DirOK, Content, Dirs

LEMMA ReconcileDir ==
  ASSUME DirOK, CtlOK(pc, loc, op, clock), NEW f \in BOOLEAN, Reconcile(f)
  PROVE  DirOK'
<1>1. CASE DropSlotMeta(f)
  <2>1. PICK r \in DropsFile(f, dir["slot"].meta) : dir' = [dir EXCEPT !["slot"].meta = r.left]
    BY <1>1 DEF DropSlotMeta
  <2>. QED BY <2>1, PutOK, DropsFileOK DEF DirOK
<1>2. CASE RestoreSlotMeta(f)
  <2>1. CASE dir' = [dir EXCEPT !["slot"].meta = dir["slot"].bak, !["slot"].bak = NoFile]
    BY <2>1, FileOK DEF DirOK, Content, Dirs
  <2>2. CASE dir' = [dir EXCEPT !["slot"].meta = dir["slot"].tmp, !["slot"].tmp = NoFile]
    BY <2>2, FileOK DEF DirOK, Content, Dirs
  <2>. QED BY <1>2, <2>1, <2>2 DEF RestoreSlotMeta, DirOK
<1>3. CASE DropSlot(f)
  <2>1. PICK r \in Drops(f, dir["slot"]) : dir' = [dir EXCEPT !["slot"] = r.left]
    BY <1>3 DEF DropSlot
  <2>. QED BY <2>1, PutOK, DropsOK DEF DirOK
<1>4. CASE Install(f)
  <2>1. loc.src \in {"previous", "committing"}
    BY <1>4 DEF Install, Writing, CtlOK, Local
  <2>2. Moved(loc.src, "slot") \in [Dirs -> Content]
    BY <2>1, MovedOK DEF Dirs
  <2>. QED BY <1>4, <2>2 DEF Install, DirOK
<1>5. CASE Sweep(f)
  <2>1. \/ \E d \in Dirs : \E r \in Drops(f, dir[d]) : dir' = [dir EXCEPT ![d] = r.left]
        \/ \E r \in DropsFile(f, dir["slot"].bak) : dir' = [dir EXCEPT !["slot"].bak = r.left]
        \/ \E r \in DropsFile(f, dir["slot"].tmp) : dir' = [dir EXCEPT !["slot"].tmp = r.left]
    BY <1>5 DEF Sweep
  <2>2. ASSUME NEW d \in Dirs, NEW r \in Drops(f, dir[d]), dir' = [dir EXCEPT ![d] = r.left]
        PROVE  DirOK'
    BY <2>2, PutOK, DropsOK DEF DirOK
  <2>3. ASSUME NEW r \in DropsFile(f, dir["slot"].bak), dir' = [dir EXCEPT !["slot"].bak = r.left]
        PROVE  DirOK'
    BY <2>3, PutOK, DropsFileOK DEF DirOK
  <2>4. ASSUME NEW r \in DropsFile(f, dir["slot"].tmp), dir' = [dir EXCEPT !["slot"].tmp = r.left]
        PROVE  DirOK'
    BY <2>4, PutOK, DropsFileOK DEF DirOK
  <2>. QED BY <2>1, <2>2, <2>3, <2>4
<1>6. CASE UNCHANGED dir
  BY <1>6 DEF DirOK
<1>7. \/ UNCHANGED dir \/ DropSlotMeta(f) \/ RestoreSlotMeta(f) \/ DropSlot(f)
      \/ Install(f) \/ Sweep(f)
  BY DEF Reconcile, Survey, ReadSlotMeta, DoubtSlotMeta, CheckSlot, PickFallback,
         VerifyInstalled, SweepDone, ReconcileThrows, Reading
<1>. QED BY <1>1, <1>2, <1>3, <1>4, <1>5, <1>6, <1>7

\* Dropping one of the three directories, whatever the step then decides.
LEMMA DropDir ==
  ASSUME DirOK, NEW f \in BOOLEAN, NEW d \in Dirs,
         \E r \in Drops(f, dir[d]) : dir' = [dir EXCEPT ![d] = r.left]
  PROVE  DirOK'
<1>1. PICK r \in Drops(f, dir[d]) : dir' = [dir EXCEPT ![d] = r.left]
  OBVIOUS
<1>. QED BY <1>1, PutOK, DropsOK DEF DirOK

LEMMA PublishDir ==
  ASSUME DirOK, NEW f \in BOOLEAN, PublishCommit(f)
  PROVE  DirOK'
<1>1. \/ UNCHANGED dir
      \/ \E d \in Dirs : \E r \in Drops(f, dir[d]) : dir' = [dir EXCEPT ![d] = r.left]
      \/ \E a, b \in Dirs : dir' = Moved(a, b)
  BY DEF PublishCommit, PublishCheck, DropStalePrevious, DropBadSlot, BringBackPrevious,
     MoveSlotAside, MoveCommitIn, UndoMoveAside, PublishTidy, PublishThrows, Reading, Dirs
<1>2. CASE \E a, b \in Dirs : dir' = Moved(a, b)
  BY <1>2, MovedOK DEF DirOK
<1>. QED BY <1>1, <1>2, DropDir DEF DirOK

LEMMA DeleteDir ==
  ASSUME DirOK, NEW f \in BOOLEAN, Delete(f)
  PROVE  DirOK'
<1>1. \/ UNCHANGED dir
      \/ \E d \in Dirs : \E r \in Drops(f, dir[d]) : dir' = [dir EXCEPT ![d] = r.left]
  BY DEF Delete, DeleteSlotDir, DeleteStaged, DeletePrevious, DeleteVerdict, DeleteThrows,
     Reading, Dirs
<1>. QED BY <1>1, DropDir DEF DirOK

LEMMA BackupDir ==
  ASSUME DirOK, CtlOK(pc, loc, op, clock), clock \in 0 .. MaxClock, NEW f \in BOOLEAN, Backup(f)
  PROVE  DirOK' /\ clock' \in 0 .. MaxClock
<1>1. CASE ClearStaging(f)
  BY <1>1, DropDir DEF ClearStaging, Writing, Dirs
<1>2. CASE Stage(f)
  <2>1. clock + 1 \in 0 .. MaxClock
    BY <1>2, BoundsAssumption DEF Stage, CtlOK
  <2>2. Staged(clock + 1) \in Content
    BY <2>1, FileOK, BoundsAssumption DEF Staged, Content, File, Torn
  <2>3. [dir EXCEPT !["committing"] = Staged(clock + 1)] \in [Dirs -> Content]
    BY <2>2, PutOK
  <2>. QED BY <1>2, <2>1, <2>3 DEF Stage, DirOK
<1>3. CASE NameManifest(f)
  <2>1. [dir EXCEPT !["committing"].man = "ok"] \in [Dirs -> Content]
    BY DEF DirOK, Content, Dirs
  <2>. QED BY <1>3, <2>1 DEF NameManifest, Writing, DirOK
<1>4. CASE BackupFinally(f) \/ BackupVerdict(f)
  BY <1>4 DEF BackupFinally, BackupVerdict, Reading, DirOK
<1>. QED BY <1>1, <1>2, <1>3, <1>4 DEF Backup

LEMMA EditDir ==
  ASSUME DirOK, CtlOK(pc, loc, op, clock), clock \in 0 .. MaxClock, NEW f \in BOOLEAN, Edit(f)
  PROVE  DirOK' /\ clock' \in 0 .. MaxClock
<1>1. CASE OpenTemp(f)
  <2>1. clock + 1 \in 0 .. MaxClock
    BY <1>1, BoundsAssumption DEF OpenTemp, CtlOK
  <2>. QED BY <1>1, <2>1, PutOK, FileOK DEF OpenTemp, DirOK
<1>2. CASE CloseTemp(f)
  <2>1. clock \in File
    BY BoundsAssumption DEF File, Torn
  <2>. QED BY <1>2, <2>1, PutOK DEF CloseTemp, Writing, DirOK
<1>3. CASE KeepOld(f) \/ PublishTemp(f) \/ PutBackOld(f)
  <2>1. /\ [dir EXCEPT !["slot"].bak = dir["slot"].meta, !["slot"].meta = NoFile] \in [Dirs -> Content]
        /\ [dir EXCEPT !["slot"].meta = dir["slot"].tmp, !["slot"].tmp = NoFile] \in [Dirs -> Content]
        /\ [dir EXCEPT !["slot"].meta = dir["slot"].bak, !["slot"].bak = NoFile] \in [Dirs -> Content]
    BY FileOK DEF DirOK, Content, Dirs
  <2>. QED BY <1>3, <2>1 DEF KeepOld, PublishTemp, PutBackOld, Writing, DirOK
<1>4. CASE ClearTemp(f) \/ DropOldBackup(f) \/ AbortEdit(f) \/ DropKept(f)
  <2>1. /\ UNCHANGED clock
        /\ \/ UNCHANGED dir
           \/ \E r \in DropsFile(f, dir["slot"].tmp) : dir' = [dir EXCEPT !["slot"].tmp = r.left]
           \/ \E r \in DropsFile(f, dir["slot"].bak) : dir' = [dir EXCEPT !["slot"].bak = r.left]
    BY <1>4 DEF ClearTemp, DropOldBackup, AbortEdit, DropKept, Writing
  <2>2. CASE \E r \in DropsFile(f, dir["slot"].tmp) : dir' = [dir EXCEPT !["slot"].tmp = r.left]
    BY <2>1, <2>2, PutOK, DropsFileOK DEF DirOK
  <2>3. CASE \E r \in DropsFile(f, dir["slot"].bak) : dir' = [dir EXCEPT !["slot"].bak = r.left]
    BY <2>1, <2>3, PutOK, DropsFileOK DEF DirOK
  <2>. QED BY <2>1, <2>2, <2>3 DEF DirOK
<1>5. CASE EditThrows(f)
  BY <1>5 DEF EditThrows, DirOK
<1>. QED BY <1>1, <1>2, <1>3, <1>4, <1>5 DEF Edit

-----------------------------------------------------------------------------
(* The whole.                                                              *)

LEMMA BeginOK ==
  ASSUME IInv, NEW o \in Ops \cup {"load"}, Begin(o)
  PROVE  IInv'
<1>. DEFINE l == [Fresh EXCEPT !.ret = IF o = "load" THEN "end" ELSE "block"]
<1>1. l \in Local
  BY FreshOK DEF Local
<1>2. pc' = "reconcile" /\ loc' = l /\ op' = o /\ UNCHANGED <<dir, clock, ack, marked, budget>>
  BY DEF Begin, GotoWith
<1>. HIDE DEF l
<1>3. clock \in 0 .. MaxClock /\ (o \in Writers => clock < MaxClock)
  BY DEF Begin, Writers, IInv, RestOK
<1>4. CtlOK(pc', loc', op', clock')
  BY <1>1, <1>2, <1>3 DEF CtlOK, Labels, ReconcileLabels
<1>. QED BY <1>2, <1>4 DEF IInv, DirOK, RestOK

LEMMA BlockCtl ==
  ASSUME CtlOK(pc, loc, op, clock), NEW f \in BOOLEAN, Block(f)
  PROVE  CtlOK(pc', loc', op, clock')
<1>1. pc = "block" /\ UNCHANGED clock /\ loc \in Local
  BY DEF Block, Reading, CtlOK
<1>2. CASE Goto("end") \/ Goto("d_slot")
  BY <1>2, EasyLabels, EasyGoto DEF DeleteLabels
<1>3. CASE op \in Writers /\ (Goto("clear") \/ Goto("w_clear"))
  BY <1>1, <1>3 DEF CtlOK, Goto, Labels, EditLabels, ReconcileLabels
<1>. QED BY <1>2, <1>3 DEF Block, Writers

\* What a component leaves alone: the operation, what was answered, the numbering.
LEMMA ReconcileFrame == \A f : Reconcile(f) => UNCHANGED <<op, clock, ack>>
BY DEF Reconcile, Survey, ReadSlotMeta, DropSlotMeta, RestoreSlotMeta, DoubtSlotMeta,
       CheckSlot, PickFallback, DropSlot, Install, VerifyInstalled, Sweep, SweepDone,
       ReconcileThrows, Reading, Writing

LEMMA PublishFrame == \A f : PublishCommit(f) => UNCHANGED <<op, clock, ack>>
BY DEF PublishCommit, PublishCheck, DropStalePrevious, DropBadSlot, BringBackPrevious,
       MoveSlotAside, MoveCommitIn, UndoMoveAside, PublishTidy, PublishThrows, Reading, Writing

LEMMA BackupFrame == \A f : Backup(f) => UNCHANGED <<op, ack>>
BY DEF Backup, ClearStaging, Stage, NameManifest, BackupFinally, BackupVerdict, Reading, Writing

LEMMA EditFrame == \A f : Edit(f) => UNCHANGED <<op, ack>>
BY DEF Edit, ClearTemp, OpenTemp, CloseTemp, DropOldBackup, KeepOld, PublishTemp, PutBackOld,
       AbortEdit, DropKept, EditThrows, Reading, Writing

\* A deletion's first step ends the promise that was made for the id.
LEMMA DeleteFrame ==
  \A f : Delete(f) => /\ UNCHANGED <<op, clock>>
                      /\ ack' \in {ack, [ack EXCEPT !.doomed = TRUE]}
BY DEF Delete, DeleteSlotDir, DeleteStaged, DeletePrevious, DeleteVerdict, DeleteThrows,
       Reading, Writing

LEMMA StepOK ==
  ASSUME IInv, NEW f \in Outages, Step(f)
  PROVE  IInv'
<1>1. f \in BOOLEAN /\ clock \in 0 .. MaxClock /\ CtlOK(pc, loc, op, clock) /\ DirOK
  BY DEF Outages, IInv, RestOK
<1>2. DirOK' /\ clock' \in 0 .. MaxClock /\ CtlOK(pc', loc', op, clock')
  <2>1. CASE Block(f)
    BY <1>1, <2>1, BlockCtl DEF Block, Reading, DirOK
  <2>2. CASE Reconcile(f)
    BY <1>1, <2>2, ReconcileFrame, ReconcileCtl, ReconcileDir
  <2>3. CASE PublishCommit(f)
    BY <1>1, <2>3, PublishFrame, PublishCtl, PublishDir
  <2>4. CASE Backup(f)
    BY <1>1, <2>4, BackupCtl, BackupDir
  <2>5. CASE Edit(f)
    BY <1>1, <2>5, EditCtl, EditDir
  <2>6. CASE Delete(f)
    BY <1>1, <2>6, DeleteFrame, DeleteCtl, DeleteDir
  <2>. QED BY <2>1, <2>2, <2>3, <2>4, <2>5, <2>6 DEF Step
<1>3. UNCHANGED <<op, marked>> /\ ack' \in {ack, [ack EXCEPT !.doomed = TRUE]}
  BY ReconcileFrame, PublishFrame, BackupFrame, EditFrame, DeleteFrame DEF Step, Block, Reading
<1>4. ack' \in [ver : 0 .. MaxClock, meta : 0 .. MaxClock, doomed : BOOLEAN, gone : BOOLEAN]
  BY <1>3 DEF IInv, RestOK
<1>5. budget' \in [faults : 0 .. MaxFaults, crashes : 0 .. MaxCrashes, damage : 0 .. MaxDamage]
  <2>1. f => budget.faults < MaxFaults
    BY DEF Outages
  <2>2. budget.faults \in 0 .. MaxFaults /\ (f => budget.faults + 1 \in 0 .. MaxFaults)
    BY <2>1, BoundsAssumption DEF IInv, RestOK
  <2>3. budget' = [budget EXCEPT !.faults = IF f THEN budget.faults + 1 ELSE budget.faults]
    BY DEF Step
  <2>. QED BY <2>2, <2>3 DEF IInv, RestOK
<1>. QED BY <1>2, <1>3, <1>4, <1>5 DEF IInv, RestOK

LEMMA EndOK ==
  ASSUME IInv, End
  PROVE  IInv'
<1>1. clock \in 0 .. MaxClock /\ marked' \in BOOLEAN
  BY DEF End, IInv, RestOK
<1>2. ack' \in {ack, [ack EXCEPT !.ver = clock, !.meta = clock], [ack EXCEPT !.meta = clock],
                [ack EXCEPT !.gone = TRUE]}
  BY DEF End
<1>3. CtlOK(pc', loc', op', clock')
  BY FreshOK, EasyLabels, EasyOK DEF End, CtlOK, Labels, ReconcileLabels
<1>. QED BY <1>1, <1>2, <1>3 DEF End, IInv, DirOK, RestOK

LEMMA EnvironmentOK ==
  ASSUME IInv, Crash \/ Forget \/ \E d \in Dirs : Damage(d)
  PROVE  IInv'
<1>1. CASE Crash
  <2>1. CtlOK(pc', loc', op', clock')
    BY <1>1, FreshOK DEF Crash, CtlOK, Labels, ReconcileLabels
  <2>2. budget' \in [faults : 0 .. MaxFaults, crashes : 0 .. MaxCrashes, damage : 0 .. MaxDamage]
    BY <1>1, BoundsAssumption DEF Crash, IInv, RestOK
  <2>. QED BY <1>1, <2>1, <2>2 DEF Crash, IInv, DirOK, RestOK
<1>2. CASE Forget
  BY <1>2 DEF Forget, IInv, CtlOK, DirOK, RestOK
<1>3. ASSUME NEW d \in Dirs, Damage(d) PROVE IInv'
  <2>1. DirOK'
    BY <1>3, FileOK DEF Damage, DirOK, Content, IInv
  <2>2. budget' \in [faults : 0 .. MaxFaults, crashes : 0 .. MaxCrashes, damage : 0 .. MaxDamage]
    BY <1>3, BoundsAssumption DEF Damage, IInv, RestOK
  <2>. QED BY <1>3, <2>1, <2>2 DEF Damage, IInv, CtlOK, RestOK
<1>. QED BY <1>1, <1>2, <1>3

LEMMA InitOK == Init => IInv
<1>. SUFFICES ASSUME Init PROVE IInv
  OBVIOUS
<1>1. DirOK
  BY AbsentOK DEF Init, DirOK
<1>2. CtlOK(pc, loc, op, clock)
  BY FreshOK DEF Init, CtlOK, Labels, ReconcileLabels
<1>3. RestOK
  <2>1. 0 \in 0 .. MaxClock /\ 0 \in 0 .. MaxFaults /\ 0 \in 0 .. MaxCrashes
        /\ 0 \in 0 .. MaxDamage
    BY BoundsAssumption
  <2>. QED BY <2>1 DEF Init, RestOK
<1>. QED BY <1>1, <1>2, <1>3 DEF IInv

LEMMA NextOK == IInv /\ [Next]_vars => IInv'
<1>. SUFFICES ASSUME IInv, [Next]_vars PROVE IInv'
  OBVIOUS
<1>1. CASE UNCHANGED vars
  BY <1>1 DEF vars, IInv, DirOK, CtlOK, RestOK
<1>2. CASE Next
  BY <1>2, EndOK, StepOK, BeginOK, EnvironmentOK DEF Next, Program
<1>. QED BY <1>1, <1>2

\* Whatever the bounds and outages, an operation only ever jumps to its labels,
\* moves directories that exist and numbers at most MaxClock backups.
THEOREM TypeCorrect == Spec => []TypeOK
<1>1. IInv => TypeOK
  BY DEF IInv, DirOK, CtlOK, RestOK, TypeOK
<1>. QED BY <1>1, InitOK, NextOK, PTL DEF Spec

-----------------------------------------------------------------------------
(* Deletion.                                                               *)

AllAbsent == \A d \in Dirs : dir[d] = Absent

HereOK ==
  /\ \A d \in Dirs : ~dir[d].here => dir[d] = Absent
  /\ pc \in {"w_clear", "w_open", "w_close"} => dir["slot"].here
  /\ pc = "manifest" => dir["committing"].here

BackupLabels == {"clear", "stage", "manifest", "final", "settle"} \cup PublishLabels

OpOK ==
  /\ pc \in EditLabels => op = "edit"
  /\ pc \in BackupLabels => op \in {"create", "update"}
  /\ pc \in ReconcileLabels /\ loc.ret = "settle" => op \in {"create", "update"}
  /\ pc \in DeleteLabels => op = "delete"
  /\ loc.ok => pc = "end"
  /\ op = "delete" => clock > 0

GoneOK ==
  /\ pc = "end" /\ loc.ok /\ op \notin Writers => AllAbsent /\ clock > 0
  /\ ack.gone => /\ AllAbsent /\ clock > 0 /\ op # "create"
                 /\ pc \in {"idle", "reconcile", "block", "end"}
                 /\ pc = "reconcile" => loc.ret # "settle"

-----------------------------------------------------------------------------
(* Control inside a reconcile.                                             *)

Shape == /\ pc' \in ReconcileLabels \cup {loc.ret}
         /\ loc'.ret = loc.ret /\ loc'.ok \in {loc.ok, FALSE}
         /\ loc'.published = loc.published

LEMMA ReturnShape == \A r : loc \in Local /\ Return(r) => Shape /\ pc' = loc.ret /\ loc'.ok = FALSE
BY DEF Return, GotoWith, Shape, Fresh

LEMMA ReconcileShape ==
  ASSUME CtlOK(pc, loc, op, clock), NEW f \in BOOLEAN, Reconcile(f)
  PROVE  Shape
<1>1. loc \in Local /\ pc \in ReconcileLabels
  BY DEF CtlOK, Reconcile, Survey, ReadSlotMeta, DropSlotMeta, RestoreSlotMeta, DoubtSlotMeta,
       CheckSlot, PickFallback, DropSlot, Install, VerifyInstalled, Sweep, SweepDone,
       ReconcileThrows, Reading, Writing, ReconcileLabels
<1>2. CASE \E r : Return(r)
  BY <1>1, <1>2, ReturnShape
<1>3. CASE \E p \in ReconcileLabels : Goto(p)
  BY <1>1, <1>3 DEF Goto, Shape
<1>4. CASE Goto(loc.then) /\ pc \in {"meta", "meta_move"}
  <2>1. loc.then \in {"check", "verify", "sweep"}
    BY <1>4 DEF CtlOK, Local
  <2>. QED BY <1>4, <2>1 DEF Goto, Shape, ReconcileLabels
<1>5. CASE \/ Fallback("return") \/ Fallback("check") \/ Fallback("tidy") \/ Tidy
           \/ \E left : SweepOnly(left) \/ \E d : InstallFrom(d, left)
  BY <1>1, <1>5 DEF Fallback, Tidy, SweepOnly, InstallFrom, GotoWith, Shape, Local,
     ReconcileLabels
<1>6. CASE \/ GotoWith("meta", [loc EXCEPT !.then = "check"])
           \/ \E file : GotoWith("meta_drop", [loc EXCEPT !.file = file])
           \/ \E d : GotoWith("slot_drop", [loc EXCEPT !.src = d, !.then = "verify"])
           \/ \E ok : GotoWith("sweep", [loc EXCEPT !.todo = Tail(@), !.clean = @ /\ ok])
  BY <1>1, <1>6 DEF GotoWith, Shape, Local, ReconcileLabels
<1>. QED BY <1>2, <1>3, <1>4, <1>5, <1>6
     DEF Reconcile, Survey, SurveySlot, SurveyPrevious, SurveyStaged, ReadSlotMeta,
         DropSlotMeta, RestoreSlotMeta, DoubtSlotMeta, CheckSlot, PickFallback, DropSlot,
         Install, VerifyInstalled, Sweep, SweepDone, ReconcileThrows, Unrecovered, Reading,
         Writing, ReconcileLabels

-----------------------------------------------------------------------------
(* An absent directory holds no files.                                     *)

Tidied == \A d \in Dirs : ~dir[d].here => dir[d] = Absent

\* What a delete leaves of a directory is the directory, or nothing at all.
LEMMA DropsTidy ==
  ASSUME NEW f \in BOOLEAN, NEW c \in Content, ~c.here => c = Absent, NEW r \in Drops(f, c)
  PROVE  r.left.here = FALSE => r.left = Absent
<1>1. \/ r.left = Absent
      \/ r.left \in Remnants(c)
      \/ r.left = c
  <2>1. \/ r = [left |-> Absent, ok |-> TRUE]
        \/ r \in [left : Remnants(c), ok : {FALSE}]
        \/ r \in [left : {c}, ok : Sees(f, FALSE, TRUE)]
    BY DEF Drops
  <2>2. CASE r = [left |-> Absent, ok |-> TRUE]
    BY <2>2
  <2>3. CASE r \in [left : Remnants(c), ok : {FALSE}]
    BY <2>3
  <2>4. CASE r \in [left : {c}, ok : Sees(f, FALSE, TRUE)]
    BY <2>4
  <2>. QED BY <2>1, <2>2, <2>3, <2>4
<1>2. CASE r.left \in Remnants(c)
  BY <1>2 DEF Remnants
<1>. QED BY <1>1, <1>2

LEMMA DropTidied ==
  ASSUME DirOK, Tidied, NEW f \in BOOLEAN, NEW d \in Dirs,
         \E r \in Drops(f, dir[d]) : dir' = [dir EXCEPT ![d] = r.left]
  PROVE  Tidied'
<1>1. PICK r \in Drops(f, dir[d]) : dir' = [dir EXCEPT ![d] = r.left]
  OBVIOUS
<1>2. dir[d] \in Content /\ (~dir[d].here => dir[d] = Absent)
  BY DEF DirOK, Tidied
<1>3. r.left \in Content /\ (r.left.here = FALSE => r.left = Absent)
  BY <1>2, DropsOK, DropsTidy
<1>4. r.left.here \in BOOLEAN
  BY <1>3 DEF Content
<1>. QED BY <1>1, <1>3, <1>4 DEF Tidied, DirOK

\* A step that only rewrites files of the slot, and leaves an absent slot absent.
LEMMA SlotTidied ==
  ASSUME DirOK, Tidied, NEW c \in Content, dir' = [dir EXCEPT !["slot"] = c],
         c.here = dir["slot"].here, dir["slot"] = Absent => c = Absent
  PROVE  Tidied' /\ dir'["slot"].here = dir["slot"].here
BY DEF Tidied, DirOK, Dirs

LEMMA ContentEqual ==
  ASSUME NEW x \in Content, NEW y \in Content, x.here = y.here, x.man = y.man, x.ver = y.ver,
         x.meta = y.meta, x.bak = y.bak, x.tmp = y.tmp
  PROVE  x = y
BY DEF Content

\* Emptying files, or moving one over another, does nothing to an absent slot.
LEMMA FilesOf ==
  ASSUME NEW x \in Content,
         NEW c \in {[x EXCEPT !.meta = y] : y \in {x.meta, NoFile}}
             \cup {[x EXCEPT !.bak = y] : y \in {x.bak, NoFile}}
             \cup {[x EXCEPT !.tmp = y] : y \in {x.tmp, NoFile}}
             \cup {[x EXCEPT !.meta = x.bak, !.bak = NoFile]}
             \cup {[x EXCEPT !.meta = x.tmp, !.tmp = NoFile]}
             \cup {[x EXCEPT !.bak = x.meta, !.meta = NoFile]}
  PROVE  c \in Content /\ c.here = x.here /\ (x = Absent => c = Absent)
<1>1. c \in Content /\ c.here = x.here /\ c.man = x.man /\ c.ver = x.ver
  BY FileOK DEF Content
<1>2. ASSUME x = Absent PROVE c = Absent
  <2>1. x.meta = NoFile /\ x.bak = NoFile /\ x.tmp = NoFile
    BY <1>2 DEF Absent
  <2>2. c.meta = NoFile /\ c.bak = NoFile /\ c.tmp = NoFile
    BY <2>1 DEF Content
  <2>. QED BY <1>1, <1>2, <2>1, <2>2, AbsentOK, ContentEqual
<1>. QED BY <1>1, <1>2

\* Dropping a metadata copy of an absent slot changes nothing.
LEMMA FileTidied ==
  ASSUME DirOK, Tidied, NEW f \in BOOLEAN,
         \/ \E r \in DropsFile(f, dir["slot"].meta) : dir' = [dir EXCEPT !["slot"].meta = r.left]
         \/ \E r \in DropsFile(f, dir["slot"].bak) : dir' = [dir EXCEPT !["slot"].bak = r.left]
         \/ \E r \in DropsFile(f, dir["slot"].tmp) : dir' = [dir EXCEPT !["slot"].tmp = r.left]
  PROVE  Tidied' /\ dir'["slot"].here = dir["slot"].here
<1>1. \A file \in File : \A r \in DropsFile(f, file) : r.left \in {file, NoFile}
  <2>. SUFFICES ASSUME NEW file \in File, NEW r \in DropsFile(f, file)
                PROVE  r.left \in {file, NoFile}
    OBVIOUS
  <2>1. \/ r = [left |-> NoFile, ok |-> TRUE]
        \/ r \in [left : {file}, ok : Sees(f, FALSE, TRUE)]
    BY DEF DropsFile
  <2>2. CASE r = [left |-> NoFile, ok |-> TRUE]
    BY <2>2
  <2>3. CASE r \in [left : {file}, ok : Sees(f, FALSE, TRUE)]
    BY <2>3
  <2>. QED BY <2>1, <2>2, <2>3
<1>2. \/ \E x \in {dir["slot"].meta, NoFile} : dir' = [dir EXCEPT !["slot"].meta = x]
      \/ \E x \in {dir["slot"].bak, NoFile} : dir' = [dir EXCEPT !["slot"].bak = x]
      \/ \E x \in {dir["slot"].tmp, NoFile} : dir' = [dir EXCEPT !["slot"].tmp = x]
  BY <1>1, PutOK
<1>3. PICK c \in {[dir["slot"] EXCEPT !.meta = x] : x \in {dir["slot"].meta, NoFile}}
             \cup {[dir["slot"] EXCEPT !.bak = x] : x \in {dir["slot"].bak, NoFile}}
             \cup {[dir["slot"] EXCEPT !.tmp = x] : x \in {dir["slot"].tmp, NoFile}} :
        dir' = [dir EXCEPT !["slot"] = c]
  BY <1>2 DEF DirOK, Dirs
<1>4. c \in Content /\ c.here = dir["slot"].here /\ (dir["slot"] = Absent => c = Absent)
  BY FilesOf, PutOK
<1>. QED BY <1>3, <1>4, SlotTidied

LEMMA MovedTidied ==
  ASSUME DirOK, Tidied, NEW a \in Dirs, NEW b \in Dirs, dir' = Moved(a, b)
  PROVE  Tidied'
BY DEF DirOK, Tidied, Moved, Absent

LEMMA ReconcileTidied ==
  ASSUME IInv, Tidied, NEW f \in BOOLEAN, Reconcile(f)
  PROVE  Tidied'
<1>1. DirOK /\ CtlOK(pc, loc, op, clock)
  BY DEF IInv
<1>2. CASE DropSlotMeta(f) \/ DropSlot(f)
  BY <1>1, <1>2, DropTidied, FileTidied, PutOK DEF DropSlotMeta, DropSlot
<1>3. CASE RestoreSlotMeta(f)
  <2>1. \/ UNCHANGED dir
        \/ dir' = [dir EXCEPT !["slot"].meta = dir["slot"].bak, !["slot"].bak = NoFile]
        \/ dir' = [dir EXCEPT !["slot"].meta = dir["slot"].tmp, !["slot"].tmp = NoFile]
    BY <1>3 DEF RestoreSlotMeta
  <2>2. ASSUME ~UNCHANGED dir PROVE Tidied'
    <3>1. PICK c \in {[dir["slot"] EXCEPT !.meta = dir["slot"].bak, !.bak = NoFile],
                      [dir["slot"] EXCEPT !.meta = dir["slot"].tmp, !.tmp = NoFile]} :
            dir' = [dir EXCEPT !["slot"] = c]
      BY <1>1, <2>1, <2>2 DEF DirOK, Dirs
    <3>2. c \in Content /\ c.here = dir["slot"].here /\ (dir["slot"] = Absent => c = Absent)
      BY <1>1, FilesOf, PutOK
    <3>. QED BY <1>1, <3>1, <3>2, SlotTidied
  <2>. QED BY <2>1, <2>2 DEF Tidied
<1>4. CASE Install(f)
  <2>1. loc.src \in Dirs /\ "slot" \in Dirs
    BY <1>1, <1>4 DEF Install, Writing, CtlOK, Local, Dirs
  <2>. QED BY <1>1, <1>4, <2>1, MovedTidied DEF Install, Tidied
<1>5. CASE Sweep(f)
  <2>1. \/ \E d \in Dirs : \E r \in Drops(f, dir[d]) : dir' = [dir EXCEPT ![d] = r.left]
        \/ \E r \in DropsFile(f, dir["slot"].bak) : dir' = [dir EXCEPT !["slot"].bak = r.left]
        \/ \E r \in DropsFile(f, dir["slot"].tmp) : dir' = [dir EXCEPT !["slot"].tmp = r.left]
    BY <1>5 DEF Sweep
  <2>. QED BY <1>1, <2>1, DropTidied, FileTidied
<1>6. \/ UNCHANGED dir \/ DropSlotMeta(f) \/ RestoreSlotMeta(f) \/ DropSlot(f)
      \/ Install(f) \/ Sweep(f)
  BY DEF Reconcile, Survey, ReadSlotMeta, DoubtSlotMeta, CheckSlot, PickFallback,
         VerifyInstalled, SweepDone, ReconcileThrows, Reading
<1>. QED BY <1>2, <1>3, <1>4, <1>5, <1>6 DEF Tidied

LEMMA PublishTidied ==
  ASSUME DirOK, Tidied, NEW f \in BOOLEAN, PublishCommit(f)
  PROVE  Tidied'
<1>1. \/ UNCHANGED dir
      \/ \E d \in Dirs : \E r \in Drops(f, dir[d]) : dir' = [dir EXCEPT ![d] = r.left]
      \/ \E a, b \in Dirs : dir' = Moved(a, b)
  BY DEF PublishCommit, PublishCheck, DropStalePrevious, DropBadSlot, BringBackPrevious,
     MoveSlotAside, MoveCommitIn, UndoMoveAside, PublishTidy, PublishThrows, Reading, Dirs
<1>. QED BY <1>1, DropTidied, MovedTidied DEF Tidied

LEMMA DeleteTidied ==
  ASSUME DirOK, Tidied, NEW f \in BOOLEAN, Delete(f)
  PROVE  Tidied'
<1>1. \/ UNCHANGED dir
      \/ \E d \in Dirs : \E r \in Drops(f, dir[d]) : dir' = [dir EXCEPT ![d] = r.left]
  BY DEF Delete, DeleteSlotDir, DeleteStaged, DeletePrevious, DeleteVerdict, DeleteThrows,
     Reading, Dirs
<1>. QED BY <1>1, DropTidied DEF Tidied

\* What is staged is a directory, and stays one while its manifest is named.
LEMMA BackupHere ==
  ASSUME DirOK, HereOK, NEW f \in BOOLEAN, Backup(f)
  PROVE  Tidied' /\ (pc' = "manifest" => dir'["committing"].here)
<1>1. CASE ClearStaging(f)
  BY <1>1, DropTidied, PutOK DEF ClearStaging, HereOK, Tidied, Goto
<1>2. CASE Stage(f)
  BY <1>2 DEF Stage, Staged, HereOK, Tidied, DirOK, Dirs, Goto, GotoWith
<1>3. CASE NameManifest(f)
  <2>1. dir["committing"].here /\ pc' # "manifest"
    BY <1>3 DEF NameManifest, Writing, HereOK, NotPublished, Goto
  <2>2. CASE UNCHANGED dir
    BY <2>1, <2>2 DEF HereOK, Tidied
  <2>3. CASE dir' = [dir EXCEPT !["committing"].man = "ok"]
    <3>1. dir'["committing"].here = dir["committing"].here
      BY <2>3 DEF DirOK, Content, Dirs
    <3>2. \A d \in Dirs : d # "committing" => dir'[d] = dir[d]
      BY <2>3 DEF DirOK
    <3>. QED BY <2>1, <3>1, <3>2 DEF HereOK, Tidied
  <2>. QED BY <1>3, <2>2, <2>3 DEF NameManifest
<1>4. CASE BackupFinally(f) \/ BackupVerdict(f)
  BY <1>4 DEF BackupFinally, BackupVerdict, Reading, HereOK, Tidied, GotoWith
<1>. QED BY <1>1, <1>2, <1>3, <1>4 DEF Backup

\* An edit writes into a slot that is there.
LEMMA EditHere ==
  ASSUME DirOK, HereOK, NEW f \in BOOLEAN, Edit(f)
  PROVE  Tidied' /\ (pc' \in {"w_open", "w_close"} => dir'["slot"].here) /\ pc' # "w_clear"
<1>1. CASE OpenTemp(f) \/ CloseTemp(f)
  <2>1. dir["slot"].here /\ pc' \in {"end", "w_close", "w_old"}
    BY <1>1 DEF OpenTemp, CloseTemp, Writing, HereOK, Goto
  <2>2. PICK x : dir' = [dir EXCEPT !["slot"].tmp = x]
    BY <1>1 DEF OpenTemp, CloseTemp
  <2>3. dir'["slot"].here = dir["slot"].here
    BY <2>2 DEF DirOK, Content, Dirs
  <2>4. \A d \in Dirs : d # "slot" => dir'[d] = dir[d]
    BY <2>2 DEF DirOK
  <2>. QED BY <2>1, <2>3, <2>4 DEF HereOK, Tidied
<1>2. CASE KeepOld(f) \/ PublishTemp(f) \/ PutBackOld(f)
  <2>1. pc' \notin {"w_clear", "w_open", "w_close"}
    BY <1>2 DEF KeepOld, PublishTemp, PutBackOld, Goto
  <2>2. ASSUME ~UNCHANGED dir PROVE Tidied'
    <3>1. PICK c \in {[dir["slot"] EXCEPT !.bak = dir["slot"].meta, !.meta = NoFile],
                      [dir["slot"] EXCEPT !.meta = dir["slot"].tmp, !.tmp = NoFile],
                      [dir["slot"] EXCEPT !.meta = dir["slot"].bak, !.bak = NoFile]} :
            dir' = [dir EXCEPT !["slot"] = c]
      BY <1>2, <2>2 DEF KeepOld, PublishTemp, PutBackOld, DirOK, Dirs
    <3>2. c \in Content /\ c.here = dir["slot"].here /\ (dir["slot"] = Absent => c = Absent)
      BY FilesOf, PutOK
    <3>. QED BY <3>1, <3>2, SlotTidied DEF HereOK, Tidied
  <2>. QED BY <2>1, <2>2 DEF HereOK, Tidied
<1>3. CASE ClearTemp(f)
  <2>1. pc = "w_clear" /\ pc' \in {"w_open", "end"}
    BY <1>3 DEF ClearTemp, Writing, Goto
  <2>2. Tidied' /\ dir'["slot"].here = dir["slot"].here
    BY <1>3, FileTidied DEF ClearTemp, HereOK, Tidied
  <2>. QED BY <2>1, <2>2 DEF HereOK
<1>4. CASE DropOldBackup(f) \/ AbortEdit(f) \/ DropKept(f)
  <2>1. pc' \notin {"w_clear", "w_open", "w_close"}
    BY <1>4 DEF DropOldBackup, AbortEdit, DropKept, Goto, GotoWith
  <2>2. \/ UNCHANGED dir
        \/ \E r \in DropsFile(f, dir["slot"].tmp) : dir' = [dir EXCEPT !["slot"].tmp = r.left]
        \/ \E r \in DropsFile(f, dir["slot"].bak) : dir' = [dir EXCEPT !["slot"].bak = r.left]
    BY <1>4 DEF DropOldBackup, AbortEdit, DropKept
  <2>. QED BY <2>1, <2>2, FileTidied DEF HereOK, Tidied
<1>5. CASE EditThrows(f)
  BY <1>5 DEF EditThrows, HereOK, Tidied, Goto
<1>. QED BY <1>1, <1>2, <1>3, <1>4, <1>5 DEF Edit

-----------------------------------------------------------------------------
(* Each component leads to its own labels, and success is its last word.   *)

Verdicts(f) == BackupVerdict(f) \/ DropKept(f) \/ DeleteVerdict(f)

LEMMA ComponentShape ==
  ASSUME IInv, OpOK, NEW f \in BOOLEAN,
         Block(f) \/ Reconcile(f) \/ PublishCommit(f) \/ Backup(f) \/ Edit(f) \/ Delete(f)
  PROVE  /\ ~loc.ok /\ (loc'.ok => Verdicts(f) /\ pc' = "end")
         /\ pc \notin {"idle", "end"}
<1>1. loc \in Local
  BY DEF IInv, CtlOK
<1>2. pc \notin {"idle", "end"}
  BY DEF Block, Reconcile, PublishCommit, Backup, Edit, Delete, Survey, ReadSlotMeta,
     DropSlotMeta, RestoreSlotMeta, DoubtSlotMeta, CheckSlot, PickFallback, DropSlot, Install,
     VerifyInstalled, Sweep, SweepDone, ReconcileThrows, PublishCheck, DropStalePrevious,
     DropBadSlot, BringBackPrevious, MoveSlotAside, MoveCommitIn, UndoMoveAside, PublishTidy,
     PublishThrows, ClearStaging, Stage, NameManifest, BackupFinally, BackupVerdict,
     ClearTemp, OpenTemp, CloseTemp, DropOldBackup, KeepOld, PublishTemp, PutBackOld,
     AbortEdit, DropKept, EditThrows, DeleteSlotDir, DeleteStaged, DeletePrevious,
     DeleteVerdict, DeleteThrows, Reading, Writing, ReconcileLabels, PublishLabels,
     EditLabels, DeleteLabels
<1>3. ~loc.ok
  BY <1>2 DEF OpOK
<1>4. CASE Reconcile(f)
  BY <1>2, <1>3, <1>4, ReconcileShape DEF Shape, IInv
<1>5. CASE Block(f)
  BY <1>2, <1>3, <1>5 DEF Block, Goto
<1>6. CASE PublishCommit(f)
  <2>1. UNCHANGED loc \/ \E b : loc' = [loc EXCEPT !.published = b]
    BY <1>6 DEF PublishCommit, PublishCheck, DropStalePrevious, DropBadSlot,
       BringBackPrevious, MoveSlotAside, MoveCommitIn, UndoMoveAside, PublishTidy,
       PublishThrows, NotPublished, Goto, GotoWith
  <2>. QED BY <1>1, <1>2, <1>3, <2>1 DEF Local
<1>7. CASE Backup(f) /\ ~BackupVerdict(f)
  <2>1. \/ UNCHANGED loc \/ loc' = [loc EXCEPT !.owns = TRUE]
        \/ loc' = [loc EXCEPT !.ret = "settle"] \/ \E r : loc' = [loc EXCEPT !.rec = r]
    BY <1>7 DEF Backup, ClearStaging, Stage, NameManifest, BackupFinally, NotPublished, Goto,
       GotoWith
  <2>. QED BY <1>1, <1>2, <1>3, <2>1 DEF Local
<1>8. CASE Edit(f) /\ ~DropKept(f)
  BY <1>2, <1>3, <1>8 DEF Edit, ClearTemp, OpenTemp, CloseTemp, DropOldBackup, KeepOld,
     PublishTemp, PutBackOld, AbortEdit, EditThrows, Goto
<1>9. CASE Delete(f) /\ ~DeleteVerdict(f)
  <2>1. UNCHANGED loc \/ \E b : loc' = [loc EXCEPT !.clean = b]
    BY <1>9 DEF Delete, DeleteSlotDir, DeleteStaged, DeletePrevious, DeleteThrows, Goto,
       GotoWith
  <2>. QED BY <1>1, <1>2, <1>3, <2>1 DEF Local
<1>10. CASE Verdicts(f)
  BY <1>2, <1>3, <1>10 DEF Verdicts, BackupVerdict, DropKept, DeleteVerdict, GotoWith
<1>. QED BY <1>4, <1>5, <1>6, <1>7, <1>8, <1>9, <1>10 DEF Verdicts

\* The labels and operations each component runs under, and leads to.
LEMMA ComponentLabels ==
  ASSUME IInv, NEW f \in BOOLEAN
  PROVE  /\ Reconcile(f) => /\ pc \in ReconcileLabels
                            /\ pc' \in ReconcileLabels \cup {loc.ret} /\ loc'.ret = loc.ret
         /\ PublishCommit(f) => pc \in PublishLabels /\ pc' \in PublishLabels \cup {"final"}
         /\ Backup(f) => /\ pc \in BackupLabels
                         /\ pc' \in {"stage", "end", "final", "manifest", "pub", "settle", "reconcile"}
         /\ Edit(f) => pc \in EditLabels /\ pc' \in EditLabels \cup {"end"}
         /\ Delete(f) => pc \in DeleteLabels /\ pc' \in DeleteLabels \cup {"end"}
<1>1. Reconcile(f) => pc \in ReconcileLabels
  BY DEF Reconcile, Survey, ReadSlotMeta, DropSlotMeta, RestoreSlotMeta, DoubtSlotMeta,
       CheckSlot, PickFallback, DropSlot, Install, VerifyInstalled, Sweep, SweepDone,
       ReconcileThrows, Reading, Writing, ReconcileLabels
<1>2. Reconcile(f) => Shape
  BY ReconcileShape DEF IInv
<1>3. PublishCommit(f) => pc \in PublishLabels /\ pc' \in PublishLabels \cup {"final"}
  BY DEF PublishCommit, PublishCheck, DropStalePrevious, DropBadSlot, BringBackPrevious,
     MoveSlotAside, MoveCommitIn, UndoMoveAside, PublishTidy, PublishThrows, NotPublished,
     Goto, GotoWith, Reading, Writing, PublishLabels
<1>4. Backup(f) => /\ pc \in BackupLabels
                   /\ pc' \in {"stage", "end", "final", "manifest", "pub", "settle", "reconcile"}
  BY DEF Backup, ClearStaging, Stage, NameManifest, BackupFinally, BackupVerdict,
     NotPublished, Goto, GotoWith, Reading, Writing, BackupLabels
<1>5. Edit(f) => pc \in EditLabels /\ pc' \in EditLabels \cup {"end"}
  BY DEF Edit, ClearTemp, OpenTemp, CloseTemp, DropOldBackup, KeepOld, PublishTemp,
     PutBackOld, AbortEdit, DropKept, EditThrows, Goto, GotoWith, Reading, Writing, EditLabels
<1>6. Delete(f) => pc \in DeleteLabels /\ pc' \in DeleteLabels \cup {"end"}
  BY DEF Delete, DeleteSlotDir, DeleteStaged, DeletePrevious, DeleteVerdict, DeleteThrows,
     Goto, GotoWith, Reading, Writing, DeleteLabels
<1>. QED BY <1>1, <1>2, <1>3, <1>4, <1>5, <1>6 DEF Shape

LEMMA BlockLabels ==
  ASSUME NEW f \in BOOLEAN, Block(f)
  PROVE  /\ pc = "block" /\ UNCHANGED <<dir, clock>>
         /\ \/ pc' = "end"
            \/ pc' = "clear" /\ op \in {"create", "update"}
            \/ pc' = "w_clear" /\ op = "edit"
            \/ pc' = "d_slot" /\ op = "delete" /\ dir["slot"].here
         /\ pc' \in {"clear", "w_clear"} => op = "create" \/ MetaReady(dir["slot"])
BY DEF Block, Goto, Reading

LEMMA AbsentUnreadable == ~MetaReady(Absent)
BY DEF MetaReady, Legible, Absent, NoFile

LEMMA HereStep ==
  ASSUME IInv, HereOK, OpOK, NEW f \in Outages, Step(f)
  PROVE  HereOK'
<1>1. f \in BOOLEAN /\ DirOK /\ Tidied /\ loc.ret \in {"end", "block", "settle"}
  BY DEF Outages, IInv, HereOK, Tidied, CtlOK, Local
<1>2. CASE Block(f)
  <2>1. pc' = "w_clear" => dir["slot"].here
    BY <1>1, <1>2, BlockLabels, AbsentUnreadable, PutOK DEF Tidied
  <2>. QED BY <1>1, <1>2, <2>1, BlockLabels DEF HereOK, Tidied
<1>3. CASE Reconcile(f)
  BY <1>1, <1>3, ReconcileTidied, ComponentLabels DEF HereOK, Tidied, ReconcileLabels
<1>4. CASE PublishCommit(f)
  BY <1>1, <1>4, PublishTidied, ComponentLabels DEF HereOK, Tidied, PublishLabels
<1>5. CASE Backup(f)
  BY <1>1, <1>5, BackupHere, ComponentLabels DEF HereOK, Tidied
<1>6. CASE Edit(f)
  BY <1>1, <1>6, EditHere, ComponentLabels DEF HereOK, Tidied, EditLabels
<1>7. CASE Delete(f)
  BY <1>1, <1>7, DeleteTidied, ComponentLabels DEF HereOK, Tidied, DeleteLabels
<1>. QED BY <1>2, <1>3, <1>4, <1>5, <1>6, <1>7 DEF Step

LEMMA OpStep ==
  ASSUME IInv, OpOK, NEW f \in Outages, Step(f)
  PROVE  OpOK'
<1>1. f \in BOOLEAN /\ loc.ret \in {"end", "block", "settle"}
  BY DEF Outages, IInv, CtlOK, Local
<1>2. op' = op /\ (loc'.ok => pc' = "end")
  BY <1>1, ComponentShape, ReconcileFrame, PublishFrame, BackupFrame, EditFrame, DeleteFrame
     DEF Step, Block, Reading
<1>3. op = "delete" => clock' > 0
  <2>1. CASE Backup(f) \/ Edit(f)
    BY <1>1, <2>1, ComponentLabels DEF OpOK
  <2>2. CASE ~(Backup(f) \/ Edit(f))
    BY <1>1, <2>2, ReconcileFrame, PublishFrame, DeleteFrame DEF Step, Block, Reading, OpOK
  <2>. QED BY <2>1, <2>2
<1>. DEFINE Flow == /\ pc' \in EditLabels => op = "edit"
                    /\ pc' \in BackupLabels => op \in {"create", "update"}
                    /\ pc' \in ReconcileLabels /\ loc'.ret = "settle" => op \in {"create", "update"}
                    /\ pc' \in DeleteLabels => op = "delete"
<1>4. Flow
  <2>1. CASE Block(f)
    BY <1>1, <2>1, BlockLabels DEF EditLabels, DeleteLabels, BackupLabels, PublishLabels,
       ReconcileLabels
  <2>2. CASE Reconcile(f)
    BY <1>1, <2>2, ComponentLabels DEF OpOK, EditLabels, DeleteLabels, BackupLabels,
       PublishLabels, ReconcileLabels
  <2>3. CASE PublishCommit(f)
    BY <1>1, <2>3, ComponentLabels DEF OpOK, EditLabels, DeleteLabels, BackupLabels,
       PublishLabels, ReconcileLabels
  <2>4. CASE Backup(f)
    BY <1>1, <2>4, ComponentLabels DEF OpOK, EditLabels, DeleteLabels, BackupLabels,
       PublishLabels, ReconcileLabels
  <2>5. CASE Edit(f)
    BY <1>1, <2>5, ComponentLabels DEF OpOK, EditLabels, DeleteLabels, BackupLabels,
       PublishLabels, ReconcileLabels
  <2>6. CASE Delete(f)
    BY <1>1, <2>6, ComponentLabels DEF OpOK, EditLabels, DeleteLabels, BackupLabels,
       PublishLabels, ReconcileLabels
  <2>. QED BY <2>1, <2>2, <2>3, <2>4, <2>5, <2>6 DEF Step
<1>. QED BY <1>2, <1>3, <1>4 DEF OpOK

-----------------------------------------------------------------------------
(* After a deletion.                                                       *)

\* The verdict of a deletion is what exists() says of the three directories.
LEMMA VerdictMeansAbsent ==
  ASSUME ~ReadFaults, DirOK, Tidied, loc \in Local, NEW f \in BOOLEAN, DeleteVerdict(f), loc'.ok
  PROVE  \A d \in Dirs : dir'[d] = Absent
<1>1. \A d \in Dirs : Exists(f, d) = {dir[d].here}
  BY DEF Exists, Sees
<1>2. PICK slot \in Exists(f, "slot"), staged \in Exists(f, "committing"),
           prev \in Exists(f, "previous") :
        loc' = [loc EXCEPT !.ok = loc.clean /\ ~slot /\ ~staged /\ ~prev]
  BY DEF DeleteVerdict, GotoWith
<1>3. loc'.ok = (loc.clean /\ ~slot /\ ~staged /\ ~prev)
  BY <1>2 DEF Local
<1>4. ~dir["slot"].here /\ ~dir["committing"].here /\ ~dir["previous"].here
  <2>1. ~slot /\ ~staged /\ ~prev
    BY <1>3
  <2>2. "slot" \in Dirs /\ "committing" \in Dirs /\ "previous" \in Dirs
    BY DEF Dirs
  <2>3. slot = dir["slot"].here /\ staged = dir["committing"].here /\ prev = dir["previous"].here
    BY <1>1, <1>2, <2>2
  <2>. QED BY <2>1, <2>3
<1>5. UNCHANGED dir
  BY DEF DeleteVerdict, Reading
<1>. QED BY <1>4, <1>5 DEF Tidied, Dirs

\* With nothing left, a reconcile has nothing to do.
LEMMA SurveyNothing ==
  ASSUME ~ReadFaults, IInv, AllAbsent, NEW f \in BOOLEAN, Reconcile(f), pc = "reconcile"
  PROVE  UNCHANGED dir /\ pc' = loc.ret
<1>1. \A d \in Dirs : Exists(f, d) = {FALSE}
  <2>1. \A d \in Dirs : dir[d].here = FALSE
    BY DEF AllAbsent, Absent
  <2>2. \A d \in Dirs : Exists(f, d) = {dir[d].here}
    BY DEF Exists, Sees
  <2>. QED BY <2>1, <2>2
<1>2. loc \in Local
  BY DEF IInv, CtlOK
<1>3. CASE Survey(f)
  BY <1>1, <1>2, <1>3, ReturnShape DEF Survey, Reading, Dirs
<1>4. CASE ReconcileThrows(f)
  BY <1>2, <1>4, ReturnShape DEF ReconcileThrows
<1>5. Survey(f) \/ ReconcileThrows(f)
  BY DEF Reconcile, ReadSlotMeta, DropSlotMeta, RestoreSlotMeta, DoubtSlotMeta, CheckSlot,
         PickFallback, DropSlot, Install, VerifyInstalled, Sweep, SweepDone, Reading, Writing
<1>. QED BY <1>3, <1>4, <1>5

LEMMA GoneStep ==
  ASSUME ~ReadFaults, IInv, HereOK, OpOK, GoneOK, NEW f \in Outages, Step(f)
  PROVE  GoneOK'
<1>1. f \in BOOLEAN /\ DirOK /\ Tidied /\ loc \in Local
  BY DEF Outages, IInv, HereOK, Tidied, CtlOK
<1>2. op' = op
  BY ReconcileFrame, PublishFrame, BackupFrame, EditFrame, DeleteFrame DEF Step, Block, Reading
<1>3. ack'.gone = ack.gone
  <2>1. ack' \in {ack, [ack EXCEPT !.doomed = TRUE]}
    BY ReconcileFrame, PublishFrame, BackupFrame, EditFrame, DeleteFrame DEF Step, Block, Reading
  <2>. QED BY <2>1 DEF IInv, RestOK
<1>4. ASSUME pc' = "end", loc'.ok, op \notin Writers
      PROVE  AllAbsent' /\ clock' > 0
  <2>1. Verdicts(f)
    BY <1>1, <1>4, ComponentShape DEF Step
  <2>2. DeleteVerdict(f)
    BY <1>4, <2>1 DEF Verdicts, BackupVerdict, DropKept, Reading, Writing, OpOK, Writers,
       BackupLabels, EditLabels
  <2>3. UNCHANGED clock /\ op = "delete"
    BY <2>2 DEF DeleteVerdict, Reading, OpOK, DeleteLabels
  <2>. QED BY <1>1, <1>4, <2>2, <2>3, VerdictMeansAbsent DEF AllAbsent, OpOK
<1>5. ASSUME ack.gone
      PROVE  /\ AllAbsent' /\ clock' > 0
             /\ pc' \in {"end", "block"}
  <2>1. /\ AllAbsent /\ clock > 0 /\ op # "create" /\ pc \in {"reconcile", "block"}
        /\ pc = "reconcile" => loc.ret # "settle"
    BY <1>1, <1>5, ComponentShape DEF GoneOK, Step
  <2>2. CASE Block(f)
    <3>1. ~dir["slot"].here /\ ~MetaReady(dir["slot"])
      BY <2>1, AbsentUnreadable, PutOK, <1>1 DEF AllAbsent, Absent
    <3>. QED BY <1>1, <2>1, <2>2, <3>1, BlockLabels DEF AllAbsent
  <2>3. CASE Reconcile(f)
    <3>1. pc = "reconcile" /\ loc.ret \in {"end", "block"}
      BY <1>1, <2>1, <2>3, ComponentLabels DEF ReconcileLabels, Local
    <3>. QED BY <1>1, <2>1, <2>3, <3>1, SurveyNothing, ReconcileFrame DEF AllAbsent
  <2>4. Block(f) \/ Reconcile(f)
    BY <1>1, <2>1, ComponentLabels DEF Step, PublishLabels, BackupLabels, EditLabels, DeleteLabels
  <2>. QED BY <2>2, <2>3, <2>4
<1>6. ack.gone => op # "create"
  BY DEF GoneOK
<1>. QED BY <1>2, <1>3, <1>4, <1>5, <1>6 DEF GoneOK

-----------------------------------------------------------------------------
(* The whole.                                                              *)

HInv == IInv /\ HereOK /\ OpOK
DInv == HInv /\ GoneOK

LEMMA BeginHere ==
  ASSUME HInv, NEW o \in Ops \cup {"load"}, Begin(o)
  PROVE  HereOK' /\ OpOK' /\ (GoneOK => GoneOK')
<1>1. /\ pc' = "reconcile" /\ loc'.ok = FALSE /\ loc'.ret \in {"end", "block"} /\ op' = o
      /\ UNCHANGED <<dir, clock, ack>>
  BY DEF Begin, GotoWith, Fresh
<1>2. clock \in Nat /\ (o = "delete" => clock > 0) /\ (o = "create" => clock = 0)
  BY BoundsAssumption DEF Begin, HInv, IInv, RestOK
<1>3. HereOK'
  BY <1>1 DEF HInv, HereOK
<1>4. OpOK'
  BY <1>1, <1>2 DEF OpOK, EditLabels, DeleteLabels, BackupLabels, PublishLabels, ReconcileLabels
<1>5. GoneOK => GoneOK'
  BY <1>1, <1>2 DEF GoneOK, AllAbsent
<1>. QED BY <1>3, <1>4, <1>5

LEMMA EndHere ==
  ASSUME HInv, End
  PROVE  HereOK' /\ OpOK' /\ (GoneOK => GoneOK')
<1>1. pc = "end" /\ pc' = "idle" /\ op' = "none" /\ loc' = Fresh /\ UNCHANGED <<dir, clock>>
  BY DEF End
<1>2. HereOK'
  BY <1>1 DEF HInv, HereOK
<1>3. OpOK'
  BY <1>1 DEF OpOK, EditLabels, DeleteLabels, BackupLabels, PublishLabels, ReconcileLabels, Fresh
<1>4. ack'.gone => ack.gone \/ (loc.ok /\ op \notin Writers)
  BY DEF End, HInv, IInv, RestOK, Writers
<1>5. GoneOK => GoneOK'
  BY <1>1, <1>4 DEF GoneOK, AllAbsent
<1>. QED BY <1>2, <1>3, <1>5

LEMMA EnvironmentHere ==
  ASSUME HInv, Crash \/ Forget \/ \E d \in Dirs : Damage(d)
  PROVE  HereOK' /\ OpOK' /\ (GoneOK => GoneOK')
<1>1. CASE Crash
  BY <1>1 DEF Crash, HInv, HereOK, OpOK, GoneOK, AllAbsent, EditLabels, DeleteLabels,
     BackupLabels, PublishLabels, ReconcileLabels, Fresh
<1>2. CASE Forget
  BY <1>2 DEF Forget, HInv, HereOK, OpOK, GoneOK, AllAbsent
<1>3. ASSUME NEW d \in Dirs, Damage(d) PROVE HereOK' /\ OpOK' /\ (GoneOK => GoneOK')
  <2>1. dir[d].here /\ UNCHANGED <<pc, op, loc, clock, ack>> /\ pc = "idle"
    BY <1>3 DEF Damage
  <2>2. dir'[d].here /\ \A e \in Dirs : e # d => dir'[e] = dir[e]
    BY <1>3 DEF Damage, HInv, IInv, DirOK, Content
  <2>3. ~AllAbsent
    BY <2>1 DEF AllAbsent, Absent
  <2>4. HereOK'
    BY <2>1, <2>2 DEF HInv, HereOK
  <2>. QED BY <2>1, <2>3, <2>4 DEF HInv, OpOK, GoneOK
<1>. QED BY <1>1, <1>2, <1>3

LEMMA HInit == Init => HInv
<1>. SUFFICES ASSUME Init PROVE HInv
  OBVIOUS
<1>1. HereOK /\ OpOK
  BY DEF Init, HereOK, OpOK, EditLabels, DeleteLabels, BackupLabels, PublishLabels,
     ReconcileLabels, Fresh
<1>. QED BY <1>1, InitOK DEF HInv

\* Whatever fails or lies, an absent directory stays empty and each component runs
\* for its own operations.
LEMMA HNext == HInv /\ [Next]_vars => HInv'
<1>. SUFFICES ASSUME HInv, [Next]_vars PROVE HInv'
  OBVIOUS
<1>1. IInv'
  BY NextOK DEF HInv
<1>2. HereOK' /\ OpOK'
  <2>1. CASE UNCHANGED vars
    BY <2>1 DEF vars, HInv, HereOK, OpOK
  <2>2. ASSUME NEW f \in Outages, Step(f) PROVE HereOK' /\ OpOK'
    BY <2>2, HereStep, OpStep DEF HInv
  <2>. QED BY <2>1, <2>2, BeginHere, EndHere, EnvironmentHere DEF Next, Program
<1>. QED BY <1>1, <1>2 DEF HInv

LEMMA HAlways == Spec => []HInv
BY HInit, HNext, PTL DEF Spec

LEMMA DNext == ~ReadFaults /\ DInv /\ [Next]_vars => DInv'
<1>. SUFFICES ASSUME ~ReadFaults, DInv, [Next]_vars PROVE DInv'
  OBVIOUS
<1>1. GoneOK'
  <2>1. CASE UNCHANGED vars
    BY <2>1 DEF vars, DInv, GoneOK, AllAbsent
  <2>2. ASSUME NEW f \in Outages, Step(f) PROVE GoneOK'
    BY <2>2, GoneStep DEF DInv, HInv
  <2>. QED BY <2>1, <2>2, BeginHere, EndHere, EnvironmentHere DEF Next, Program, DInv
<1>. QED BY <1>1, HNext DEF DInv

\* Once a deletion was reported as successful nothing of the id is there, and no
\* crash, later operation or group load brings any of it back.
THEOREM DeletionFinal ==
  ASSUME ~ReadFaults
  PROVE  Spec => []DeletedIsGone
<1>1. DInv => DeletedIsGone
  BY DEF DInv, GoneOK, DeletedIsGone, AllAbsent, Absent
<1>2. DInv /\ [Next]_vars => DInv'
  BY DNext
<1>3. Init => DInv
  BY HInit DEF DInv, GoneOK, Init
<1>. QED BY <1>1, <1>2, <1>3, PTL DEF Spec

-----------------------------------------------------------------------------
(* Done.                                                                   *)

\* The lists a sweep can have left.
TodoLists == {<<>>, <<"committing">>, <<"previous">>, <<"previous", "committing">>,
              <<"tmp", "previous", "committing">>, <<"bak", "tmp", "previous", "committing">>}

\* Every sibling directory that is there is still to be swept.
Covered(todo) ==
  /\ dir["previous"].here => todo \notin {<<>>, <<"committing">>}
  /\ dir["committing"].here => todo \notin {<<>>, <<"previous">>}

SlotOpen == dir["slot"].here /\ Legible(dir["slot"].meta)
SlotDone == dir["slot"].here => Ready(dir["slot"]) /\ Legible(dir["slot"].meta)
CopyThere(file) ==
  \/ file = "bak" /\ Legible(dir["slot"].bak)
  \/ file = "tmp" /\ Legible(dir["slot"].tmp)

QuietOK ==
  /\ pc \in {"block", "clear", "stage", "manifest", "final", "reconcile"} \cup PublishLabels
       => loc.clean /\ loc.resume = "return"
  /\ pc \in {"doubt", "check", "pick", "slot_drop", "install", "meta", "meta_drop",
             "meta_move", "verify"} => loc.clean

MetaOK ==
  /\ pc \in {"meta", "meta_drop", "meta_move"} =>
       /\ dir["slot"].here /\ MetaReady(dir["slot"])
       /\ loc.then = "check" => loc.resume = "return"
       /\ loc.then \in {"sweep", "verify"} => Ready(dir["slot"]) /\ ~dir[loc.src].here
       /\ loc.then \in {"sweep", "verify"} => loc.src \in {"previous", "committing"}
       /\ loc.then = "sweep" =>
            loc.resume = "return" /\ loc.todo \in TodoLists /\ Covered(loc.todo)
  /\ pc \in {"meta_drop", "meta_move"} => CopyThere(loc.file) /\ ~Legible(dir["slot"].meta)
  /\ pc \in {"check", "verify"} => SlotOpen

PickOK ==
  /\ pc \in {"slot_drop", "install"} =>
       /\ loc.src \in {"previous", "committing"} /\ Ready(dir[loc.src])
       /\ loc.then \in {"sweep", "verify"}
       /\ loc.then = "sweep" =>
            /\ loc.resume = "return"
            /\ \/ loc.src = "previous" /\ loc.todo = <<"committing">>
               \/ loc.src = "committing" /\ loc.todo = <<>> /\ ~dir["previous"].here
               \/ loc.src = "committing" /\ loc.todo = <<"previous">>
  /\ pc = "slot_drop" => loc.then = "verify"
  /\ pc = "install" => ~dir["slot"].here
  /\ pc = "verify" => loc.src \in {"previous", "committing"} /\ ~dir[loc.src].here

SweepOK ==
  pc = "sweep" => /\ loc.todo \in TodoLists /\ SlotDone
                  /\ loc.clean => Covered(loc.todo)
                  /\ loc.resume # "return" => dir["slot"].here

DoneInv == QuietOK /\ MetaOK /\ PickOK /\ SweepOK /\ DoneMeansOne

-----------------------------------------------------------------------------
LEMMA Tails ==
  /\ Tail(<<"committing">>) = <<>> /\ Head(<<"committing">>) = "committing"
  /\ Tail(<<"previous">>) = <<>> /\ Head(<<"previous">>) = "previous"
  /\ Tail(<<"previous", "committing">>) = <<"committing">>
  /\ Head(<<"previous", "committing">>) = "previous"
  /\ Tail(<<"tmp", "previous", "committing">>) = <<"previous", "committing">>
  /\ Head(<<"tmp", "previous", "committing">>) = "tmp"
  /\ Tail(<<"bak", "tmp", "previous", "committing">>) = <<"tmp", "previous", "committing">>
  /\ Head(<<"bak", "tmp", "previous", "committing">>) = "bak"
OBVIOUS

LEMMA ListsDiffer ==
  /\ <<"committing">> # <<>> /\ <<"previous">> # <<>> /\ <<"committing">> # <<"previous">>
  /\ <<"previous", "committing">> \notin {<<>>, <<"committing">>, <<"previous">>}
  /\ <<"tmp", "previous", "committing">> \notin {<<>>, <<"committing">>, <<"previous">>}
  /\ <<"bak", "tmp", "previous", "committing">> \notin {<<>>, <<"committing">>, <<"previous">>}
OBVIOUS

\* With reliable reads every question has its true answer.
LEMMA Truthful ==
  ASSUME ~ReadFaults
  PROVE  \A f, t, x : Sees(f, t, x) = {t}
BY DEF Sees

LEMMA TrueAnswers ==
  ASSUME ~ReadFaults, NEW f, NEW d
  PROVE  /\ Exists(f, d) = {dir[d].here}
         /\ metaReadiness(f, d) = {Readiness(MetaReady(dir[d]))}
         /\ backupReady(f, d) = {Readiness(Ready(dir[d]))}
         /\ manifestExists(f, d) = {dir[d].man # "none"}
         /\ hasReadableMetaCopy(f, d) = {Legible(dir[d].bak) \/ Legible(dir[d].tmp)}
BY Truthful DEF Exists, metaReadiness, backupReady, manifestExists, hasReadableMetaCopy

LEMMA TrueMeta ==
  ASSUME ~ReadFaults, NEW f, NEW x
  PROVE  metaState(f, x) = {Readiness(Legible(x))}
BY Truthful DEF metaState

LEMMA TrueCandidate ==
  ASSUME ~ReadFaults, NEW f, NEW d
  PROVE  CandidateState(f, d) = {IF dir[d].here THEN Readiness(Ready(dir[d])) ELSE "unavailable"}
BY TrueAnswers DEF CandidateState

LEMMA ReadinessValues ==
  \A b \in BOOLEAN : /\ Readiness(b) # "unknown"
                     /\ (Readiness(b) = "ready") = b /\ (Readiness(b) = "unavailable") = ~b
BY DEF Readiness

LEMMA ReadyTypes ==
  ASSUME DirOK, NEW d \in Dirs
  PROVE  /\ MetaReady(dir[d]) \in BOOLEAN /\ Ready(dir[d]) \in BOOLEAN
         /\ dir[d].here \in BOOLEAN
         /\ \A x : Legible(x) \in BOOLEAN
BY DEF DirOK, Content, MetaReady, Ready, Legible

\* Nothing readable is in a directory that is not there.
LEMMA AbsentNotReady == ~Ready(Absent) /\ ~MetaReady(Absent) /\ ~Absent.here
BY DEF Absent, Ready, MetaReady, Legible, NoFile

LEMMA ReadyHere ==
  ASSUME Tidied, NEW d \in Dirs
  PROVE  MetaReady(dir[d]) \/ Ready(dir[d]) => dir[d].here
BY AbsentNotReady DEF Tidied

LEMMA ReadyMeta == \A c : Ready(c) => MetaReady(c)
BY DEF Ready

\* What is left of a file or a directory, and what the verdict is worth.
LEMMA DropsFileLeft ==
  ASSUME ~ReadFaults, NEW f, NEW file, NEW r \in DropsFile(f, file)
  PROVE  /\ r.left \in {file, NoFile} /\ r.ok \in BOOLEAN
         /\ r.ok => r.left = NoFile
<1>1. CASE r = [left |-> NoFile, ok |-> TRUE]
  BY <1>1
<1>2. CASE r \in [left : {file}, ok : {FALSE}]
  <2>1. r.left = file /\ r.ok = FALSE
    BY <1>2
  <2>. QED BY <2>1
<1>3. Sees(f, FALSE, TRUE) = {FALSE}
  BY Truthful
<1>4. CASE ~f \/ file = NoFile
  BY <1>1, <1>4 DEF DropsFile
<1>5. CASE ~(~f \/ file = NoFile)
  <2>1. DropsFile(f, file) = [left : {file}, ok : {FALSE}]
    BY <1>3, <1>5 DEF DropsFile
  <2>. QED BY <1>2, <2>1
<1>. QED BY <1>4, <1>5

LEMMA DropsLeft ==
  ASSUME ~ReadFaults, NEW f, NEW c, NEW r \in Drops(f, c)
  PROVE  /\ r.left \in {Absent, c} \cup Remnants(c) /\ r.ok \in BOOLEAN
         /\ r.ok => r.left = Absent
<1>1. CASE r = [left |-> Absent, ok |-> TRUE]
  BY <1>1
<1>2. CASE r \in [left : Remnants(c), ok : {FALSE}]
  <2>1. r.left \in Remnants(c) /\ r.ok = FALSE
    BY <1>2
  <2>. QED BY <2>1
<1>3. CASE r \in [left : {c}, ok : {FALSE}]
  <2>1. r.left = c /\ r.ok = FALSE
    BY <1>3
  <2>. QED BY <2>1
<1>4. Sees(f, FALSE, TRUE) = {FALSE}
  BY Truthful
<1>5. CASE ~f \/ ~c.here
  BY <1>1, <1>5 DEF Drops
<1>6. CASE ~(~f \/ ~c.here)
  <2>1. Drops(f, c) = [left : Remnants(c), ok : {FALSE}] \cup [left : {c}, ok : {FALSE}]
    BY <1>4, <1>6 DEF Drops
  <2>. QED BY <1>2, <1>3, <2>1
<1>. QED BY <1>5, <1>6

-----------------------------------------------------------------------------
LEMMA ReturnDone ==
  ASSUME loc \in Local, NEW r \in Results, Return(r),
         r = "done" => ~dir'["committing"].here /\ ~dir'["previous"].here /\ SlotDone'
  PROVE  DoneInv'
<1>1. loc' = [Fresh EXCEPT !.ret = loc.ret, !.rec = r, !.published = loc.published,
                           !.owns = loc.owns] /\ pc' = loc.ret
  BY DEF Return, GotoWith
<1>2. loc'.clean /\ loc'.resume = "return" /\ loc'.rec = r
  BY <1>1 DEF Fresh
<1>3. pc' \in {"end", "block", "settle"}
  BY <1>1 DEF Local
<1>4. QuietOK' /\ MetaOK' /\ PickOK' /\ SweepOK'
  BY <1>2, <1>3 DEF QuietOK, MetaOK, PickOK, SweepOK
<1>5. DoneMeansOne'
  BY <1>2, <1>3 DEF DoneMeansOne, SlotDone
<1>. QED BY <1>4, <1>5 DEF DoneInv

LEMMA FallbackDone ==
  ASSUME loc \in Local, loc.clean, NEW after \in {"return", "check", "tidy"}, Fallback(after)
  PROVE  DoneInv'
<1>1. pc' = "pick" /\ loc'.clean
  BY DEF Fallback, GotoWith, Local
<1>. QED BY <1>1 DEF DoneInv, QuietOK, MetaOK, PickOK, SweepOK, DoneMeansOne, PublishLabels

\* An instance is only moved in from a directory that is ready.
LEMMA InstallFromDone ==
  ASSUME loc \in Local, loc.clean, loc.resume = "return", UNCHANGED dir,
         NEW d \in {"previous", "committing"}, Ready(dir[d]), NEW left, InstallFrom(d, left),
         ~dir["slot"].here,
         \/ d = "previous" /\ left = <<"committing">>
         \/ d = "committing" /\ left = <<>> /\ ~dir["previous"].here
         \/ d = "committing" /\ left = <<"previous">>
  PROVE  DoneInv'
<1>1. /\ pc' = "install" /\ loc'.clean /\ loc'.resume = "return" /\ loc'.src = d
      /\ loc'.then = "sweep" /\ loc'.todo = left
  BY DEF InstallFrom, GotoWith, Local
<1>. QED BY <1>1 DEF DoneInv, QuietOK, MetaOK, PickOK, SweepOK, DoneMeansOne, PublishLabels

LEMMA SweepOnlyDone ==
  ASSUME loc \in Local, UNCHANGED dir, NEW left \in TodoLists, SweepOnly(left),
         SlotDone, Covered(left), loc.resume # "return" => dir["slot"].here
  PROVE  DoneInv'
<1>1. pc' = "sweep" /\ loc'.resume = loc.resume /\ loc'.todo = left
  BY DEF SweepOnly, GotoWith, Local
<1>2. SweepOK'
  BY <1>1 DEF SweepOK, SlotDone, Covered
<1>. QED BY <1>1, <1>2 DEF DoneInv, QuietOK, MetaOK, PickOK, DoneMeansOne, PublishLabels

LEMMA TidyDone ==
  ASSUME loc \in Local, UNCHANGED dir, Tidy, SlotDone
  PROVE  DoneInv'
<1>1. /\ pc' = "sweep" /\ loc'.resume = "return"
      /\ loc'.todo = <<"bak", "tmp", "previous", "committing">>
  BY DEF Tidy, GotoWith, Local
<1>2. SweepOK'
  BY <1>1, ListsDiffer DEF SweepOK, SlotDone, Covered, TodoLists
<1>. QED BY <1>1, <1>2 DEF DoneInv, QuietOK, MetaOK, PickOK, DoneMeansOne, PublishLabels

-----------------------------------------------------------------------------
(* The steps of a reconcile.                                               *)

LEMMA SurveyDone ==
  ASSUME ~ReadFaults, IInv, DoneInv, Tidied, NEW f \in BOOLEAN, Survey(f)
  PROVE  DoneInv'
<1>1. /\ pc = "reconcile" /\ loc \in Local /\ loc.clean /\ loc.resume = "return"
      /\ UNCHANGED dir
  BY DEF Survey, Reading, IInv, CtlOK, DoneInv, QuietOK
<1>2. ASSUME NEW r \in Results \ {"done"}, Return(r) PROVE DoneInv'
  BY <1>1, <1>2, ReturnDone
<1>3. CASE dir["slot"].here /\ SurveySlot(f)
  <2>1. CASE MetaReady(dir["slot"]) /\ GotoWith("meta", [loc EXCEPT !.then = "check"])
    <3>1. pc' = "meta" /\ loc'.clean /\ loc'.resume = "return" /\ loc'.then = "check"
      BY <1>1, <2>1 DEF GotoWith, Local
    <3>. QED BY <1>1, <1>3, <2>1, <3>1
         DEF DoneInv, QuietOK, MetaOK, PickOK, SweepOK, DoneMeansOne, PublishLabels
  <2>2. CASE Fallback("return")
    BY <1>1, <2>2, FallbackDone
  <2>. QED BY <1>2, <1>3, <2>1, <2>2, TrueAnswers, ReadyTypes, ReadinessValues
       DEF SurveySlot, Results, IInv, Dirs
<1>4. CASE ~dir["slot"].here /\ SurveyPrevious(f)
  <2>1. \/ Return("pending") \/ Return("failed")
        \/ Ready(dir["previous"]) /\ InstallFrom("previous", <<"committing">>)
        \/ Ready(dir["committing"]) /\ InstallFrom("committing", <<"previous">>)
    BY <1>4, TrueAnswers, ReadyTypes, ReadinessValues DEF SurveyPrevious, IInv, Dirs
  <2>. QED BY <1>1, <1>2, <1>4, <2>1, InstallFromDone DEF Results
<1>5. CASE ~dir["slot"].here /\ ~dir["previous"].here /\ SurveyStaged(f)
  <2>1. \/ Return("pending") \/ SweepOnly(<<"committing">>)
        \/ Ready(dir["committing"]) /\ InstallFrom("committing", <<>>)
    BY <1>5, TrueAnswers, ReadyTypes, ReadinessValues DEF SurveyStaged, IInv, Dirs
  <2>2. CASE SweepOnly(<<"committing">>)
    BY <1>1, <1>5, <2>2, SweepOnlyDone, ListsDiffer DEF SlotDone, Covered, TodoLists
  <2>. QED BY <1>1, <1>2, <1>5, <2>1, <2>2, InstallFromDone DEF Results
<1>6. CASE /\ ~dir["slot"].here /\ ~dir["previous"].here /\ ~dir["committing"].here
           /\ Return("done")
  BY <1>1, <1>6, ReturnDone DEF Results, SlotDone
<1>. QED BY <1>3, <1>4, <1>5, <1>6, TrueAnswers DEF Survey

\* Recovering the metadata of a slot that has a readable copy of it.
LEMMA MetaDone ==
  ASSUME loc \in Local, pc \in {"meta", "meta_drop", "meta_move"}, DoneInv,
         pc' \in {"meta_drop", "meta_move"}, loc'.file \in {"bak", "tmp"},
         loc' = [loc EXCEPT !.file = loc'.file], CopyThere(loc.file)',
         ~Legible(dir'["slot"].meta), dir'["slot"].here,
         Ready(dir["slot"]) => Ready(dir'["slot"]),
         dir'["previous"] = dir["previous"], dir'["committing"] = dir["committing"]
  PROVE  DoneInv'
<1>1. /\ loc'.clean = loc.clean /\ loc'.then = loc.then /\ loc'.resume = loc.resume
      /\ loc'.src = loc.src /\ loc'.todo = loc.todo
  BY DEF Local
<1>2. loc.clean
  BY DEF DoneInv, QuietOK
<1>3. MetaReady(dir'["slot"])
  BY DEF CopyThere, MetaReady
<1>4. MetaOK'
  BY <1>1, <1>3 DEF DoneInv, MetaOK, Covered
<1>. QED BY <1>1, <1>2, <1>4 DEF DoneInv, QuietOK, PickOK, SweepOK, DoneMeansOne, PublishLabels

\* recoverMeta goes on with a slot whose instance.json can be read.
LEMMA ThenDone ==
  ASSUME IInv, DoneInv, pc \in {"meta", "meta_move"}, Goto(loc.then),
         dir'["slot"].here, Legible(dir'["slot"].meta),
         Ready(dir["slot"]) => Ready(dir'["slot"]),
         dir'["previous"] = dir["previous"], dir'["committing"] = dir["committing"]
  PROVE  DoneInv'
<1>1. pc' = loc.then /\ loc' = loc /\ loc.clean /\ loc.then \in {"check", "verify", "sweep"}
  BY DEF Goto, DoneInv, QuietOK, IInv, CtlOK, Local
<1>2. QuietOK' /\ MetaOK' /\ DoneMeansOne'
  BY <1>1 DEF QuietOK, MetaOK, SlotOpen, DoneMeansOne, PublishLabels
<1>3. PickOK'
  BY <1>1 DEF DoneInv, MetaOK, PickOK
<1>4. SweepOK'
  BY <1>1 DEF DoneInv, MetaOK, SweepOK, SlotDone, Covered
<1>. QED BY <1>2, <1>3, <1>4 DEF DoneInv

LEMMA UnrecoveredDone ==
  ASSUME IInv, DoneInv, pc \in {"meta", "meta_drop", "meta_move"}, Unrecovered
  PROVE  DoneInv'
<1>1. CASE Goto("doubt")
  BY <1>1 DEF Goto, DoneInv, QuietOK, MetaOK, PickOK, SweepOK, DoneMeansOne, PublishLabels
<1>2. CASE Return("failed")
  BY <1>2, ReturnDone DEF Results, IInv, CtlOK
<1>. QED BY <1>1, <1>2 DEF Unrecovered

LEMMA ReadSlotMetaDone ==
  ASSUME ~ReadFaults, IInv, DoneInv, NEW f \in BOOLEAN, ReadSlotMeta(f)
  PROVE  DoneInv'
<1>1. pc = "meta" /\ loc \in Local /\ UNCHANGED dir /\ dir["slot"].here
  BY DEF ReadSlotMeta, Reading, IInv, CtlOK, DoneInv, MetaOK
<1>2. ASSUME NEW file \in {"bak", "tmp"}, GotoWith("meta_drop", [loc EXCEPT !.file = file]),
             CopyThere(file), ~Legible(dir["slot"].meta)
      PROVE  DoneInv'
  <2>1. pc' = "meta_drop" /\ loc'.file = file /\ loc' = [loc EXCEPT !.file = loc'.file]
    BY <1>1, <1>2 DEF GotoWith, Local
  <2>. QED BY <1>1, <1>2, <2>1, MetaDone DEF CopyThere
<1>3. \/ Legible(dir["slot"].meta) /\ Goto(loc.then)
      \/ Unrecovered
      \/ \E file \in {"bak", "tmp"} : /\ GotoWith("meta_drop", [loc EXCEPT !.file = file])
                                      /\ CopyThere(file) /\ ~Legible(dir["slot"].meta)
  <2>1. \A x : Legible(x) \in BOOLEAN
    BY DEF Legible
  <2>2. metaState(f, dir["slot"].meta) = {Readiness(Legible(dir["slot"].meta))}
        /\ metaState(f, dir["slot"].bak) = {Readiness(Legible(dir["slot"].bak))}
        /\ metaState(f, dir["slot"].tmp) = {Readiness(Legible(dir["slot"].tmp))}
    BY TrueMeta
  <2>. QED BY <2>1, <2>2, ReadinessValues DEF ReadSlotMeta, CopyThere
<1>. QED BY <1>1, <1>2, <1>3, ThenDone, UnrecoveredDone

LEMMA DropSlotMetaDone ==
  ASSUME ~ReadFaults, IInv, DoneInv, NEW f \in BOOLEAN, DropSlotMeta(f)
  PROVE  DoneInv'
<1>1. pc = "meta_drop" /\ loc \in Local /\ dir \in [Dirs -> Content]
  BY DEF DropSlotMeta, Writing, IInv, CtlOK, DirOK
<1>2. PICK r \in DropsFile(f, dir["slot"].meta) :
        /\ dir' = [dir EXCEPT !["slot"].meta = r.left]
        /\ IF r.ok THEN Goto("meta_move") ELSE Unrecovered
  BY DEF DropSlotMeta
<1>3. r.left \in {dir["slot"].meta, NoFile}
  BY <1>2, DropsFileLeft
<1>4. CASE Goto("meta_move")
  <2>1. /\ dir'["slot"] = [dir["slot"] EXCEPT !.meta = r.left]
        /\ dir'["previous"] = dir["previous"] /\ dir'["committing"] = dir["committing"]
    BY <1>1, <1>2 DEF Dirs
  <2>2. dir["slot"] \in Content /\ loc.file \in {"bak", "tmp"} /\ CopyThere(loc.file)
        /\ ~Legible(dir["slot"].meta) /\ dir["slot"].here
    BY <1>1 DEF DoneInv, MetaOK, Dirs, CopyThere
  <2>3. /\ dir'["slot"].meta = r.left /\ dir'["slot"].bak = dir["slot"].bak
        /\ dir'["slot"].tmp = dir["slot"].tmp /\ dir'["slot"].man = dir["slot"].man
        /\ dir'["slot"].here
    BY <2>1, <2>2 DEF Content
  <2>4. ~Legible(dir'["slot"].meta) /\ (Ready(dir["slot"]) => Ready(dir'["slot"]))
    BY <1>3, <2>2, <2>3 DEF Legible, NoFile, Ready, MetaReady
  <2>5. pc' = "meta_move" /\ loc'.file \in {"bak", "tmp"} /\ loc' = [loc EXCEPT !.file = loc'.file]
    BY <1>1, <1>4, <2>2 DEF Goto, Local
  <2>. QED BY <1>1, <1>4, <2>1, <2>2, <2>3, <2>4, <2>5, MetaDone DEF CopyThere, Goto
<1>. QED BY <1>1, <1>2, <1>4, UnrecoveredDone

LEMMA RestoreSlotMetaDone ==
  ASSUME ~ReadFaults, IInv, DoneInv, NEW f \in BOOLEAN, RestoreSlotMeta(f)
  PROVE  DoneInv'
<1>1. /\ pc = "meta_move" /\ loc \in Local /\ dir \in [Dirs -> Content]
      /\ dir["slot"] \in Content /\ dir["slot"].here /\ CopyThere(loc.file)
  BY DEF RestoreSlotMeta, Writing, IInv, CtlOK, DirOK, DoneInv, MetaOK, Dirs
<1>2. CASE Unrecovered
  BY <1>1, <1>2, UnrecoveredDone
<1>3. ASSUME NEW c \in Content, dir' = [dir EXCEPT !["slot"] = c], Goto(loc.then),
             c.here, Legible(c.meta), c.man = dir["slot"].man
      PROVE  DoneInv'
  <2>1. /\ dir'["slot"] = c /\ dir'["previous"] = dir["previous"]
        /\ dir'["committing"] = dir["committing"]
    BY <1>1, <1>3 DEF Dirs
  <2>2. Ready(dir["slot"]) => Ready(dir'["slot"])
    BY <1>3, <2>1 DEF Ready, MetaReady
  <2>. QED BY <1>1, <1>3, <2>1, <2>2, ThenDone
<1>4. CASE /\ dir' = [dir EXCEPT !["slot"].meta = dir["slot"].bak, !["slot"].bak = NoFile]
           /\ loc.file = "bak" /\ Goto(loc.then)
  <2>. DEFINE c == [dir["slot"] EXCEPT !.meta = dir["slot"].bak, !.bak = NoFile]
  <2>1. dir' = [dir EXCEPT !["slot"] = c]
    BY <1>1, <1>4 DEF Dirs
  <2>2. c \in Content /\ c.here /\ Legible(c.meta) /\ c.man = dir["slot"].man
    BY <1>1, <1>4, FileOK DEF Content, CopyThere
  <2>. HIDE DEF c
  <2>. QED BY <1>3, <1>4, <2>1, <2>2
<1>5. CASE /\ dir' = [dir EXCEPT !["slot"].meta = dir["slot"].tmp, !["slot"].tmp = NoFile]
           /\ loc.file # "bak" /\ Goto(loc.then)
  <2>. DEFINE c == [dir["slot"] EXCEPT !.meta = dir["slot"].tmp, !.tmp = NoFile]
  <2>1. dir' = [dir EXCEPT !["slot"] = c]
    BY <1>1, <1>5 DEF Dirs
  <2>2. c \in Content /\ c.here /\ Legible(c.meta) /\ c.man = dir["slot"].man
    BY <1>1, <1>5, FileOK DEF Content, CopyThere
  <2>. HIDE DEF c
  <2>. QED BY <1>3, <1>5, <2>1, <2>2
<1>. QED BY <1>2, <1>4, <1>5 DEF RestoreSlotMeta

LEMMA DoubtSlotMetaDone ==
  ASSUME IInv, DoneInv, NEW f \in BOOLEAN, DoubtSlotMeta(f)
  PROVE  DoneInv'
<1>1. pc = "doubt" /\ loc.clean /\ loc \in Local
  BY DEF DoubtSlotMeta, Reading, DoneInv, QuietOK, IInv, CtlOK
<1>2. Return("pending") \/ Fallback("check")
  BY DEF DoubtSlotMeta
<1>. QED BY <1>1, <1>2, ReturnDone, FallbackDone DEF Results

LEMMA CheckSlotDone ==
  ASSUME ~ReadFaults, IInv, DoneInv, NEW f \in BOOLEAN, CheckSlot(f)
  PROVE  DoneInv'
<1>1. pc = "check" /\ loc.clean /\ loc \in Local /\ UNCHANGED dir /\ SlotOpen
  BY DEF CheckSlot, Reading, DoneInv, QuietOK, MetaOK, IInv, CtlOK
<1>2. \/ Return("pending") \/ Fallback("tidy")
      \/ Ready(dir["slot"]) /\ Tidy
  BY TrueAnswers, ReadyTypes, ReadinessValues DEF CheckSlot, IInv, Dirs
<1>. QED BY <1>1, <1>2, ReturnDone, FallbackDone, TidyDone DEF Results, SlotDone, SlotOpen

LEMMA PickFallbackDone ==
  ASSUME ~ReadFaults, IInv, DoneInv, NEW f \in BOOLEAN, PickFallback(f)
  PROVE  DoneInv'
<1>1. pc = "pick" /\ loc.clean /\ loc \in Local /\ UNCHANGED dir
  BY DEF PickFallback, Reading, DoneInv, QuietOK, IInv, CtlOK
<1>2. ASSUME NEW d \in {"previous", "committing"}, Ready(dir[d]),
             GotoWith("slot_drop", [loc EXCEPT !.src = d, !.then = "verify"])
      PROVE  DoneInv'
  <2>1. pc' = "slot_drop" /\ loc'.src = d /\ loc'.then = "verify" /\ loc'.clean
    BY <1>1, <1>2 DEF GotoWith, Local
  <2>. QED BY <1>1, <1>2, <2>1
       DEF DoneInv, QuietOK, MetaOK, PickOK, SweepOK, DoneMeansOne, PublishLabels
<1>3. \/ Return("pending") \/ Return("failed")
      \/ \E d \in {"previous", "committing"} :
           /\ Ready(dir[d])
           /\ GotoWith("slot_drop", [loc EXCEPT !.src = d, !.then = "verify"])
  BY TrueCandidate, ReadyTypes, ReadinessValues DEF PickFallback, IInv, Dirs
<1>. QED BY <1>1, <1>2, <1>3, ReturnDone DEF Results

LEMMA DropSlotDone ==
  ASSUME ~ReadFaults, IInv, DoneInv, NEW f \in BOOLEAN, DropSlot(f)
  PROVE  DoneInv'
<1>1. /\ pc = "slot_drop" /\ loc \in Local /\ loc.clean /\ dir \in [Dirs -> Content]
      /\ loc.src \in {"previous", "committing"} /\ Ready(dir[loc.src]) /\ loc.then = "verify"
  BY DEF DropSlot, Writing, IInv, CtlOK, DirOK, DoneInv, PickOK, QuietOK
<1>2. PICK r \in Drops(f, dir["slot"]) :
        /\ dir' = [dir EXCEPT !["slot"] = r.left]
        /\ IF r.ok THEN Goto("install") ELSE Return("failed")
  BY DEF DropSlot
<1>3. CASE r.ok /\ Goto("install")
  <2>1. ~dir'["slot"].here /\ dir'[loc.src] = dir[loc.src]
    BY <1>1, <1>2, <1>3, DropsLeft, AbsentNotReady DEF Dirs
  <2>. QED BY <1>1, <1>3, <2>1
       DEF Goto, DoneInv, QuietOK, MetaOK, PickOK, SweepOK, DoneMeansOne, PublishLabels
<1>. QED BY <1>1, <1>2, <1>3, ReturnDone DEF Results

LEMMA InstallDone ==
  ASSUME IInv, DoneInv, Tidied, NEW f \in BOOLEAN, Install(f)
  PROVE  DoneInv'
<1>1. /\ pc = "install" /\ loc \in Local /\ loc.clean /\ dir \in [Dirs -> Content]
      /\ loc.src \in {"previous", "committing"} /\ Ready(dir[loc.src])
  BY DEF Install, Writing, IInv, CtlOK, DirOK, DoneInv, PickOK, QuietOK
<1>2. CASE dir' = Moved(loc.src, "slot") /\ Goto("meta")
  <2>1. /\ dir'["slot"] = dir[loc.src] /\ dir'[loc.src] = Absent
        /\ \A d \in {"previous", "committing"} \ {loc.src} : dir'[d] = dir[d]
    BY <1>1, <1>2 DEF Moved, Dirs
  <2>2. dir'["slot"].here /\ Ready(dir'["slot"]) /\ MetaReady(dir'["slot"])
        /\ ~dir'[loc.src].here
    BY <1>1, <2>1, ReadyHere, ReadyMeta, AbsentNotReady DEF Dirs
  <2>3. pc' = "meta" /\ loc' = loc /\ loc.then \in {"sweep", "verify"}
    BY <1>2 DEF Goto, Install, Writing, DoneInv, PickOK
  <2>4. ASSUME loc.then = "sweep"
        PROVE  loc.resume = "return" /\ loc.todo \in TodoLists /\ Covered(loc.todo)'
    BY <1>1, <2>1, <2>2, <2>3, <2>4, ListsDiffer
    DEF Install, Writing, DoneInv, PickOK, TodoLists, Covered
  <2>5. MetaOK'
    BY <1>1, <2>2, <2>3, <2>4 DEF MetaOK
  <2>. QED BY <1>1, <2>3, <2>5
       DEF DoneInv, QuietOK, PickOK, SweepOK, DoneMeansOne, PublishLabels
<1>. QED BY <1>1, <1>2, ReturnDone DEF Install, Results

LEMMA VerifyInstalledDone ==
  ASSUME ~ReadFaults, IInv, DoneInv, NEW f \in BOOLEAN, VerifyInstalled(f)
  PROVE  DoneInv'
<1>1. /\ pc = "verify" /\ loc \in Local /\ UNCHANGED dir /\ SlotOpen
      /\ loc.src \in {"previous", "committing"} /\ ~dir[loc.src].here
  BY DEF VerifyInstalled, Reading, DoneInv, MetaOK, PickOK, IInv, CtlOK
<1>. DEFINE left == <<IF loc.src = "previous" THEN "committing" ELSE "previous">>
<1>2. Return("failed") \/ (Ready(dir["slot"]) /\ SweepOnly(left))
  BY TrueAnswers, ReadyTypes, ReadinessValues DEF VerifyInstalled, IInv, Dirs
<1>3. left \in TodoLists /\ Covered(left)
  BY <1>1, ListsDiffer DEF TodoLists, Covered
<1>. HIDE DEF left
<1>4. CASE Ready(dir["slot"]) /\ SweepOnly(left)
  BY <1>1, <1>3, <1>4, SweepOnlyDone DEF SlotDone, SlotOpen
<1>. QED BY <1>1, <1>2, <1>4, ReturnDone DEF Results

\* A sweep takes the next target off its list, and it is clean only if it went.
LEMMA SweepDirDone ==
  ASSUME ~ReadFaults, IInv, DoneInv, NEW f \in BOOLEAN, Sweep(f)
  PROVE  DoneInv'
<1>1. /\ pc = "sweep" /\ loc \in Local /\ dir \in [Dirs -> Content] /\ dir["slot"] \in Content
      /\ loc.todo \in TodoLists /\ loc.todo # <<>> /\ SlotDone
      /\ loc.clean => Covered(loc.todo)
      /\ loc.resume # "return" => dir["slot"].here
  BY DEF Sweep, Writing, IInv, CtlOK, DirOK, DoneInv, SweepOK, Dirs
<1>2. ASSUME NEW ok \in BOOLEAN,
             GotoWith("sweep", [loc EXCEPT !.todo = Tail(@), !.clean = @ /\ ok]),
             SlotDone', dir'["slot"].here = dir["slot"].here,
             NEW t, t = Tail(loc.todo), ok /\ loc.clean => Covered(t)'
      PROVE  DoneInv'
  <2>1. /\ pc' = "sweep" /\ loc'.todo = Tail(loc.todo) /\ loc'.clean = (loc.clean /\ ok)
        /\ loc'.resume = loc.resume
    BY <1>1, <1>2 DEF GotoWith, Local
  <2>2. Tail(loc.todo) \in TodoLists
    BY <1>1, Tails DEF TodoLists
  <2>3. (loc.clean => Covered(loc.todo))'
    <3>1. loc'.todo = t /\ (loc'.clean => Covered(t)')
      BY <1>2, <2>1
    <3>. QED BY <3>1 DEF Covered
  <2>4. SweepOK'
    BY <1>1, <1>2, <2>1, <2>2, <2>3 DEF SweepOK
  <2>. QED BY <2>1, <2>4 DEF DoneInv, QuietOK, MetaOK, PickOK, DoneMeansOne, PublishLabels
<1>. DEFINE rest(ok) == GotoWith("sweep", [loc EXCEPT !.todo = Tail(@), !.clean = @ /\ ok])
<1>3. ASSUME NEW d \in {"previous", "committing"}, Head(loc.todo) = d,
             NEW r \in Drops(f, dir[d]), dir' = [dir EXCEPT ![d] = r.left], rest(r.ok)
      PROVE  DoneInv'
  <2>1. r.ok \in BOOLEAN /\ (r.ok => ~r.left.here)
    BY <1>3, DropsLeft, AbsentNotReady
  <2>2. /\ dir'["slot"] = dir["slot"] /\ dir'[d] = r.left
        /\ \A e \in {"previous", "committing"} \ {d} : dir'[e] = dir[e]
    BY <1>1, <1>3 DEF Dirs
  <2>3. ASSUME NEW t, t = Tail(loc.todo), r.ok, loc.clean PROVE Covered(t)'
    <3>1. \/ loc.todo = <<"committing">> /\ d = "committing"
          \/ loc.todo = <<"previous">> /\ d = "previous"
          \/ loc.todo = <<"previous", "committing">> /\ d = "previous"
      BY <1>1, <1>3, Tails DEF TodoLists
    <3>2. \/ t = <<>> /\ d = "committing" /\ ~dir["previous"].here
          \/ t = <<>> /\ d = "previous" /\ ~dir["committing"].here
          \/ t = <<"committing">> /\ d = "previous"
      BY <1>1, <2>3, <3>1, Tails, ListsDiffer DEF Covered
    <3>3. /\ dir'["previous"].here => t \notin {<<>>, <<"committing">>}
          /\ dir'["committing"].here => t \notin {<<>>, <<"previous">>}
      BY <2>1, <2>2, <2>3, <3>2, ListsDiffer
    <3>. QED BY <3>3 DEF Covered
  <2>. QED BY <1>2, <1>1, <1>3, <2>1, <2>2, <2>3 DEF SlotDone
<1>4. ASSUME NEW c \in Content, dir' = [dir EXCEPT !["slot"] = c], NEW ok \in BOOLEAN, rest(ok),
             c.here = dir["slot"].here, c.man = dir["slot"].man, c.meta = dir["slot"].meta,
             Head(loc.todo) \in {"bak", "tmp"}
      PROVE  DoneInv'
  <2>1. /\ dir'["slot"] = c /\ dir'["previous"] = dir["previous"]
        /\ dir'["committing"] = dir["committing"]
    BY <1>1, <1>4 DEF Dirs
  <2>2. SlotDone'
    BY <1>1, <1>4, <2>1 DEF SlotDone, Ready, MetaReady
  <2>3. Tail(loc.todo) \in {<<"tmp", "previous", "committing">>, <<"previous", "committing">>}
    BY <1>1, <1>4, Tails DEF TodoLists
  <2>4. ASSUME NEW t, t = Tail(loc.todo) PROVE Covered(t)'
    BY <2>3, <2>4, ListsDiffer DEF Covered
  <2>. QED BY <1>2, <1>4, <2>1, <2>2, <2>4
<1>5. ASSUME NEW r \in DropsFile(f, dir["slot"].bak),
             dir' = [dir EXCEPT !["slot"].bak = r.left], rest(r.ok), Head(loc.todo) = "bak"
      PROVE  DoneInv'
  <2>1. r.left \in File /\ r.ok \in BOOLEAN
    BY <1>1, <1>5, DropsFileOK DEF Content
  <2>. DEFINE c == [dir["slot"] EXCEPT !.bak = r.left]
  <2>2. /\ c \in Content /\ dir' = [dir EXCEPT !["slot"] = c]
        /\ c.here = dir["slot"].here /\ c.man = dir["slot"].man /\ c.meta = dir["slot"].meta
    BY <1>1, <1>5, <2>1 DEF Content, Dirs
  <2>. HIDE DEF c
  <2>. QED BY <1>4, <1>5, <2>1, <2>2
<1>6. ASSUME NEW r \in DropsFile(f, dir["slot"].tmp),
             dir' = [dir EXCEPT !["slot"].tmp = r.left], rest(r.ok), Head(loc.todo) = "tmp"
      PROVE  DoneInv'
  <2>1. r.left \in File /\ r.ok \in BOOLEAN
    BY <1>1, <1>6, DropsFileOK DEF Content
  <2>. DEFINE c == [dir["slot"] EXCEPT !.tmp = r.left]
  <2>2. /\ c \in Content /\ dir' = [dir EXCEPT !["slot"] = c]
        /\ c.here = dir["slot"].here /\ c.man = dir["slot"].man /\ c.meta = dir["slot"].meta
    BY <1>1, <1>6, <2>1 DEF Content, Dirs
  <2>. HIDE DEF c
  <2>. QED BY <1>4, <1>6, <2>1, <2>2
<1>7. Head(loc.todo) \in {"committing", "previous", "bak", "tmp"}
  BY <1>1, Tails DEF TodoLists
<1>. QED BY <1>3, <1>5, <1>6, <1>7 DEF Sweep, Dirs

LEMMA SweepDoneDone ==
  ASSUME IInv, DoneInv, NEW f \in BOOLEAN, SweepDone(f)
  PROVE  DoneInv'
<1>1. /\ pc = "sweep" /\ loc \in Local /\ UNCHANGED dir /\ SlotDone
      /\ loc.clean => Covered(<<>>)
      /\ loc.resume # "return" => dir["slot"].here
  BY DEF SweepDone, Reading, DoneInv, SweepOK, IInv, CtlOK
<1>2. CASE Return("pending")
  BY <1>1, <1>2, ReturnDone DEF Results
<1>3. CASE loc.clean /\ Return("done")
  BY <1>1, <1>3, ReturnDone DEF Results, Covered, SlotDone
<1>4. CASE loc.clean /\ loc.resume = "check" /\ Goto("check")
  BY <1>1, <1>4 DEF Goto, SlotDone, SlotOpen, DoneInv, QuietOK, MetaOK, PickOK, SweepOK,
     DoneMeansOne, PublishLabels
<1>5. CASE Tidy
  BY <1>1, <1>5, TidyDone
<1>. QED BY <1>2, <1>3, <1>4, <1>5 DEF SweepDone

LEMMA ReconcileDone ==
  ASSUME ~ReadFaults, IInv, DoneInv, Tidied, NEW f \in BOOLEAN, Reconcile(f)
  PROVE  DoneInv'
<1>1. CASE ReconcileThrows(f)
  BY <1>1, ReturnDone DEF ReconcileThrows, Results, IInv, CtlOK
<1>. QED BY <1>1, SurveyDone, ReadSlotMetaDone, DropSlotMetaDone, RestoreSlotMetaDone,
     DoubtSlotMetaDone, CheckSlotDone, PickFallbackDone, DropSlotDone, InstallDone,
     VerifyInstalledDone, SweepDirDone, SweepDoneDone DEF Reconcile

-----------------------------------------------------------------------------
(* The other components leave what a reconcile starts from.                *)

LEMMA ElsewhereDone ==
  ASSUME DoneInv, pc' \in Labels \ ReconcileLabels, pc' # "block",
         \/ loc'.clean /\ loc'.resume = "return"
         \/ pc' \notin {"clear", "stage", "manifest", "final"} \cup PublishLabels
  PROVE  DoneInv'
BY DEF DoneInv, QuietOK, MetaOK, PickOK, SweepOK, DoneMeansOne, ReconcileLabels

LEMMA PublishDone ==
  ASSUME IInv, DoneInv, NEW f \in BOOLEAN, PublishCommit(f)
  PROVE  DoneInv'
<1>1. pc \in PublishLabels /\ loc \in Local
  BY DEF PublishCommit, PublishCheck, DropStalePrevious, DropBadSlot, BringBackPrevious,
     MoveSlotAside, MoveCommitIn, UndoMoveAside, PublishTidy, PublishThrows, Reading, Writing,
     PublishLabels, IInv, CtlOK
<1>2. loc.clean /\ loc.resume = "return"
  BY <1>1 DEF DoneInv, QuietOK
<1>3. /\ pc' \in PublishLabels \cup {"final"}
      /\ loc' = loc \/ \E b : loc' = [loc EXCEPT !.published = b]
  BY DEF PublishCommit, PublishCheck, DropStalePrevious, DropBadSlot, BringBackPrevious,
     MoveSlotAside, MoveCommitIn, UndoMoveAside, PublishTidy, PublishThrows, NotPublished,
     Goto, GotoWith, PublishLabels
<1>4. loc'.clean /\ loc'.resume = "return"
  BY <1>1, <1>2, <1>3 DEF Local
<1>. QED BY <1>3, <1>4, ElsewhereDone DEF Labels, PublishLabels, ReconcileLabels

LEMMA BackupDone ==
  ASSUME IInv, DoneInv, NEW f \in BOOLEAN, Backup(f)
  PROVE  DoneInv'
<1>1. loc \in Local
  BY DEF IInv, CtlOK
<1>2. CASE ClearStaging(f) \/ Stage(f) \/ NameManifest(f)
  <2>1. loc.clean /\ loc.resume = "return"
    BY <1>2 DEF DoneInv, QuietOK, ClearStaging, Stage, NameManifest, Writing
  <2>2. /\ pc' \in {"stage", "end", "final", "manifest", "pub"}
        /\ loc' = loc \/ loc' = [loc EXCEPT !.owns = TRUE]
    BY <1>2 DEF ClearStaging, Stage, NameManifest, NotPublished, Goto, GotoWith
  <2>3. loc'.clean /\ loc'.resume = "return"
    BY <1>1, <2>1, <2>2 DEF Local
  <2>. QED BY <2>2, <2>3, ElsewhereDone DEF Labels, PublishLabels, ReconcileLabels
<1>3. CASE BackupFinally(f)
  <2>1. loc.clean /\ loc.resume = "return"
    BY <1>3 DEF DoneInv, QuietOK, BackupFinally, Reading
  <2>2. CASE GotoWith("reconcile", [loc EXCEPT !.ret = "settle"])
    <3>1. pc' = "reconcile" /\ loc'.clean /\ loc'.resume = "return"
      BY <1>1, <2>1, <2>2 DEF GotoWith, Local
    <3>. QED BY <3>1 DEF DoneInv, QuietOK, MetaOK, PickOK, SweepOK, DoneMeansOne, PublishLabels
  <2>3. CASE pc' = "settle"
    BY <2>3, ElsewhereDone DEF Labels, PublishLabels, ReconcileLabels
  <2>. QED BY <1>3, <2>2, <2>3 DEF BackupFinally, GotoWith
<1>4. CASE BackupVerdict(f)
  BY <1>4, ElsewhereDone DEF BackupVerdict, GotoWith, Labels, PublishLabels, ReconcileLabels
<1>. QED BY <1>2, <1>3, <1>4 DEF Backup

LEMMA EditDeleteDone ==
  ASSUME DoneInv, NEW f \in BOOLEAN, Edit(f) \/ Delete(f)
  PROVE  DoneInv'
<1>1. pc' \in EditLabels \cup DeleteLabels \cup {"end"}
  BY DEF Edit, ClearTemp, OpenTemp, CloseTemp, DropOldBackup, KeepOld, PublishTemp, PutBackOld,
     AbortEdit, DropKept, EditThrows, Delete, DeleteSlotDir, DeleteStaged, DeletePrevious,
     DeleteVerdict, DeleteThrows, Goto, GotoWith, EditLabels, DeleteLabels
<1>. QED BY <1>1, ElsewhereDone
     DEF Labels, EditLabels, DeleteLabels, PublishLabels, ReconcileLabels

LEMMA StepDone ==
  ASSUME ~ReadFaults, IInv, DoneInv, Tidied, NEW f \in BOOLEAN, Step(f)
  PROVE  DoneInv'
<1>1. CASE Block(f)
  <2>1. loc.clean /\ loc.resume = "return"
    BY <1>1 DEF Block, Reading, DoneInv, QuietOK
  <2>2. pc' \in {"end", "clear", "d_slot", "w_clear"} /\ loc' = loc
    BY <1>1 DEF Block, Goto
  <2>. QED BY <2>1, <2>2, ElsewhereDone
       DEF Labels, EditLabels, DeleteLabels, PublishLabels, ReconcileLabels
<1>. QED BY <1>1, ReconcileDone, PublishDone, BackupDone, EditDeleteDone DEF Step

LEMMA NextDone == ~ReadFaults /\ IInv /\ Tidied /\ DoneInv /\ [Next]_vars => DoneInv'
<1>. SUFFICES ASSUME ~ReadFaults, IInv, Tidied, DoneInv, [Next]_vars PROVE DoneInv'
  OBVIOUS
<1>1. ASSUME NEW f \in Outages, Step(f) PROVE DoneInv'
  BY <1>1, StepDone DEF Outages
<1>2. CASE End \/ Crash
  <2>1. pc' = "idle"
    BY <1>2 DEF End, Crash
  <2>. QED BY <2>1, ElsewhereDone DEF Labels, PublishLabels, ReconcileLabels
<1>3. ASSUME NEW o \in Ops \cup {"load"}, Begin(o) PROVE DoneInv'
  <2>1. pc' = "reconcile" /\ loc'.clean /\ loc'.resume = "return"
    BY <1>3 DEF Begin, GotoWith, Fresh
  <2>. QED BY <2>1 DEF DoneInv, QuietOK, MetaOK, PickOK, SweepOK, DoneMeansOne, PublishLabels
<1>4. ASSUME Forget \/ \E d \in Dirs : Damage(d) PROVE DoneInv'
  <2>1. pc = "idle" /\ pc' = "idle"
    BY <1>4 DEF Forget, Damage
  <2>. QED BY <2>1, ElsewhereDone DEF Labels, PublishLabels, ReconcileLabels
<1>5. CASE UNCHANGED vars
  BY <1>5 DEF vars, DoneInv, QuietOK, MetaOK, PickOK, SweepOK, DoneMeansOne, Covered,
     CopyThere, SlotOpen, SlotDone
<1>. QED BY <1>1, <1>2, <1>3, <1>4, <1>5 DEF Next, Program

\* With reliable reads a reconcile that answers Done to a guarded operation has
\* left one directory at most, complete and with its own metadata file, after
\* any crashes, failed writes and damage: reconcileDetailed's Done means done.
THEOREM DoneLeavesOne == ASSUME ~ReadFaults PROVE Spec => []DoneMeansOne
<1>1. Init => DoneInv
  BY DEF Init, DoneInv, QuietOK, MetaOK, PickOK, SweepOK, DoneMeansOne, PublishLabels
<1>2. Spec => [](IInv /\ Tidied)
  <2>1. HInv => IInv /\ Tidied
    BY DEF HInv, HereOK, Tidied
  <2>. QED BY <2>1, HAlways, PTL
<1>3. DoneInv => DoneMeansOne
  BY DEF DoneInv
<1>. QED BY <1>1, <1>2, <1>3, NextDone, PTL DEF Spec

-----------------------------------------------------------------------------
(* Register.                                                               *)

Covers(a, b) == a.ver >= b.ver /\ a.meta >= b.meta

\* The copy and the value of three directories s (slot), p (previous), c (committing).
BestOf(s, p, c) == IF Ready(s) THEN s ELSE IF Ready(p) THEN p ELSE IF Ready(c) THEN c ELSE Absent
Value(x) == [ver |-> x.ver, meta |-> ReadMeta(x)]
ValueOf(s, p, c) == Value(BestOf(s, p, c))

\* A directory whose payload, manifest and instance.json, or its .bak, are all right;
\* a torn .tmp may lie beside them.
Sound(x) ==
  /\ x.here /\ x.man = "ok" /\ x.meta # Torn /\ x.bak # Torn
  /\ Legible(x.meta) \/ Legible(x.bak)

\* A staged directory: one metadata file, written whole.
Clean(x) == x.meta # Torn /\ x.bak = NoFile /\ x.tmp = NoFile

\* Where the value is: in the slot, else in .previous, else in .committing.
Held(s, p, c) ==
  /\ s.here => Sound(s)
  /\ ~s.here /\ p.here => Sound(p)
  /\ Clean(c)

Below(x, n) == x.ver <= n /\ x.meta <= n /\ x.bak <= n /\ x.tmp <= n
Proper(x) == x \in Content /\ (~x.here => x = Absent)

-----------------------------------------------------------------------------
LEMMA ContentTypes ==
  ASSUME NEW x \in Content
  PROVE  /\ x.here \in BOOLEAN /\ x.ver \in Nat /\ x.meta \in Int /\ x.bak \in Int /\ x.tmp \in Int
         /\ x.meta >= -1 /\ x.bak >= -1 /\ x.tmp >= -1
         /\ ReadMeta(x) \in Nat /\ ReadMeta(x) \in 0 .. MaxClock /\ x.ver \in 0 .. MaxClock
         /\ x.man \in {"none", "bad", "ok"}
<1>1. x.ver \in 0 .. MaxClock /\ x.meta \in File /\ x.bak \in File /\ x.tmp \in File
      /\ x.here \in BOOLEAN /\ x.man \in {"none", "bad", "ok"}
  BY DEF Content
<1>2. File \subseteq Int /\ \A y \in File : y >= -1 /\ y <= MaxClock
  BY DEF File, Torn
<1>3. ReadMeta(x) \in 0 .. MaxClock
  <2>1. \A y \in File : y > 0 => y \in 0 .. MaxClock
    BY <1>2
  <2>2. 0 \in 0 .. MaxClock
    BY BoundsAssumption
  <2>. QED BY <1>1, <2>1, <2>2 DEF ReadMeta, Legible, NoFile
<1>4. 0 .. MaxClock \subseteq Nat
  OBVIOUS
<1>. QED BY <1>1, <1>2, <1>3, <1>4

LEMMA AbsentValue == Absent \in Content /\ Value(Absent) = [ver |-> 0, meta |-> 0]
BY AbsentOK DEF Absent, Value, ReadMeta, Legible, NoFile

LEMMA SoundReady ==
  ASSUME NEW x \in Content, Sound(x)
  PROVE  /\ Ready(x) /\ MetaReady(x)
         /\ ReadMeta(x) = IF Legible(x.meta) THEN x.meta ELSE x.bak
BY DEF Sound, Ready, MetaReady, ReadMeta

\* Which of the three directories the value is in.
LEMMA ValueHeld ==
  ASSUME NEW s, NEW p, NEW c, Proper(s), Proper(p), Proper(c), Held(s, p, c)
  PROVE  /\ s.here => ValueOf(s, p, c) = Value(s)
         /\ ~s.here /\ p.here => ValueOf(s, p, c) = Value(p)
         /\ ~s.here /\ ~p.here /\ Ready(c) => ValueOf(s, p, c) = Value(c)
         /\ ~s.here /\ ~p.here /\ ~Ready(c) => ValueOf(s, p, c) = [ver |-> 0, meta |-> 0]
<1>1. s.here => Ready(s)
  BY SoundReady DEF Held, Proper
<1>2. ~s.here => ~Ready(s)
  BY AbsentNotReady DEF Proper
<1>3. ~s.here /\ p.here => Ready(p)
  BY SoundReady DEF Held, Proper
<1>4. ~p.here => ~Ready(p)
  BY AbsentNotReady DEF Proper
<1>. QED BY <1>1, <1>2, <1>3, <1>4, AbsentValue DEF ValueOf, BestOf

\* Every value is a pair of numbers no larger than the newest one written.
LEMMA ValueTypes ==
  ASSUME NEW s \in Content, NEW p \in Content, NEW c \in Content
  PROVE  /\ ValueOf(s, p, c) \in [ver : 0 .. MaxClock, meta : 0 .. MaxClock]
         /\ \A n \in Nat : Below(s, n) /\ Below(p, n) /\ Below(c, n) =>
              ValueOf(s, p, c).ver <= n /\ ValueOf(s, p, c).meta <= n
<1>1. BestOf(s, p, c) \in {s, p, c, Absent}
  BY DEF BestOf
<1>2. BestOf(s, p, c) \in Content
  BY <1>1, AbsentOK
<1>3. ValueOf(s, p, c) \in [ver : 0 .. MaxClock, meta : 0 .. MaxClock]
  BY <1>2, ContentTypes DEF ValueOf, Value
<1>4. ASSUME NEW n \in Nat, Below(s, n), Below(p, n), Below(c, n)
      PROVE  ValueOf(s, p, c).ver <= n /\ ValueOf(s, p, c).meta <= n
  <2>1. Below(Absent, n)
    BY <1>4 DEF Below, Absent, NoFile
  <2>2. Below(BestOf(s, p, c), n)
    BY <1>1, <1>4, <2>1
  <2>. QED BY <1>2, <2>2, ContentTypes DEF ValueOf, Value, ReadMeta, Legible, NoFile, Below
<1>. QED BY <1>3, <1>4

\* The slot is there before and after, and its own value does not go back: nothing
\* that happens to the siblings counts.
LEMMA SlotHolds ==
  ASSUME NEW s, NEW p, NEW c, Proper(s), Proper(p), Proper(c), Held(s, p, c), s.here,
         NEW s2, NEW p2, NEW c2, Proper(s2), Proper(p2), Proper(c2), Sound(s2), Clean(c2),
         Covers(Value(s2), Value(s))
  PROVE  Held(s2, p2, c2) /\ Covers(ValueOf(s2, p2, c2), ValueOf(s, p, c))
<1>1. s2.here /\ Held(s2, p2, c2)
  BY DEF Held, Sound
<1>. QED BY <1>1, ValueHeld

\* A step that adds or removes what does not count, or moves what does, as it is.
LEMMA NothingHeld ==
  ASSUME NEW s, NEW p, NEW c, Proper(s), Proper(p), Proper(c), Held(s, p, c),
         Below(s, 0), Below(p, 0), Below(c, 0),
         NEW s2, NEW p2, NEW c2, Proper(s2), Proper(p2), Proper(c2)
  PROVE  /\ ~s.here /\ ~p.here
         /\ Covers(ValueOf(s2, p2, c2), ValueOf(s, p, c))
<1>1. ~s.here /\ ~p.here
  <2>1. /\ s.here \in BOOLEAN /\ s.meta \in Int /\ s.bak \in Int
        /\ p.here \in BOOLEAN /\ p.meta \in Int /\ p.bak \in Int
    BY ContentTypes DEF Proper
  <2>. QED BY <2>1 DEF Held, Sound, Legible, Below
<1>2. /\ ValueOf(s, p, c).ver \in Nat /\ ValueOf(s, p, c).ver <= 0
      /\ ValueOf(s, p, c).meta \in Nat /\ ValueOf(s, p, c).meta <= 0
      /\ ValueOf(s2, p2, c2).ver \in Nat /\ ValueOf(s2, p2, c2).meta \in Nat
  <2>1. 0 \in Nat /\ 0 .. MaxClock \subseteq Nat
    OBVIOUS
  <2>2. /\ ValueOf(s, p, c) \in [ver : 0 .. MaxClock, meta : 0 .. MaxClock]
        /\ ValueOf(s2, p2, c2) \in [ver : 0 .. MaxClock, meta : 0 .. MaxClock]
    BY ValueTypes DEF Proper
  <2>3. ValueOf(s, p, c).ver <= 0 /\ ValueOf(s, p, c).meta <= 0
    BY <2>1, ValueTypes DEF Proper
  <2>. QED BY <2>1, <2>2, <2>3
<1>. QED BY <1>1, <1>2 DEF Covers

-----------------------------------------------------------------------------
(* The inductive invariant.                                                *)

\* No number is newer than the clock.
NumOK ==
  /\ \A d \in Dirs : Below(dir[d], clock)
  /\ ack.ver <= clock /\ ack.meta <= clock

HeldOK == Held(dir["slot"], dir["previous"], dir["committing"])

\* A reconcile never doubts a slot that is there, so it replaces none.
RecAt ==
  /\ pc \notin {"pick", "slot_drop", "verify"}
  /\ pc = "doubt" => dir["slot"].here /\ ~Legible(dir["slot"].meta)
  /\ pc \in {"meta_drop", "meta_move"} => loc.file = "bak"
  /\ pc = "install" /\ loc.src = "committing" => ~dir["previous"].here
  /\ pc \in {"meta", "meta_drop", "meta_move", "install"} => loc.then \in {"check", "sweep"}
  /\ pc = "sweep" /\ ~dir["slot"].here =>
       /\ ~dir["previous"].here /\ dir["committing"].man = "none"
       /\ loc.todo \in {<<>>, <<"committing">>}

\* A staging directory is cleared while the slot holds the value, or there is none.
StageAt ==
  /\ op = "create" /\ (pc = "block" \/ (pc \in ReconcileLabels /\ loc.ret = "block")) => clock = 0
  /\ pc \in {"clear", "stage"} => dir["slot"].here \/ clock = 0

IsNewest(x) == x.here /\ x.ver = clock /\ x.meta = clock /\ clock > 0

\* While it is published, the new backup is in .committing and then in the slot.
NewAt ==
  /\ pc \in {"manifest"} \cup (PublishLabels \ {"pub_tidy"}) => IsNewest(dir["committing"])
  /\ pc \in PublishLabels \ {"pub_tidy"} => dir["committing"].man = "ok"
  /\ pc = "pub_tidy" => IsNewest(dir["slot"])
  /\ pc # "pub_swap"
  /\ pc = "pub_prev" => dir["slot"].here
  /\ pc = "pub_out" => ~dir["previous"].here
  /\ pc \in {"pub_in", "pub_undo"} => ~dir["slot"].here

\* An edit keeps the old metadata at .bak until the new one has its name.
EditAt ==
  /\ pc \in EditLabels => dir["slot"].here
  /\ pc \in {"w_close", "w_old", "w_keep", "w_new"} => clock > 0
  /\ pc \in {"w_old", "w_keep", "w_new"} => dir["slot"].tmp = clock
  /\ pc = "w_keep" => Legible(dir["slot"].meta)
  /\ pc = "w_done" => dir["slot"].meta = clock /\ clock > 0

\* What is about to be reported, and what was, is held.
SaidAt ==
  /\ pc \notin {"d_comm", "d_prev", "d_check"}
  /\ loc.published =>
       /\ pc \in {"final", "settle", "end"} \/ (pc \in ReconcileLabels /\ loc.ret = "settle")
       /\ Covers(BestVersion, [ver |-> clock, meta |-> clock])
  /\ pc = "end" /\ loc.ok /\ op \in {"create", "update"} => loc.published
  /\ pc = "end" /\ loc.ok /\ op = "edit" =>
       dir["slot"].here /\ dir["slot"].meta = clock /\ clock > 0
  /\ Covers(BestVersion, ack)

RegOK == NumOK /\ HeldOK /\ RecAt /\ StageAt /\ NewAt /\ EditAt /\ SaidAt
RegInv == ack.doomed \/ RegOK

\* A step that does not take the id back to an older copy.
Rise == Covers(BestVersion', BestVersion)

\* The facts of every reachable state, before and after a step.
Ctx == HInv /\ DoneInv

-----------------------------------------------------------------------------
LEMMA Propers ==
  ASSUME HInv, HInv'
  PROVE  \A d \in Dirs : Proper(dir[d]) /\ Proper(dir'[d])
BY DEF HInv, IInv, DirOK, HereOK, Proper

LEMMA ValueIs ==
  /\ BestVersion = ValueOf(dir["slot"], dir["previous"], dir["committing"])
  /\ BestVersion' = ValueOf(dir'["slot"], dir'["previous"], dir'["committing"])
BY DEF BestVersion, Best, ValueOf, BestOf, Value

LEMMA NumTypes ==
  ASSUME HInv, HInv'
  PROVE  /\ BestVersion \in [ver : Nat, meta : Nat] /\ BestVersion' \in [ver : Nat, meta : Nat]
         /\ clock \in Nat /\ clock' \in Nat /\ ack.ver \in Nat /\ ack.meta \in Nat
<1>1. \A d \in Dirs : dir[d] \in Content /\ dir'[d] \in Content
  BY Propers DEF Proper
<1>2. 0 .. MaxClock \subseteq Nat
  OBVIOUS
<1>3. /\ BestVersion \in [ver : 0 .. MaxClock, meta : 0 .. MaxClock]
      /\ BestVersion' \in [ver : 0 .. MaxClock, meta : 0 .. MaxClock]
  BY <1>1, ValueIs, ValueTypes DEF Dirs
<1>4. clock \in Nat /\ clock' \in Nat /\ ack.ver \in Nat /\ ack.meta \in Nat
  BY <1>2 DEF HInv, IInv, RestOK
<1>. QED BY <1>2, <1>3, <1>4

\* The slot holds the value, and the step leaves it there or makes it newer.
LEMMA SlotKept ==
  ASSUME HInv, HInv', HeldOK, dir["slot"].here, Sound(dir'["slot"]), Clean(dir'["committing"]),
         Covers(Value(dir'["slot"]), Value(dir["slot"]))
  PROVE  HeldOK' /\ Rise
BY Propers, ValueIs, SlotHolds DEF HeldOK, Rise, Dirs

\* The step does not touch the directories.
LEMMA Still ==
  ASSUME HInv, HInv', NumOK, HeldOK, UNCHANGED <<dir, clock, ack>>
  PROVE  NumOK' /\ HeldOK' /\ Rise
<1>1. NumOK' /\ HeldOK'
  BY DEF NumOK, HeldOK
<1>2. BestVersion' = BestVersion
  BY ValueIs
<1>. QED BY <1>1, <1>2, NumTypes DEF Rise, Covers

\* What a delete, a move or a rewrite of the slot leaves where.
LEMMA DropTo ==
  ASSUME ~ReadFaults, HInv, NumOK, UNCHANGED <<clock, ack>>, NEW f, NEW d \in Dirs,
         NEW r \in Drops(f, dir[d]), dir' = [dir EXCEPT ![d] = r.left]
  PROVE  /\ dir'[d] = r.left /\ \A e \in Dirs : e # d => dir'[e] = dir[e]
         /\ NumOK' /\ (Clean(dir[d]) => Clean(r.left)) /\ (r.ok => ~dir'[d].here)
         /\ (~dir[d].here => r.ok)
         /\ r.ok \in BOOLEAN
<1>1. dir'[d] = r.left /\ \A e \in Dirs : e # d => dir'[e] = dir[e]
  BY DEF HInv, IInv, DirOK
<1>2. /\ r.left \in {Absent, dir[d]} \cup Remnants(dir[d]) /\ r.ok \in BOOLEAN
      /\ r.ok => r.left = Absent
  BY DropsLeft
<1>3. clock \in Nat
  BY DEF HInv, IInv, RestOK
<1>4. /\ r.left.ver \in {dir[d].ver, 0} /\ r.left.meta \in {dir[d].meta, 0}
      /\ r.left.bak \in {dir[d].bak, 0} /\ r.left.tmp \in {dir[d].tmp, 0}
  <2>1. CASE r.left \in Remnants(dir[d])
    BY <2>1 DEF Remnants, NoFile
  <2>. QED BY <1>2, <2>1 DEF Absent, NoFile
<1>5. Below(r.left, clock) /\ (Clean(dir[d]) => Clean(r.left))
  <2>1. Below(dir[d], clock)
    BY DEF NumOK
  <2>. QED BY <1>3, <1>4, <2>1 DEF Below, Clean, NoFile, Torn
<1>6. ~dir[d].here => r.ok
  BY DEF Drops
<1>7. NumOK'
  BY <1>1, <1>5 DEF NumOK
<1>. QED BY <1>1, <1>2, <1>5, <1>6, <1>7, AbsentNotReady

LEMMA MoveTo ==
  ASSUME HInv, NumOK, UNCHANGED <<clock, ack>>, NEW a \in Dirs, NEW b \in Dirs, a # b,
         dir' = Moved(a, b)
  PROVE  /\ dir'[b] = dir[a] /\ dir'[a] = Absent
         /\ \A e \in Dirs \ {a, b} : dir'[e] = dir[e]
         /\ NumOK'
<1>1. /\ dir'[b] = dir[a] /\ dir'[a] = Absent
      /\ \A e \in Dirs \ {a, b} : dir'[e] = dir[e]
  BY DEF Moved, HInv, IInv, DirOK
<1>2. clock \in Nat
  BY DEF HInv, IInv, RestOK
<1>3. Below(Absent, clock)
  BY <1>2 DEF Below, Absent, NoFile
<1>. QED BY <1>1, <1>3 DEF NumOK

LEMMA SlotTo ==
  ASSUME HInv, NEW c, dir' = [dir EXCEPT !["slot"] = c]
  PROVE  /\ dir'["slot"] = c /\ dir'["previous"] = dir["previous"]
         /\ dir'["committing"] = dir["committing"]
BY DEF HInv, IInv, DirOK, Dirs

\* Deleting a sibling of the slot that holds the value.
LEMMA SiblingDropped ==
  ASSUME ~ReadFaults, HInv, HInv', NumOK, HeldOK, UNCHANGED <<clock, ack>>, dir["slot"].here,
         NEW f, NEW d \in {"previous", "committing"},
         NEW r \in Drops(f, dir[d]), dir' = [dir EXCEPT ![d] = r.left]
  PROVE  NumOK' /\ HeldOK' /\ Rise /\ dir'["slot"] = dir["slot"]
<1>1. /\ dir'[d] = r.left /\ \A e \in Dirs : e # d => dir'[e] = dir[e]
      /\ NumOK' /\ (Clean(dir[d]) => Clean(r.left))
  BY DropTo DEF Dirs
<1>2. dir'["slot"] = dir["slot"] /\ Sound(dir["slot"])
  BY <1>1 DEF HeldOK, Held, Dirs
<1>3. Clean(dir'["committing"])
  BY <1>1 DEF HeldOK, Held, Dirs
<1>4. Covers(Value(dir'["slot"]), Value(dir["slot"]))
  <2>1. dir["slot"] \in Content
    BY Propers DEF Proper, Dirs
  <2>. QED BY <1>2, <2>1, ContentTypes DEF Covers, Value
<1>. QED BY <1>1, <1>2, <1>3, <1>4, SlotKept

-----------------------------------------------------------------------------
(* The steps of a reconcile.                                               *)

Steady == NumOK' /\ HeldOK' /\ Rise

LEMMA ReturnReg ==
  ASSUME loc \in Local, NEW r, Return(r)
  PROVE  RecAt'
<1>1. pc' \in {"end", "block", "settle"}
  BY DEF Return, GotoWith, Local
<1>. QED BY <1>1 DEF RecAt

LEMMA TidyReg ==
  ASSUME loc \in Local, UNCHANGED dir, dir["slot"].here, Tidy
  PROVE  RecAt'
BY DEF Tidy, GotoWith, RecAt

LEMMA SurveyReg ==
  ASSUME ~ReadFaults, Ctx, HInv', RegOK, NEW f \in BOOLEAN, Survey(f)
  PROVE  Steady /\ RecAt'
<1>1. /\ loc \in Local /\ DirOK /\ HeldOK /\ NumOK
      /\ UNCHANGED <<dir, op, clock, ack>>
      /\ \A d \in Dirs : dir[d] \in Content
  BY DEF Ctx, HInv, IInv, CtlOK, DirOK, RegOK, Survey, Reading
<1>2. Steady
  BY <1>1, Still DEF Ctx, Steady
<1>3. CASE dir["slot"].here /\ SurveySlot(f)
  <2>1. MetaReady(dir["slot"])
    BY <1>1, <1>3, SoundReady DEF HeldOK, Held, Dirs
  <2>2. GotoWith("meta", [loc EXCEPT !.then = "check"])
    BY <1>1, <1>3, <2>1, TrueAnswers, ReadyTypes, ReadinessValues DEF SurveySlot, Dirs
  <2>3. pc' = "meta" /\ loc'.then = "check"
    BY <1>1, <2>2 DEF GotoWith, Local
  <2>. QED BY <1>2, <2>3 DEF RecAt
<1>4. CASE ~dir["slot"].here /\ dir["previous"].here /\ SurveyPrevious(f)
  <2>1. Ready(dir["previous"])
    BY <1>1, <1>4, SoundReady DEF HeldOK, Held, Dirs
  <2>2. InstallFrom("previous", <<"committing">>)
    BY <1>1, <1>4, <2>1, TrueAnswers, ReadyTypes, ReadinessValues DEF SurveyPrevious, Dirs
  <2>3. pc' = "install" /\ loc'.src = "previous" /\ loc'.then = "sweep"
    BY <1>1, <2>2 DEF InstallFrom, GotoWith, Local
  <2>. QED BY <1>2, <2>3 DEF RecAt
<1>5. CASE ~dir["slot"].here /\ ~dir["previous"].here /\ SurveyStaged(f)
  <2>1. \/ Return("pending")
        \/ dir["committing"].man = "none" /\ SweepOnly(<<"committing">>)
        \/ InstallFrom("committing", <<>>)
    <3>1. /\ backupReady(f, "committing") = {Readiness(Ready(dir["committing"]))}
          /\ manifestExists(f, "committing") = {dir["committing"].man # "none"}
      BY TrueAnswers
    <3>2. Readiness(Ready(dir["committing"])) \in {"ready", "unavailable"}
      BY DEF Readiness
    <3>. QED BY <1>5, <3>1, <3>2 DEF SurveyStaged
  <2>2. CASE dir["committing"].man = "none" /\ SweepOnly(<<"committing">>)
    <3>1. pc' = "sweep" /\ loc'.todo = <<"committing">>
      BY <1>1, <2>2 DEF SweepOnly, GotoWith, Local
    <3>. QED BY <1>1, <1>2, <1>5, <2>2, <3>1 DEF RecAt
  <2>3. CASE InstallFrom("committing", <<>>)
    <3>1. pc' = "install" /\ loc'.then = "sweep"
      BY <1>1, <2>3 DEF InstallFrom, GotoWith, Local
    <3>. QED BY <1>1, <1>2, <1>5, <3>1 DEF RecAt
  <2>. QED BY <1>1, <1>2, <2>1, <2>2, <2>3, ReturnReg
<1>6. CASE Return("done")
  BY <1>1, <1>2, <1>6, ReturnReg
<1>. QED BY <1>3, <1>4, <1>5, <1>6, TrueAnswers DEF Survey

\* recoverMeta restores instance.json from .bak, so the metadata shown stays.
LEMMA MetaLabels ==
  ASSUME Ctx, RegOK, pc \in {"meta", "meta_drop", "meta_move"}
  PROVE  /\ dir["slot"].here /\ Sound(dir["slot"]) /\ dir["slot"] \in Content
         /\ loc \in Local /\ loc.then \in {"check", "sweep"}
         /\ pc # "meta" => loc.file = "bak" /\ ~Legible(dir["slot"].meta)
BY DEF Ctx, HInv, IInv, DirOK, CtlOK, DoneInv, MetaOK, RegOK, HeldOK, Held, RecAt, Dirs

LEMMA ThenReg ==
  ASSUME loc.then \in {"check", "sweep"}, Goto(loc.then), dir'["slot"].here
  PROVE  RecAt'
BY DEF Goto, RecAt

LEMMA UnrecoveredReg ==
  ASSUME loc \in Local, Unrecovered, dir'["slot"].here, ~Legible(dir'["slot"].meta)
  PROVE  RecAt'
<1>1. CASE Goto("doubt")
  BY <1>1 DEF Goto, RecAt
<1>. QED BY <1>1, ReturnReg DEF Unrecovered

LEMMA ReadSlotMetaReg ==
  ASSUME ~ReadFaults, Ctx, HInv', RegOK, NEW f \in BOOLEAN, ReadSlotMeta(f)
  PROVE  Steady /\ RecAt'
<1>1. UNCHANGED <<dir, op, clock, ack>> /\ pc = "meta"
  BY DEF ReadSlotMeta, Reading
<1>2. Steady
  BY <1>1, Still DEF Ctx, RegOK, Steady
<1>3. /\ dir["slot"].here /\ Sound(dir["slot"]) /\ loc \in Local
      /\ loc.then \in {"check", "sweep"}
  BY <1>1, MetaLabels
<1>4. \/ Goto(loc.then)
      \/ GotoWith("meta_drop", [loc EXCEPT !.file = "bak"])
  <2>1. \A x : Legible(x) \in BOOLEAN
    BY DEF Legible
  <2>. QED BY <1>3, <2>1, TrueMeta, ReadinessValues DEF ReadSlotMeta, Sound
<1>5. CASE GotoWith("meta_drop", [loc EXCEPT !.file = "bak"])
  <2>1. pc' = "meta_drop" /\ loc'.file = "bak" /\ loc'.then = loc.then
    BY <1>3, <1>5 DEF GotoWith, Local
  <2>. QED BY <1>2, <1>3, <2>1 DEF RecAt
<1>. QED BY <1>1, <1>2, <1>3, <1>4, <1>5, ThenReg

\* A rewrite of the slot's files: the payload and the manifest stay.
Rewrite(x, y) == y.here = x.here /\ y.man = x.man /\ y.ver = x.ver

LEMMA Rewritten ==
  ASSUME HInv, HInv', NumOK, HeldOK, dir["slot"].here, clock' \in Nat, clock' >= clock,
         UNCHANGED ack, NEW c \in Content, dir' = [dir EXCEPT !["slot"] = c],
         Rewrite(dir["slot"], c), c.meta # Torn, c.bak # Torn,
         Legible(c.meta) \/ Legible(c.bak), ReadMeta(c) >= ReadMeta(dir["slot"]),
         c.meta <= clock', c.bak <= clock', c.tmp <= clock'
  PROVE  Steady /\ dir'["slot"] = c
<1>1. /\ dir'["slot"] = c /\ dir'["previous"] = dir["previous"]
      /\ dir'["committing"] = dir["committing"]
  BY SlotTo
<1>2. Sound(dir["slot"]) /\ Clean(dir["committing"])
  BY DEF HeldOK, Held
<1>3. Sound(c)
  BY <1>2 DEF Sound, Rewrite
<1>4. \A d \in Dirs : dir[d] \in Content
  BY Propers DEF Proper
<1>5. Covers(Value(c), Value(dir["slot"]))
  BY <1>4, ContentTypes DEF Covers, Value, Rewrite, Dirs
<1>6. HeldOK' /\ Rise
  BY <1>1, <1>2, <1>3, <1>5, SlotKept
<1>7. NumOK'
  <2>1. clock \in Nat /\ ack.ver \in Nat /\ ack.meta \in Nat
    BY NumTypes
  <2>2. Below(c, clock')
    BY <1>4, <2>1, ContentTypes DEF NumOK, Below, Rewrite, Dirs
  <2>3. \A d \in {"previous", "committing"} : Below(dir[d], clock')
    BY <1>4, <2>1, ContentTypes DEF NumOK, Below, Dirs
  <2>. QED BY <1>1, <2>1, <2>2, <2>3 DEF NumOK, Dirs
<1>. QED BY <1>1, <1>6, <1>7 DEF Steady

LEMMA DropSlotMetaReg ==
  ASSUME ~ReadFaults, Ctx, HInv', RegOK, NEW f \in BOOLEAN, DropSlotMeta(f)
  PROVE  Steady /\ RecAt'
<1>1. UNCHANGED <<op, clock, ack>> /\ pc = "meta_drop"
  BY DEF DropSlotMeta, Writing
<1>2. /\ dir["slot"].here /\ Sound(dir["slot"]) /\ dir["slot"] \in Content
      /\ loc \in Local /\ loc.then \in {"check", "sweep"} /\ loc.file = "bak"
      /\ ~Legible(dir["slot"].meta)
  BY <1>1, MetaLabels
<1>3. PICK r \in DropsFile(f, dir["slot"].meta) :
        /\ dir' = [dir EXCEPT !["slot"].meta = r.left]
        /\ IF r.ok THEN Goto("meta_move") ELSE Unrecovered
  BY DEF DropSlotMeta
<1>4. r.left \in {dir["slot"].meta, NoFile}
  BY DropsFileLeft
<1>. DEFINE c == [dir["slot"] EXCEPT !.meta = r.left]
<1>5. /\ c \in Content /\ dir' = [dir EXCEPT !["slot"] = c] /\ Rewrite(dir["slot"], c)
      /\ c.meta = r.left /\ c.bak = dir["slot"].bak /\ c.tmp = dir["slot"].tmp
  BY <1>2, <1>3, <1>4, FileOK DEF Content, Rewrite, Ctx, HInv, IInv, DirOK, Dirs
<1>. HIDE DEF c
<1>6. /\ c.meta # Torn /\ c.bak # Torn /\ Legible(c.bak) /\ ~Legible(c.meta)
      /\ ReadMeta(c) = ReadMeta(dir["slot"])
  BY <1>2, <1>4, <1>5 DEF Sound, NoFile, Torn, Legible, ReadMeta
<1>7. /\ clock \in Nat /\ c.meta <= clock /\ c.bak <= clock /\ c.tmp <= clock
      /\ ReadMeta(c) \in Nat
  BY <1>4, <1>5, ContentTypes, NumTypes DEF RegOK, NumOK, Below, Dirs, NoFile, Ctx
<1>8. Steady /\ dir'["slot"] = c
  <2>1. /\ HInv /\ HInv' /\ NumOK /\ HeldOK /\ dir["slot"].here /\ clock' = clock
        /\ UNCHANGED ack /\ ReadMeta(c) >= ReadMeta(dir["slot"])
        /\ clock' \in Nat /\ clock' >= clock
        /\ c.meta <= clock' /\ c.bak <= clock' /\ c.tmp <= clock'
    BY <1>1, <1>2, <1>6, <1>7 DEF RegOK, Ctx
  <2>. QED BY <1>5, <1>6, <1>7, <2>1, Rewritten
<1>9. CASE Goto("meta_move")
  BY <1>2, <1>8, <1>9 DEF Goto, RecAt
<1>. QED BY <1>2, <1>3, <1>5, <1>6, <1>8, <1>9, UnrecoveredReg DEF Rewrite

LEMMA RestoreSlotMetaReg ==
  ASSUME ~ReadFaults, Ctx, HInv', RegOK, NEW f \in BOOLEAN, RestoreSlotMeta(f)
  PROVE  Steady /\ RecAt'
<1>1. UNCHANGED <<op, clock, ack>> /\ pc = "meta_move"
  BY DEF RestoreSlotMeta, Writing
<1>2. /\ dir["slot"].here /\ Sound(dir["slot"]) /\ dir["slot"] \in Content
      /\ loc \in Local /\ loc.then \in {"check", "sweep"} /\ loc.file = "bak"
      /\ ~Legible(dir["slot"].meta)
  BY <1>1, MetaLabels
<1>3. CASE UNCHANGED dir /\ Unrecovered
  <2>1. Steady
    BY <1>1, <1>3, Still DEF Ctx, RegOK, Steady
  <2>. QED BY <1>2, <1>3, <2>1, UnrecoveredReg
<1>4. CASE /\ dir' = [dir EXCEPT !["slot"].meta = dir["slot"].bak, !["slot"].bak = NoFile]
           /\ Goto(loc.then)
  <2>. DEFINE c == [dir["slot"] EXCEPT !.meta = dir["slot"].bak, !.bak = NoFile]
  <2>1. /\ c \in Content /\ dir' = [dir EXCEPT !["slot"] = c] /\ Rewrite(dir["slot"], c)
        /\ c.meta = dir["slot"].bak /\ c.bak = NoFile /\ c.tmp = dir["slot"].tmp
    BY <1>2, <1>4, FileOK DEF Content, Rewrite, Ctx, HInv, IInv, DirOK, Dirs
  <2>. HIDE DEF c
  <2>2. /\ c.meta # Torn /\ c.bak # Torn /\ Legible(c.meta)
        /\ ReadMeta(c) = ReadMeta(dir["slot"])
    BY <1>2, <2>1 DEF Sound, NoFile, Torn, Legible, ReadMeta
  <2>3. /\ clock \in Nat /\ c.meta <= clock /\ c.bak <= clock /\ c.tmp <= clock
        /\ ReadMeta(c) \in Nat
    BY <2>1, ContentTypes, NumTypes DEF RegOK, NumOK, Below, Dirs, NoFile, Ctx
  <2>4. /\ HInv /\ HInv' /\ NumOK /\ HeldOK /\ dir["slot"].here /\ clock' = clock
        /\ UNCHANGED ack /\ ReadMeta(c) >= ReadMeta(dir["slot"])
        /\ clock' \in Nat /\ clock' >= clock
        /\ c.meta <= clock' /\ c.bak <= clock' /\ c.tmp <= clock'
    BY <1>1, <1>2, <2>2, <2>3 DEF RegOK, Ctx
  <2>5. Steady /\ dir'["slot"] = c
    BY <2>1, <2>2, <2>3, <2>4, Rewritten
  <2>. QED BY <1>2, <1>4, <2>1, <2>5, ThenReg DEF Rewrite
<1>. QED BY <1>2, <1>3, <1>4 DEF RestoreSlotMeta

LEMMA DoubtCheckReg ==
  ASSUME ~ReadFaults, Ctx, HInv', RegOK, NEW f \in BOOLEAN, DoubtSlotMeta(f) \/ CheckSlot(f)
  PROVE  Steady /\ RecAt'
<1>1. UNCHANGED <<dir, op, clock, ack>> /\ pc \in {"doubt", "check"} /\ loc \in Local
  BY DEF DoubtSlotMeta, CheckSlot, Reading, Ctx, HInv, IInv, CtlOK
<1>2. Steady
  BY <1>1, Still DEF Ctx, RegOK, Steady
<1>3. dir["slot"].here /\ Sound(dir["slot"]) /\ dir["slot"] \in Content
  BY <1>1 DEF Ctx, HInv, IInv, DirOK, DoneInv, MetaOK, SlotOpen, RegOK, HeldOK, Held, RecAt, Dirs
<1>4. CASE DoubtSlotMeta(f)
  <2>1. Legible(dir["slot"].bak)
    BY <1>3, <1>4 DEF DoubtSlotMeta, Reading, RegOK, RecAt, Sound
  <2>2. Return("pending")
    <3>1. hasReadableMetaCopy(f, "slot") = {TRUE}
      BY <2>1, TrueAnswers DEF Legible
    <3>. QED BY <1>4, <3>1 DEF DoubtSlotMeta
  <2>. QED BY <1>1, <1>2, <2>2, ReturnReg
<1>5. CASE CheckSlot(f)
  <2>1. Tidy
    <3>1. Ready(dir["slot"])
      BY <1>3, SoundReady
    <3>2. backupReady(f, "slot") = {"ready"}
      BY <3>1, TrueAnswers DEF Readiness
    <3>. QED BY <1>5, <3>2 DEF CheckSlot
  <2>. QED BY <1>1, <1>2, <1>3, <2>1, TidyReg
<1>. QED BY <1>4, <1>5

LEMMA InstallReg ==
  ASSUME ~ReadFaults, Ctx, HInv', RegOK, NEW f \in BOOLEAN, Install(f)
  PROVE  Steady /\ RecAt'
<1>1. /\ UNCHANGED <<op, clock, ack>> /\ pc = "install" /\ loc \in Local
      /\ loc.src \in {"previous", "committing"} /\ Ready(dir[loc.src])
      /\ loc.src = "committing" => ~dir["previous"].here
      /\ ~dir["slot"].here /\ loc.then \in {"check", "sweep"}
  BY DEF Install, Writing, Ctx, HInv, IInv, CtlOK, DoneInv, PickOK, RegOK, RecAt
<1>2. \A d \in Dirs : Proper(dir[d]) /\ Proper(dir'[d])
  BY Propers DEF Ctx
<1>3. CASE UNCHANGED dir /\ Return("failed")
  BY <1>1, <1>3, Still, ReturnReg DEF Ctx, RegOK, Steady
<1>4. CASE dir' = Moved(loc.src, "slot") /\ Goto("meta")
  <2>1. /\ dir'["slot"] = dir[loc.src] /\ dir'[loc.src] = Absent
        /\ \A e \in Dirs \ {loc.src, "slot"} : dir'[e] = dir[e]
        /\ NumOK'
    BY <1>1, <1>4, MoveTo DEF Ctx, RegOK, Dirs
  <2>2. dir[loc.src].here /\ Sound(dir[loc.src])
    <3>1. dir[loc.src].here
      BY <1>1, <1>2, AbsentNotReady DEF Proper, Dirs
    <3>2. CASE loc.src = "previous"
      BY <1>1, <3>1, <3>2 DEF RegOK, HeldOK, Held
    <3>3. CASE loc.src = "committing"
      <4>1. Clean(dir["committing"])
        BY DEF RegOK, HeldOK, Held
      <4>2. Legible(dir["committing"].meta) /\ dir["committing"].man = "ok"
        BY <1>1, <3>3, <4>1 DEF Clean, Ready, MetaReady, Legible, NoFile
      <4>. QED BY <3>1, <3>3, <4>1, <4>2 DEF Clean, Sound, NoFile, Torn
    <3>. QED BY <1>1, <3>2, <3>3
  <2>3. BestVersion = Value(dir[loc.src])
    <3>1. Held(dir["slot"], dir["previous"], dir["committing"])
      BY DEF RegOK, HeldOK
    <3>. QED BY <1>1, <1>2, <2>2, <3>1, ValueIs, ValueHeld DEF Dirs
  <2>4. Clean(dir'["committing"])
    BY <1>1, <2>1 DEF RegOK, HeldOK, Held, Clean, Absent, NoFile, Torn, Dirs
  <2>5. HeldOK'
    BY <2>1, <2>2, <2>4 DEF HeldOK, Held
  <2>6. BestVersion' = Value(dir'["slot"])
    <3>1. Held(dir'["slot"], dir'["previous"], dir'["committing"])
      BY <2>5 DEF HeldOK
    <3>. QED BY <1>2, <2>1, <2>2, <3>1, ValueIs, ValueHeld DEF Dirs
  <2>7. Rise
    BY <2>1, <2>3, <2>6, NumTypes DEF Rise, Covers, Ctx
  <2>8. RecAt'
    BY <1>1, <1>4, <2>1, <2>2 DEF Goto, RecAt
  <2>. QED BY <2>1, <2>5, <2>7, <2>8 DEF Steady
<1>. QED BY <1>3, <1>4 DEF Install

\* A sweep takes away what the value does not depend on.
LEMMA SweepReg ==
  ASSUME ~ReadFaults, Ctx, HInv', RegOK, NEW f \in BOOLEAN, Sweep(f)
  PROVE  Steady /\ RecAt'
<1>1. /\ UNCHANGED <<op, clock, ack>> /\ pc = "sweep" /\ loc \in Local
      /\ loc.todo \in TodoLists /\ loc.todo # <<>> /\ SlotDone
  BY DEF Sweep, Writing, Ctx, HInv, IInv, CtlOK, DoneInv, SweepOK
<1>2. \A d \in Dirs : Proper(dir[d]) /\ Proper(dir'[d])
  BY Propers DEF Ctx
<1>. DEFINE rest(ok) == GotoWith("sweep", [loc EXCEPT !.todo = Tail(@), !.clean = @ /\ ok])
<1>3. ASSUME NEW ok, rest(ok) PROVE pc' = "sweep" /\ loc'.todo = Tail(loc.todo)
  BY <1>1, <1>3 DEF GotoWith, Local
<1>4. CASE dir["slot"].here
  <2>1. Sound(dir["slot"]) /\ Legible(dir["slot"].meta)
    BY <1>1, <1>4 DEF RegOK, HeldOK, Held, SlotDone
  <2>2. ASSUME NEW r \in Drops(f, dir[Head(loc.todo)]), Head(loc.todo) \in Dirs,
               dir' = [dir EXCEPT ![Head(loc.todo)] = r.left], rest(r.ok)
        PROVE  Steady /\ RecAt'
    <3>1. Head(loc.todo) \in {"previous", "committing"}
      BY <1>1, <2>2, Tails DEF TodoLists, Dirs
    <3>2. NumOK' /\ HeldOK' /\ Rise /\ dir'["slot"] = dir["slot"]
      BY <1>1, <1>4, <2>2, <3>1, SiblingDropped DEF Ctx, RegOK
    <3>. QED BY <1>3, <1>4, <2>2, <3>2 DEF Steady, RecAt
  <2>3. ASSUME NEW c \in Content, dir' = [dir EXCEPT !["slot"] = c], Rewrite(dir["slot"], c),
               c.meta = dir["slot"].meta, c.bak \in {dir["slot"].bak, NoFile},
               c.tmp \in {dir["slot"].tmp, NoFile}, NEW ok, rest(ok)
        PROVE  Steady /\ RecAt'
    <3>1. /\ c.meta # Torn /\ c.bak # Torn /\ Legible(c.meta)
          /\ ReadMeta(c) = ReadMeta(dir["slot"])
      BY <2>1, <2>3 DEF Sound, NoFile, Torn, Legible, ReadMeta
    <3>2. /\ clock \in Nat /\ c.meta <= clock /\ c.bak <= clock /\ c.tmp <= clock
          /\ ReadMeta(c) \in Nat
      BY <2>3, ContentTypes, NumTypes DEF RegOK, NumOK, Below, Dirs, NoFile, Ctx
    <3>3. /\ HInv /\ HInv' /\ NumOK /\ HeldOK /\ dir["slot"].here /\ clock' = clock
          /\ UNCHANGED ack /\ ReadMeta(c) >= ReadMeta(dir["slot"])
          /\ clock' \in Nat /\ clock' >= clock
          /\ c.meta <= clock' /\ c.bak <= clock' /\ c.tmp <= clock'
      BY <1>1, <1>4, <3>1, <3>2 DEF RegOK, Ctx
    <3>4. Steady /\ dir'["slot"] = c
      BY <2>3, <3>1, <3>3, Rewritten
    <3>. QED BY <1>3, <1>4, <2>3, <3>4 DEF RecAt, Rewrite
  <2>4. ASSUME NEW r \in DropsFile(f, dir["slot"].bak),
               dir' = [dir EXCEPT !["slot"].bak = r.left], rest(r.ok)
        PROVE  Steady /\ RecAt'
    <3>. DEFINE c == [dir["slot"] EXCEPT !.bak = r.left]
    <3>1. r.left \in {dir["slot"].bak, NoFile}
      BY DropsFileLeft
    <3>2. /\ c \in Content /\ dir' = [dir EXCEPT !["slot"] = c] /\ Rewrite(dir["slot"], c)
          /\ c.meta = dir["slot"].meta /\ c.bak = r.left /\ c.tmp = dir["slot"].tmp
      BY <1>2, <2>4, <3>1, FileOK DEF Proper, Content, Rewrite, Ctx, HInv, IInv, DirOK, Dirs
    <3>. HIDE DEF c
    <3>. QED BY <2>3, <2>4, <3>1, <3>2
  <2>5. ASSUME NEW r \in DropsFile(f, dir["slot"].tmp),
               dir' = [dir EXCEPT !["slot"].tmp = r.left], rest(r.ok)
        PROVE  Steady /\ RecAt'
    <3>. DEFINE c == [dir["slot"] EXCEPT !.tmp = r.left]
    <3>1. r.left \in {dir["slot"].tmp, NoFile}
      BY DropsFileLeft
    <3>2. /\ c \in Content /\ dir' = [dir EXCEPT !["slot"] = c] /\ Rewrite(dir["slot"], c)
          /\ c.meta = dir["slot"].meta /\ c.bak = dir["slot"].bak /\ c.tmp = r.left
      BY <1>2, <2>5, <3>1, FileOK DEF Proper, Content, Rewrite, Ctx, HInv, IInv, DirOK, Dirs
    <3>. HIDE DEF c
    <3>. QED BY <2>3, <2>5, <3>1, <3>2
  <2>. QED BY <2>2, <2>4, <2>5 DEF Sweep
<1>5. CASE ~dir["slot"].here
  <2>1. /\ ~dir["previous"].here /\ dir["committing"].man = "none"
        /\ loc.todo = <<"committing">>
    BY <1>1, <1>5 DEF RegOK, RecAt
  <2>2. Head(loc.todo) = "committing" /\ Tail(loc.todo) = <<>>
    BY <2>1, Tails
  <2>3. PICK r \in Drops(f, dir["committing"]) :
          dir' = [dir EXCEPT !["committing"] = r.left] /\ rest(r.ok)
    BY <2>2 DEF Sweep, Dirs
  <2>4. /\ dir'["committing"] = r.left /\ dir'["slot"] = dir["slot"]
        /\ dir'["previous"] = dir["previous"] /\ NumOK'
        /\ Clean(dir["committing"]) => Clean(r.left)
    BY <1>1, <2>3, DropTo DEF Ctx, RegOK, Dirs
  <2>5. r.left.man = "none"
    <3>1. r.left \in {Absent, dir["committing"]} \cup Remnants(dir["committing"])
      BY DropsLeft
    <3>2. CASE r.left \in Remnants(dir["committing"])
      BY <2>1, <3>2 DEF Remnants
    <3>. QED BY <2>1, <3>1, <3>2 DEF Absent
  <2>6. HeldOK'
    BY <1>5, <2>1, <2>4 DEF RegOK, HeldOK, Held
  <2>7. BestVersion' = BestVersion
    <3>1. ~Ready(dir["committing"]) /\ ~Ready(dir'["committing"])
      BY <2>1, <2>4, <2>5 DEF Ready
    <3>2. /\ Held(dir["slot"], dir["previous"], dir["committing"])
          /\ Held(dir'["slot"], dir'["previous"], dir'["committing"])
      BY <2>6 DEF RegOK, HeldOK
    <3>. QED BY <1>2, <1>5, <2>1, <2>4, <3>1, <3>2, ValueIs, ValueHeld DEF Dirs
  <2>8. Rise
    BY <2>7, NumTypes DEF Rise, Covers, Ctx
  <2>9. RecAt'
    BY <1>3, <1>5, <2>1, <2>2, <2>3, <2>4, <2>5 DEF RecAt
  <2>. QED BY <2>4, <2>6, <2>8, <2>9 DEF Steady
<1>. QED BY <1>4, <1>5

LEMMA SweepDoneReg ==
  ASSUME Ctx, HInv', RegOK, NEW f \in BOOLEAN, SweepDone(f)
  PROVE  Steady /\ RecAt'
<1>1. UNCHANGED <<dir, op, clock, ack>> /\ pc = "sweep" /\ loc \in Local
  BY DEF SweepDone, Reading, Ctx, HInv, IInv, CtlOK
<1>2. Steady
  BY <1>1, Still DEF Ctx, RegOK, Steady
<1>3. CASE Goto("check")
  BY <1>2, <1>3 DEF Goto, RecAt
<1>4. CASE Tidy /\ loc.resume = "tidy"
  <2>1. dir["slot"].here
    BY <1>1, <1>4 DEF Ctx, DoneInv, SweepOK
  <2>. QED BY <1>1, <1>2, <1>4, <2>1, TidyReg
<1>. QED BY <1>1, <1>2, <1>3, <1>4, ReturnReg DEF SweepDone

LEMMA ReconcileReg ==
  ASSUME ~ReadFaults, Ctx, HInv', RegOK, NEW f \in BOOLEAN, Reconcile(f)
  PROVE  Steady /\ RecAt'
<1>1. ~PickFallback(f) /\ ~DropSlot(f) /\ ~VerifyInstalled(f)
  BY DEF RegOK, RecAt, PickFallback, DropSlot, VerifyInstalled, Reading, Writing
<1>2. CASE ReconcileThrows(f)
  BY <1>2, Still, ReturnReg DEF ReconcileThrows, Ctx, RegOK, Steady, HInv, IInv, CtlOK
<1>. QED BY <1>1, <1>2, SurveyReg, ReadSlotMetaReg, DropSlotMetaReg, RestoreSlotMetaReg,
     DoubtCheckReg, InstallReg, SweepReg, SweepDoneReg DEF Reconcile

-----------------------------------------------------------------------------
(* The steps of publishCommit.                                             *)

\* The published copy is set aside, or brought back: the value goes with it.
LEMMA MovedAside ==
  ASSUME HInv, HInv', NumOK, HeldOK, UNCHANGED <<clock, ack>>,
         \/ dir["slot"].here /\ ~dir["previous"].here /\ dir' = Moved("slot", "previous")
         \/ ~dir["slot"].here /\ dir["previous"].here /\ dir' = Moved("previous", "slot")
  PROVE  /\ Steady /\ dir'["committing"] = dir["committing"]
         /\ dir'["slot"] = dir["previous"] /\ dir'["previous"] = dir["slot"]
<1>1. \A d \in Dirs : Proper(dir[d]) /\ Proper(dir'[d])
  BY Propers
<1>2. /\ dir["slot"].here => dir["previous"] = Absent
      /\ dir["previous"].here => dir["slot"] = Absent
      /\ ~Absent.here
  BY <1>1, AbsentNotReady DEF Proper, Dirs
<1>3. NumOK' /\ dir'["committing"] = dir["committing"]
  BY MoveTo DEF Dirs
<1>4. dir'["slot"] = dir["previous"] /\ dir'["previous"] = dir["slot"]
  BY <1>2, MoveTo DEF Dirs
<1>5. HeldOK'
  BY <1>2, <1>3, <1>4 DEF HeldOK, Held
<1>6. BestVersion' = BestVersion
  <2>1. /\ Held(dir["slot"], dir["previous"], dir["committing"])
        /\ Held(dir'["slot"], dir'["previous"], dir'["committing"])
    BY <1>5 DEF HeldOK
  <2>. QED BY <1>1, <1>2, <1>4, <2>1, ValueIs, ValueHeld DEF Dirs
<1>7. Rise
  BY <1>6, NumTypes DEF Rise, Covers
<1>. QED BY <1>3, <1>4, <1>5, <1>7 DEF Steady

LEMMA NotPublishedReg ==
  ASSUME NotPublished
  PROVE  NewAt'
BY DEF NotPublished, Goto, NewAt, PublishLabels

LEMMA PublishCheckReg ==
  ASSUME ~ReadFaults, Ctx, HInv', RegOK, NEW f \in BOOLEAN, PublishCheck(f)
  PROVE  Steady /\ NewAt'
<1>1. UNCHANGED <<dir, op, clock, ack>> /\ pc = "pub"
  BY DEF PublishCheck, Reading
<1>2. Steady
  BY <1>1, Still DEF Ctx, RegOK, Steady
<1>3. IsNewest(dir["committing"])' /\ dir'["committing"].man = "ok"
  BY <1>1 DEF RegOK, NewAt, PublishLabels, IsNewest
<1>4. \/ NotPublished \/ Goto("pub_back")
      \/ dir["slot"].here /\ Goto("pub_prev")
      \/ ~dir["previous"].here /\ Goto("pub_out")
  <2>1. \A d \in Dirs : Exists(f, d) = {dir[d].here}
    BY TrueAnswers
  <2>2. dir["slot"].here => backupReady(f, "slot") = {"ready"}
    <3>1. dir["slot"] \in Content
      BY Propers DEF Ctx, Proper, Dirs
    <3>2. dir["slot"].here => Ready(dir["slot"])
      BY <3>1, SoundReady DEF RegOK, HeldOK, Held
    <3>. QED BY <3>2, TrueAnswers DEF Readiness
  <2>. QED BY <2>1, <2>2 DEF PublishCheck, Dirs
<1>5. CASE Goto("pub_back") \/ (dir["slot"].here /\ Goto("pub_prev"))
           \/ (~dir["previous"].here /\ Goto("pub_out"))
  BY <1>1, <1>2, <1>3, <1>5 DEF Goto, NewAt
<1>. QED BY <1>2, <1>4, <1>5, NotPublishedReg

LEMMA DropStalePreviousReg ==
  ASSUME ~ReadFaults, Ctx, HInv', RegOK, NEW f \in BOOLEAN, DropStalePrevious(f)
  PROVE  Steady /\ NewAt'
<1>1. /\ UNCHANGED <<op, clock, ack>> /\ pc = "pub_prev" /\ dir["slot"].here
      /\ IsNewest(dir["committing"]) /\ dir["committing"].man = "ok"
  BY DEF DropStalePrevious, Writing, RegOK, NewAt, PublishLabels
<1>2. PICK r \in Drops(f, dir["previous"]) :
        /\ dir' = [dir EXCEPT !["previous"] = r.left]
        /\ IF r.ok THEN Goto("pub_out") ELSE NotPublished
  BY DEF DropStalePrevious
<1>3. Steady
  BY <1>1, <1>2, SiblingDropped DEF Ctx, RegOK, Steady
<1>4. /\ r.ok => ~dir'["previous"].here
      /\ dir'["committing"] = dir["committing"]
  BY <1>1, <1>2, DropTo DEF Ctx, RegOK, Dirs
<1>5. CASE r.ok /\ Goto("pub_out")
  BY <1>1, <1>3, <1>4, <1>5 DEF Goto, NewAt, IsNewest
<1>. QED BY <1>2, <1>3, <1>5, NotPublishedReg

LEMMA BringBackPreviousReg ==
  ASSUME Ctx, HInv', RegOK, NEW f \in BOOLEAN, BringBackPrevious(f)
  PROVE  Steady /\ NewAt'
<1>1. /\ UNCHANGED <<op, clock, ack>> /\ pc = "pub_back"
      /\ IsNewest(dir["committing"]) /\ dir["committing"].man = "ok"
  BY DEF BringBackPrevious, Writing, RegOK, NewAt, PublishLabels
<1>2. CASE UNCHANGED dir /\ NotPublished
  BY <1>1, <1>2, Still, NotPublishedReg DEF Ctx, RegOK, Steady
<1>3. CASE CanMove(f, "previous", "slot") /\ dir' = Moved("previous", "slot") /\ Goto("pub_out")
  <2>1. ~dir["slot"].here /\ dir["previous"].here
    BY <1>3 DEF CanMove
  <2>2. /\ Steady /\ dir'["committing"] = dir["committing"]
        /\ ~dir'["previous"].here
    BY <1>1, <1>3, <2>1, MovedAside DEF Ctx, RegOK
  <2>. QED BY <1>1, <1>3, <2>2 DEF Goto, NewAt, IsNewest
<1>. QED BY <1>2, <1>3 DEF BringBackPrevious

LEMMA MoveSlotAsideReg ==
  ASSUME ~ReadFaults, Ctx, HInv', RegOK, NEW f \in BOOLEAN, MoveSlotAside(f)
  PROVE  Steady /\ NewAt'
<1>1. /\ UNCHANGED <<op, clock, ack>> /\ pc = "pub_out" /\ ~dir["previous"].here
      /\ IsNewest(dir["committing"]) /\ dir["committing"].man = "ok"
  BY DEF MoveSlotAside, Writing, RegOK, NewAt, PublishLabels
<1>2. CASE UNCHANGED dir /\ NotPublished
  BY <1>1, <1>2, Still, NotPublishedReg DEF Ctx, RegOK, Steady
<1>3. CASE ~dir["slot"].here /\ UNCHANGED dir /\ Goto("pub_in")
  <2>1. Steady
    BY <1>1, <1>3, Still DEF Ctx, RegOK, Steady
  <2>. QED BY <1>1, <1>3, <2>1 DEF Goto, NewAt, IsNewest
<1>4. CASE dir["slot"].here /\ dir' = Moved("slot", "previous") /\ Goto("pub_in")
  <2>1. /\ Steady /\ dir'["committing"] = dir["committing"]
        /\ ~dir'["slot"].here
    BY <1>1, <1>4, MovedAside DEF Ctx, RegOK
  <2>. QED BY <1>1, <1>4, <2>1 DEF Goto, NewAt, IsNewest
<1>. QED BY <1>2, <1>3, <1>4, TrueAnswers DEF MoveSlotAside

LEMMA MoveCommitInReg ==
  ASSUME Ctx, HInv', RegOK, NEW f \in BOOLEAN, MoveCommitIn(f)
  PROVE  Steady /\ NewAt'
<1>1. /\ UNCHANGED <<op, clock, ack>> /\ pc = "pub_in" /\ ~dir["slot"].here
      /\ IsNewest(dir["committing"]) /\ dir["committing"].man = "ok"
  BY DEF MoveCommitIn, Writing, RegOK, NewAt, PublishLabels
<1>2. CASE UNCHANGED dir /\ Goto("pub_undo")
  <2>1. Steady
    BY <1>1, <1>2, Still DEF Ctx, RegOK, Steady
  <2>. QED BY <1>1, <1>2, <2>1 DEF Goto, NewAt, IsNewest
<1>3. CASE dir' = Moved("committing", "slot") /\ Goto("pub_tidy")
  <2>1. /\ dir'["slot"] = dir["committing"] /\ dir'["committing"] = Absent
        /\ dir'["previous"] = dir["previous"] /\ NumOK'
    BY <1>1, <1>3, MoveTo DEF Ctx, RegOK, Dirs
  <2>2. \A d \in Dirs : Proper(dir[d]) /\ Proper(dir'[d])
    BY Propers DEF Ctx
  <2>3. Sound(dir'["slot"]) /\ Legible(dir'["slot"].meta)
    <3>1. Clean(dir["committing"])
      BY DEF RegOK, HeldOK, Held
    <3>. QED BY <1>1, <2>1, <3>1 DEF Sound, Clean, IsNewest, Legible, NoFile, Torn
  <2>4. HeldOK'
    BY <2>1, <2>3 DEF HeldOK, Held, Sound, Clean, Absent, NoFile, Torn
  <2>5. BestVersion' = [ver |-> clock, meta |-> clock]
    <3>1. Held(dir'["slot"], dir'["previous"], dir'["committing"])
      BY <2>4 DEF HeldOK
    <3>2. BestVersion' = Value(dir'["slot"])
      BY <2>2, <2>3, <3>1, ValueIs, ValueHeld DEF Dirs, Sound
    <3>. QED BY <1>1, <2>1, <2>3, <3>2 DEF Value, ReadMeta, IsNewest
  <2>6. BestVersion.ver <= clock /\ BestVersion.meta <= clock
    BY <2>2, ValueIs, ValueTypes, NumTypes DEF Proper, Dirs, RegOK, NumOK, Ctx
  <2>7. Rise
    BY <2>5, <2>6, NumTypes DEF Rise, Covers, Ctx
  <2>8. NewAt'
    BY <1>1, <1>3, <2>1 DEF Goto, NewAt, IsNewest, PublishLabels
  <2>. QED BY <2>1, <2>4, <2>7, <2>8 DEF Steady
<1>. QED BY <1>2, <1>3 DEF MoveCommitIn

LEMMA UndoMoveAsideReg ==
  ASSUME Ctx, HInv', RegOK, NEW f \in BOOLEAN, UndoMoveAside(f)
  PROVE  Steady /\ NewAt'
<1>1. UNCHANGED <<op, clock, ack>> /\ pc = "pub_undo" /\ ~dir["slot"].here /\ NewAt'
  BY NotPublishedReg DEF UndoMoveAside, Writing, RegOK, NewAt
<1>2. CASE UNCHANGED dir
  BY <1>1, <1>2, Still DEF Ctx, RegOK, Steady
<1>3. CASE CanMove(f, "previous", "slot") /\ dir' = Moved("previous", "slot")
  BY <1>1, <1>3, MovedAside DEF Ctx, RegOK, CanMove
<1>. QED BY <1>1, <1>2, <1>3 DEF UndoMoveAside

LEMMA PublishTidyReg ==
  ASSUME ~ReadFaults, Ctx, HInv', RegOK, NEW f \in BOOLEAN, PublishTidy(f)
  PROVE  Steady /\ NewAt' /\ Covers(BestVersion', [ver |-> clock, meta |-> clock])
<1>1. UNCHANGED <<op, clock, ack>> /\ pc = "pub_tidy" /\ IsNewest(dir["slot"]) /\ pc' = "final"
  BY DEF PublishTidy, Writing, GotoWith, RegOK, NewAt
<1>2. PICK r \in Drops(f, dir["previous"]) : dir' = [dir EXCEPT !["previous"] = r.left]
  BY DEF PublishTidy
<1>3. Steady /\ dir'["slot"] = dir["slot"]
  BY <1>1, <1>2, SiblingDropped DEF Ctx, RegOK, Steady, IsNewest
<1>4. NewAt'
  BY <1>1 DEF NewAt, PublishLabels
<1>5. BestVersion' = Value(dir'["slot"])
  <2>1. Held(dir'["slot"], dir'["previous"], dir'["committing"])
    BY <1>3 DEF Steady, HeldOK
  <2>2. \A d \in Dirs : Proper(dir'[d])
    BY Propers DEF Ctx
  <2>. QED BY <1>1, <1>3, <2>1, <2>2, ValueIs, ValueHeld DEF Dirs, IsNewest
<1>6. BestVersion' = [ver |-> clock, meta |-> clock]
  BY <1>1, <1>3, <1>5 DEF Value, ReadMeta, Legible, IsNewest
<1>. QED BY <1>3, <1>4, <1>6, NumTypes DEF Covers, Ctx

LEMMA PublishReg ==
  ASSUME ~ReadFaults, Ctx, HInv', RegOK, NEW f \in BOOLEAN, PublishCommit(f)
  PROVE  /\ Steady /\ NewAt' /\ UNCHANGED <<op, clock, ack>>
         /\ loc'.published => pc' = "final" /\ Covers(BestVersion', [ver |-> clock, meta |-> clock])
<1>1. /\ pc \in PublishLabels /\ UNCHANGED <<op, clock, ack>> /\ ~loc.published
      /\ pc' \in PublishLabels \cup {"final"}
  BY ComponentLabels, PublishFrame DEF Ctx, HInv, RegOK, SaidAt, PublishLabels, ReconcileLabels
<1>2. CASE PublishTidy(f)
  BY <1>1, <1>2, PublishTidyReg DEF PublishTidy, GotoWith
<1>3. CASE ~PublishTidy(f)
  <2>1. ~loc'.published
    BY <1>1, <1>3 DEF PublishCommit, PublishCheck, DropStalePrevious, DropBadSlot,
       BringBackPrevious, MoveSlotAside, MoveCommitIn, UndoMoveAside, PublishThrows,
       NotPublished, Goto
  <2>2. ~DropBadSlot(f)
    BY DEF DropBadSlot, Writing, RegOK, NewAt
  <2>3. CASE PublishThrows(f)
    <3>1. NotPublished /\ UNCHANGED <<dir, op, clock, ack>>
      BY <2>3 DEF PublishThrows
    <3>2. Steady
      BY <3>1, Still DEF Ctx, RegOK, Steady
    <3>. QED BY <1>1, <2>1, <3>1, <3>2, NotPublishedReg
  <2>. QED BY <1>1, <1>3, <2>1, <2>2, <2>3, PublishCheckReg, DropStalePreviousReg,
       BringBackPreviousReg, MoveSlotAsideReg, MoveCommitInReg, UndoMoveAsideReg
       DEF PublishCommit
<1>. QED BY <1>2, <1>3

-----------------------------------------------------------------------------
(* The steps of a backup.                                                  *)

\* While nothing was ever staged there is nothing to lose.
LEMMA NothingToLose ==
  ASSUME HInv, HInv', NumOK, HeldOK, clock = 0
  PROVE  ~dir["slot"].here /\ ~dir["previous"].here /\ Rise
<1>1. \A d \in Dirs : Proper(dir[d]) /\ Proper(dir'[d]) /\ Below(dir[d], 0)
  BY Propers DEF NumOK
<1>2. Held(dir["slot"], dir["previous"], dir["committing"])
  BY DEF HeldOK
<1>. QED BY <1>1, <1>2, NothingHeld, ValueIs DEF Rise, Dirs

LEMMA ClearStagingReg ==
  ASSUME ~ReadFaults, Ctx, HInv', RegOK, NEW f \in BOOLEAN, ClearStaging(f)
  PROVE  Steady /\ StageAt' /\ NewAt'
<1>1. /\ UNCHANGED <<op, clock, ack>> /\ pc = "clear"
      /\ dir["slot"].here \/ clock = 0
  BY DEF ClearStaging, Writing, RegOK, StageAt
<1>2. PICK r \in Drops(f, dir["committing"]) : dir' = [dir EXCEPT !["committing"] = r.left]
  BY DEF ClearStaging
<1>3. pc' \in {"stage", "end"}
  BY DEF ClearStaging, Goto
<1>4. dir'["slot"] = dir["slot"] /\ dir'["previous"] = dir["previous"] /\ NumOK' /\ HeldOK'
  BY <1>1, <1>2, DropTo DEF Ctx, RegOK, Dirs, HeldOK, Held
<1>5. Rise
  BY <1>1, <1>2, SiblingDropped, NothingToLose DEF Ctx, RegOK
<1>6. StageAt' /\ NewAt'
  BY <1>1, <1>3, <1>4 DEF StageAt, NewAt, PublishLabels, ReconcileLabels
<1>. QED BY <1>4, <1>5, <1>6 DEF Steady

LEMMA StageReg ==
  ASSUME Ctx, HInv', RegOK, NEW f \in BOOLEAN, Stage(f)
  PROVE  Steady /\ StageAt' /\ NewAt'
<1>1. /\ UNCHANGED <<op, ack>> /\ pc = "stage" /\ pc' \in {"final", "manifest"}
      /\ dir["slot"].here \/ clock = 0
  BY DEF Stage, Goto, GotoWith, RegOK, StageAt
<1>2. clock \in Nat /\ ack.ver \in Nat /\ ack.meta \in Nat
  BY NumTypes DEF Ctx
<1>3. StageAt'
  BY <1>1 DEF StageAt, ReconcileLabels
<1>4. CASE UNCHANGED dir /\ clock' \in {clock, clock + 1} /\ pc' = "final"
  <2>1. \A d \in Dirs : dir[d] \in Content
    BY Propers DEF Ctx, Proper
  <2>2. NumOK'
    BY <1>1, <1>2, <1>4, <2>1, ContentTypes DEF RegOK, NumOK, Below
  <2>3. HeldOK'
    BY <1>4 DEF RegOK, HeldOK
  <2>4. BestVersion' = BestVersion
    BY <1>4, ValueIs
  <2>5. Rise
    BY <2>4, NumTypes DEF Rise, Covers, Ctx
  <2>6. NewAt'
    BY <1>4 DEF NewAt, PublishLabels
  <2>. QED BY <1>3, <2>2, <2>3, <2>5, <2>6 DEF Steady
<1>5. CASE /\ dir' = [dir EXCEPT !["committing"] = Staged(clock + 1)] /\ clock' = clock + 1
           /\ pc' = "manifest"
  <2>1. /\ dir'["committing"] = Staged(clock + 1) /\ dir'["slot"] = dir["slot"]
        /\ dir'["previous"] = dir["previous"]
    BY <1>5 DEF Ctx, HInv, IInv, DirOK, Dirs
  <2>2. \A d \in Dirs : dir[d] \in Content
    BY Propers DEF Ctx, Proper
  <2>3. Clean(dir'["committing"]) /\ Below(dir'["committing"], clock')
    BY <1>2, <1>5, <2>1 DEF Staged, Clean, Below, NoFile, Torn
  <2>4. NumOK'
    BY <1>1, <1>2, <1>5, <2>1, <2>2, <2>3, ContentTypes DEF RegOK, NumOK, Below, Dirs
  <2>5. HeldOK'
    BY <2>1, <2>3 DEF RegOK, HeldOK, Held
  <2>6. NewAt'
    BY <1>2, <1>5, <2>1 DEF NewAt, IsNewest, Staged, PublishLabels
  <2>7. CASE dir["slot"].here
    <3>1. Covers(Value(dir'["slot"]), Value(dir["slot"]))
      BY <2>1, <2>2, ContentTypes DEF Covers, Value, Dirs
    <3>2. Sound(dir'["slot"])
      BY <2>1, <2>7 DEF RegOK, HeldOK, Held
    <3>. QED BY <1>3, <2>3, <2>4, <2>5, <2>6, <2>7, <3>1, <3>2, SlotKept DEF Ctx, RegOK, Steady
  <2>8. CASE clock = 0
    BY <1>3, <2>4, <2>5, <2>6, <2>8, NothingToLose DEF Ctx, RegOK, Steady
  <2>. QED BY <1>1, <2>7, <2>8
<1>. QED BY <1>4, <1>5 DEF Stage, Goto, GotoWith

LEMMA NameManifestReg ==
  ASSUME Ctx, HInv', RegOK, NEW f \in BOOLEAN, NameManifest(f)
  PROVE  Steady /\ StageAt' /\ NewAt'
<1>1. /\ UNCHANGED <<op, clock, ack>> /\ pc = "manifest" /\ IsNewest(dir["committing"])
      /\ pc' \in {"final", "pub"}
  BY DEF NameManifest, Writing, NotPublished, Goto, RegOK, NewAt
<1>2. StageAt'
  BY <1>1 DEF StageAt, ReconcileLabels
<1>3. CASE UNCHANGED dir /\ NotPublished
  BY <1>1, <1>2, <1>3, Still, NotPublishedReg DEF Ctx, RegOK, Steady
<1>4. CASE dir' = [dir EXCEPT !["committing"].man = "ok"] /\ Goto("pub")
  <2>1. \A d \in Dirs : Proper(dir[d]) /\ Proper(dir'[d]) /\ dir[d] \in Content
    BY Propers DEF Ctx, Proper
  <2>2. /\ dir'["slot"] = dir["slot"] /\ dir'["previous"] = dir["previous"]
        /\ dir'["committing"] = [dir["committing"] EXCEPT !.man = "ok"]
    BY <1>4 DEF Ctx, HInv, IInv, DirOK, Dirs
  <2>3. /\ dir'["committing"].man = "ok" /\ dir'["committing"].here = dir["committing"].here
        /\ dir'["committing"].ver = dir["committing"].ver
        /\ dir'["committing"].meta = dir["committing"].meta
        /\ dir'["committing"].bak = dir["committing"].bak
        /\ dir'["committing"].tmp = dir["committing"].tmp
    BY <2>1, <2>2 DEF Content, Dirs
  <2>4. NumOK'
    BY <1>1, <2>2, <2>3 DEF RegOK, NumOK, Below, Dirs
  <2>5. HeldOK'
    BY <2>2, <2>3 DEF RegOK, HeldOK, Held, Clean
  <2>6. Rise
    <3>1. /\ Held(dir["slot"], dir["previous"], dir["committing"])
          /\ Held(dir'["slot"], dir'["previous"], dir'["committing"])
      BY <2>5 DEF RegOK, HeldOK
    <3>2. Ready(dir'["committing"]) /\ Value(dir'["committing"]) = [ver |-> clock, meta |-> clock]
      BY <1>1, <2>3 DEF Ready, MetaReady, Legible, Value, ReadMeta, IsNewest
    <3>3. CASE dir["slot"].here \/ dir["previous"].here
      <4>1. BestVersion' = BestVersion
        BY <2>1, <2>2, <3>1, <3>3, ValueIs, ValueHeld DEF Dirs
      <4>. QED BY <4>1, NumTypes DEF Rise, Covers, Ctx
    <3>4. CASE ~dir["slot"].here /\ ~dir["previous"].here
      <4>1. BestVersion' = [ver |-> clock, meta |-> clock]
        BY <2>1, <2>2, <3>1, <3>2, <3>4, ValueIs, ValueHeld DEF Dirs
      <4>2. BestVersion.ver <= clock /\ BestVersion.meta <= clock
        BY <2>1, ValueIs, ValueTypes, NumTypes DEF Dirs, RegOK, NumOK, Ctx
      <4>. QED BY <4>1, <4>2, NumTypes DEF Rise, Covers, Ctx
    <3>. QED BY <3>3, <3>4
  <2>7. NewAt'
    BY <1>1, <1>4, <2>3 DEF Goto, NewAt, IsNewest
  <2>. QED BY <1>2, <2>4, <2>5, <2>6, <2>7 DEF Steady
<1>. QED BY <1>3, <1>4 DEF NameManifest

LEMMA FinallyReg ==
  ASSUME Ctx, HInv', RegOK, NEW f \in BOOLEAN, BackupFinally(f) \/ BackupVerdict(f)
  PROVE  Steady /\ StageAt' /\ NewAt'
<1>1. /\ UNCHANGED <<dir, op, clock, ack>> /\ pc' \in {"reconcile", "settle", "end"}
      /\ loc \in Local
  BY DEF BackupFinally, BackupVerdict, Reading, GotoWith, Ctx, HInv, IInv, CtlOK
<1>2. Steady
  BY <1>1, Still DEF Ctx, RegOK, Steady
<1>3. pc' = "reconcile" => loc'.ret = "settle"
  BY <1>1 DEF BackupFinally, BackupVerdict, GotoWith, Local
<1>. QED BY <1>1, <1>2, <1>3 DEF StageAt, NewAt, PublishLabels, ReconcileLabels

-----------------------------------------------------------------------------
(* The steps of an edit.                                                   *)

LEMMA EditStart ==
  ASSUME Ctx, RegOK, pc \in EditLabels
  PROVE  /\ dir["slot"].here /\ Sound(dir["slot"]) /\ dir["slot"] \in Content
         /\ clock \in Nat /\ clock \in 0 .. MaxClock
BY DEF Ctx, HInv, IInv, DirOK, RestOK, RegOK, HeldOK, Held, EditAt, Dirs

\* An edit's step that leaves the slot as it is.
LEMMA EditIdle ==
  ASSUME Ctx, HInv', RegOK, pc \in EditLabels, UNCHANGED <<dir, clock, ack>>,
         pc' \in {"w_clear", "w_open", "w_back", "w_abort", "end"}
  PROVE  Steady /\ EditAt'
<1>1. Steady
  BY Still DEF Ctx, RegOK, Steady
<1>2. dir'["slot"].here
  BY EditStart
<1>. QED BY <1>1, <1>2 DEF EditAt

\* An edit's step that rewrites the slot's files.
LEMMA EditRewrites ==
  ASSUME Ctx, HInv', RegOK, pc \in EditLabels, clock' \in {clock, clock + 1}, UNCHANGED ack,
         NEW c, dir' = [dir EXCEPT !["slot"] = c],
         Rewrite(dir["slot"], c), c.meta # Torn, c.bak # Torn,
         Legible(c.meta) \/ Legible(c.bak),
         ReadMeta(c) \in {ReadMeta(dir["slot"]), clock},
         {c.meta, c.bak, c.tmp} \subseteq
           {dir["slot"].meta, dir["slot"].bak, dir["slot"].tmp, NoFile, Torn, clock'}
  PROVE  Steady /\ dir'["slot"] = c /\ dir'["slot"].here
<1>1. /\ dir["slot"].here /\ Sound(dir["slot"]) /\ dir["slot"] \in Content /\ clock \in Nat
      /\ NumOK /\ HeldOK /\ HInv
  BY EditStart DEF RegOK, Ctx
<1>2. dir'["slot"] = c
  BY SlotTo DEF Ctx
<1>3. c \in Content
  BY <1>2, Propers DEF Ctx, Proper, Dirs
<1>4. /\ dir["slot"].meta <= clock /\ dir["slot"].bak <= clock /\ dir["slot"].tmp <= clock
      /\ dir["slot"].meta \in Int /\ dir["slot"].bak \in Int /\ dir["slot"].tmp \in Int
      /\ ReadMeta(dir["slot"]) \in Nat /\ ReadMeta(dir["slot"]) <= clock
  BY <1>1, ContentTypes DEF NumOK, Below, Dirs, ReadMeta, NoFile
<1>5. /\ clock' \in Nat /\ clock' >= clock
      /\ c.meta <= clock' /\ c.bak <= clock' /\ c.tmp <= clock'
      /\ ReadMeta(c) >= ReadMeta(dir["slot"])
  BY <1>1, <1>4 DEF NoFile, Torn
<1>6. Steady
  BY <1>1, <1>3, <1>5, Rewritten
<1>. QED BY <1>1, <1>2, <1>6 DEF Rewrite

LEMMA TempDropped ==
  ASSUME ~ReadFaults, Ctx, HInv', RegOK, pc \in EditLabels, UNCHANGED <<clock, ack>>,
         NEW x \in {dir["slot"].tmp, NoFile, Torn, clock}, dir' = [dir EXCEPT !["slot"].tmp = x]
  PROVE  /\ Steady /\ dir'["slot"].here /\ dir'["slot"].tmp = x
         /\ dir'["slot"].meta = dir["slot"].meta /\ dir'["slot"].bak = dir["slot"].bak
<1>1. Sound(dir["slot"]) /\ dir["slot"] \in Content
  BY EditStart
<1>. DEFINE c == [dir["slot"] EXCEPT !.tmp = x]
<1>2. /\ dir' = [dir EXCEPT !["slot"] = c] /\ Rewrite(dir["slot"], c)
      /\ c.meta = dir["slot"].meta /\ c.bak = dir["slot"].bak /\ c.tmp = x
  BY <1>1 DEF Content, Rewrite, Ctx, HInv, IInv, DirOK, Dirs
<1>. HIDE DEF c
<1>3. /\ c.meta # Torn /\ c.bak # Torn /\ (Legible(c.meta) \/ Legible(c.bak))
      /\ ReadMeta(c) = ReadMeta(dir["slot"])
  BY <1>1, <1>2 DEF Sound, ReadMeta
<1>. QED BY <1>2, <1>3, EditRewrites

LEMMA TempReg ==
  ASSUME ~ReadFaults, Ctx, HInv', RegOK, NEW f \in BOOLEAN,
         ClearTemp(f) \/ CloseTemp(f) \/ AbortEdit(f)
  PROVE  Steady /\ EditAt'
<1>1. UNCHANGED <<op, clock, ack>> /\ pc \in EditLabels
  BY DEF ClearTemp, CloseTemp, AbortEdit, Writing, EditLabels
<1>2. CASE ClearTemp(f) \/ AbortEdit(f)
  <2>1. PICK x \in {dir["slot"].tmp, NoFile} : dir' = [dir EXCEPT !["slot"].tmp = x]
    BY <1>2, DropsFileLeft DEF ClearTemp, AbortEdit
  <2>2. Steady /\ dir'["slot"].here
    BY <1>1, <2>1, TempDropped
  <2>3. pc' \in {"w_open", "end"}
    BY <1>2 DEF ClearTemp, AbortEdit, Goto
  <2>. QED BY <2>2, <2>3 DEF EditAt
<1>3. CASE CloseTemp(f)
  <2>1. dir' = [dir EXCEPT !["slot"].tmp = clock] /\ pc' = "w_old" /\ clock > 0
    BY <1>3 DEF CloseTemp, Writing, Goto, RegOK, EditAt
  <2>2. Steady /\ dir'["slot"].here /\ dir'["slot"].tmp = clock
    BY <1>1, <2>1, TempDropped
  <2>. QED BY <1>1, <2>1, <2>2 DEF EditAt
<1>. QED BY <1>2, <1>3

LEMMA OpenTempReg ==
  ASSUME Ctx, HInv', RegOK, NEW f \in BOOLEAN, OpenTemp(f)
  PROVE  Steady /\ EditAt'
<1>1. /\ UNCHANGED <<op, ack>> /\ pc \in EditLabels /\ pc' \in {"w_close", "end"}
      /\ clock' = clock + 1 /\ dir' = [dir EXCEPT !["slot"].tmp = Torn]
  BY DEF OpenTemp, EditLabels, Goto
<1>2. Sound(dir["slot"]) /\ dir["slot"] \in Content /\ clock \in Nat
  BY <1>1, EditStart
<1>. DEFINE c == [dir["slot"] EXCEPT !.tmp = Torn]
<1>3. /\ dir' = [dir EXCEPT !["slot"] = c] /\ Rewrite(dir["slot"], c)
      /\ c.meta = dir["slot"].meta /\ c.bak = dir["slot"].bak /\ c.tmp = Torn
  BY <1>1, <1>2 DEF Content, Rewrite, Ctx, HInv, IInv, DirOK, Dirs
<1>. HIDE DEF c
<1>4. /\ c.meta # Torn /\ c.bak # Torn /\ (Legible(c.meta) \/ Legible(c.bak))
      /\ ReadMeta(c) = ReadMeta(dir["slot"])
  BY <1>2, <1>3 DEF Sound, ReadMeta
<1>5. Steady /\ dir'["slot"].here
  BY <1>1, <1>3, <1>4, EditRewrites
<1>. QED BY <1>1, <1>2, <1>5 DEF EditAt

LEMMA BakReg ==
  ASSUME ~ReadFaults, Ctx, HInv', RegOK, NEW f \in BOOLEAN, DropOldBackup(f) \/ DropKept(f)
  PROVE  /\ Steady /\ EditAt'
         /\ DropKept(f) => dir'["slot"].here /\ dir'["slot"].meta = clock /\ clock > 0
<1>1. /\ UNCHANGED <<op, clock, ack>> /\ pc \in {"w_old", "w_done"} /\ pc \in EditLabels
      /\ clock > 0 /\ (pc = "w_old" => dir["slot"].tmp = clock)
      /\ pc = "w_done" => dir["slot"].meta = clock
  BY DEF DropOldBackup, DropKept, Writing, EditLabels, RegOK, EditAt
<1>2. dir["slot"].here /\ Sound(dir["slot"]) /\ dir["slot"] \in Content
  BY <1>1, EditStart
<1>3. ASSUME Legible(dir["slot"].meta),
             NEW x \in {dir["slot"].bak, NoFile}, dir' = [dir EXCEPT !["slot"].bak = x]
      PROVE  /\ Steady /\ dir'["slot"].here /\ dir'["slot"].tmp = dir["slot"].tmp
             /\ dir'["slot"].meta = dir["slot"].meta /\ dir'["slot"].bak = x
  <2>. DEFINE c == [dir["slot"] EXCEPT !.bak = x]
  <2>1. /\ dir' = [dir EXCEPT !["slot"] = c] /\ Rewrite(dir["slot"], c)
        /\ c.meta = dir["slot"].meta /\ c.bak = x /\ c.tmp = dir["slot"].tmp
    BY <1>2, <1>3 DEF Content, Rewrite, Ctx, HInv, IInv, DirOK, Dirs
  <2>. HIDE DEF c
  <2>2. /\ c.meta # Torn /\ c.bak # Torn /\ Legible(c.meta)
        /\ ReadMeta(c) = ReadMeta(dir["slot"])
    BY <1>2, <1>3, <2>1 DEF Sound, ReadMeta, NoFile, Torn
  <2>. QED BY <1>1, <1>3, <2>1, <2>2, EditRewrites
<1>4. CASE DropKept(f)
  <2>1. Legible(dir["slot"].meta) /\ dir["slot"].meta = clock
    BY <1>1, <1>4 DEF DropKept, Writing, Legible
  <2>2. PICK x \in {dir["slot"].bak, NoFile} : dir' = [dir EXCEPT !["slot"].bak = x]
    <3>1. PICK r \in DropsFile(f, dir["slot"].bak) : dir' = [dir EXCEPT !["slot"].bak = r.left]
      BY <1>4 DEF DropKept
    <3>2. r.left \in {dir["slot"].bak, NoFile}
      BY DropsFileLeft
    <3>. QED BY <3>1, <3>2
  <2>3. Steady /\ dir'["slot"].here /\ dir'["slot"].meta = clock
    BY <1>3, <2>1, <2>2
  <2>4. pc' = "end"
    BY <1>4 DEF DropKept, GotoWith
  <2>. QED BY <1>1, <2>3, <2>4 DEF EditAt
<1>5. CASE DropOldBackup(f)
  <2>1. pc = "w_old"
    BY <1>5 DEF DropOldBackup, Writing
  <2>2. \/ UNCHANGED dir /\ pc' = "w_new"
        \/ /\ dir["slot"].meta # NoFile /\ pc' \in {"w_keep", "w_abort"}
           /\ \E x \in {dir["slot"].bak, NoFile} : dir' = [dir EXCEPT !["slot"].bak = x]
    <3>1. Sees(f, dir["slot"].meta # NoFile, FALSE) = {dir["slot"].meta # NoFile}
      BY Truthful
    <3>2. \A r \in DropsFile(f, dir["slot"].bak) : r.left \in {dir["slot"].bak, NoFile}
      BY DropsFileLeft
    <3>. QED BY <1>5, <3>1, <3>2 DEF DropOldBackup, Goto
  <2>3. CASE UNCHANGED dir /\ pc' = "w_new"
    <3>1. Steady
      BY <1>1, <2>3, Still DEF Ctx, RegOK, Steady
    <3>. QED BY <1>1, <1>2, <1>5, <2>1, <2>3, <3>1 DEF EditAt, DropKept, Writing
  <2>4. ASSUME dir["slot"].meta # NoFile, pc' \in {"w_keep", "w_abort"},
               NEW x \in {dir["slot"].bak, NoFile}, dir' = [dir EXCEPT !["slot"].bak = x]
        PROVE  Steady /\ EditAt'
    <3>1. Legible(dir["slot"].meta)
      BY <1>2, <2>4, ContentTypes DEF Sound, Legible, NoFile, Torn
    <3>2. /\ Steady /\ dir'["slot"].here /\ dir'["slot"].tmp = dir["slot"].tmp
          /\ dir'["slot"].meta = dir["slot"].meta
      BY <1>3, <2>4, <3>1
    <3>. QED BY <1>1, <2>1, <2>4, <3>1, <3>2 DEF EditAt
  <2>. QED BY <2>1, <2>2, <2>3, <2>4 DEF DropKept, Writing
<1>. QED BY <1>4, <1>5

LEMMA KeepOldReg ==
  ASSUME Ctx, HInv', RegOK, NEW f \in BOOLEAN, KeepOld(f)
  PROVE  Steady /\ EditAt'
<1>1. /\ UNCHANGED <<op, clock, ack>> /\ pc \in EditLabels /\ clock > 0
      /\ dir["slot"].tmp = clock /\ Legible(dir["slot"].meta)
  BY DEF KeepOld, Writing, EditLabels, RegOK, EditAt
<1>2. Sound(dir["slot"]) /\ dir["slot"] \in Content
  BY <1>1, EditStart
<1>3. CASE UNCHANGED dir /\ Goto("w_abort")
  BY <1>1, <1>3, EditIdle DEF Goto
<1>4. CASE /\ dir' = [dir EXCEPT !["slot"].bak = dir["slot"].meta, !["slot"].meta = NoFile]
           /\ Goto("w_new")
  <2>. DEFINE c == [dir["slot"] EXCEPT !.bak = dir["slot"].meta, !.meta = NoFile]
  <2>1. /\ dir' = [dir EXCEPT !["slot"] = c] /\ Rewrite(dir["slot"], c)
        /\ c.meta = NoFile /\ c.bak = dir["slot"].meta /\ c.tmp = dir["slot"].tmp
    BY <1>2, <1>4 DEF Content, Rewrite, Ctx, HInv, IInv, DirOK, Dirs
  <2>. HIDE DEF c
  <2>2. /\ c.meta # Torn /\ c.bak # Torn /\ Legible(c.bak)
        /\ ReadMeta(c) = ReadMeta(dir["slot"])
    BY <1>1, <1>2, <2>1 DEF Sound, ReadMeta, Legible, NoFile, Torn
  <2>3. Steady /\ dir'["slot"] = c /\ dir'["slot"].here
    BY <1>1, <2>1, <2>2, EditRewrites
  <2>. QED BY <1>1, <1>4, <2>1, <2>3 DEF EditAt, Goto
<1>. QED BY <1>3, <1>4 DEF KeepOld

LEMMA PublishTempReg ==
  ASSUME Ctx, HInv', RegOK, NEW f \in BOOLEAN, PublishTemp(f)
  PROVE  Steady /\ EditAt'
<1>1. /\ UNCHANGED <<op, clock, ack>> /\ pc \in EditLabels /\ clock > 0
      /\ dir["slot"].tmp = clock
  BY DEF PublishTemp, Writing, EditLabels, RegOK, EditAt
<1>2. Sound(dir["slot"]) /\ dir["slot"] \in Content
  BY <1>1, EditStart
<1>3. CASE UNCHANGED dir /\ Goto("w_back")
  BY <1>1, <1>3, EditIdle DEF Goto
<1>4. CASE /\ dir' = [dir EXCEPT !["slot"].meta = dir["slot"].tmp, !["slot"].tmp = NoFile]
           /\ Goto("w_done")
  <2>. DEFINE c == [dir["slot"] EXCEPT !.meta = dir["slot"].tmp, !.tmp = NoFile]
  <2>1. /\ dir' = [dir EXCEPT !["slot"] = c] /\ Rewrite(dir["slot"], c)
        /\ c.meta = clock /\ c.bak = dir["slot"].bak /\ c.tmp = NoFile
    BY <1>1, <1>2, <1>4 DEF Content, Rewrite, Ctx, HInv, IInv, DirOK, Dirs
  <2>. HIDE DEF c
  <2>2. c.meta # Torn /\ c.bak # Torn /\ Legible(c.meta) /\ ReadMeta(c) = clock
    BY <1>1, <1>2, <2>1 DEF Sound, ReadMeta, Legible, NoFile, Torn
  <2>3. Steady /\ dir'["slot"] = c /\ dir'["slot"].here
    BY <1>1, <2>1, <2>2, EditRewrites
  <2>. QED BY <1>1, <1>4, <2>1, <2>3 DEF EditAt, Goto
<1>. QED BY <1>3, <1>4 DEF PublishTemp

LEMMA PutBackOldReg ==
  ASSUME Ctx, HInv', RegOK, NEW f \in BOOLEAN, PutBackOld(f)
  PROVE  Steady /\ EditAt'
<1>1. UNCHANGED <<op, clock, ack>> /\ pc \in EditLabels /\ pc' = "w_abort"
  BY DEF PutBackOld, Writing, EditLabels, Goto
<1>2. Sound(dir["slot"]) /\ dir["slot"] \in Content
  BY <1>1, EditStart
<1>3. CASE UNCHANGED dir
  BY <1>1, <1>3, EditIdle
<1>4. CASE /\ dir["slot"].meta = NoFile /\ dir["slot"].bak # NoFile
           /\ dir' = [dir EXCEPT !["slot"].meta = dir["slot"].bak, !["slot"].bak = NoFile]
  <2>. DEFINE c == [dir["slot"] EXCEPT !.meta = dir["slot"].bak, !.bak = NoFile]
  <2>1. /\ dir' = [dir EXCEPT !["slot"] = c] /\ Rewrite(dir["slot"], c)
        /\ c.meta = dir["slot"].bak /\ c.bak = NoFile /\ c.tmp = dir["slot"].tmp
    BY <1>2, <1>4 DEF Content, Rewrite, Ctx, HInv, IInv, DirOK, Dirs
  <2>. HIDE DEF c
  <2>2. /\ c.meta # Torn /\ c.bak # Torn /\ Legible(c.meta)
        /\ ReadMeta(c) = ReadMeta(dir["slot"])
    BY <1>2, <1>4, <2>1 DEF Sound, ReadMeta, Legible, NoFile, Torn
  <2>3. Steady /\ dir'["slot"] = c /\ dir'["slot"].here
    BY <1>1, <2>1, <2>2, EditRewrites
  <2>. QED BY <1>1, <2>3 DEF EditAt
<1>. QED BY <1>3, <1>4 DEF PutBackOld

LEMMA EditReg ==
  ASSUME ~ReadFaults, Ctx, HInv', RegOK, NEW f \in BOOLEAN, Edit(f)
  PROVE  /\ Steady /\ EditAt'
         /\ DropKept(f) => dir'["slot"].here /\ dir'["slot"].meta = clock' /\ clock' > 0
<1>1. DropKept(f) =>
        Steady /\ EditAt' /\ dir'["slot"].here /\ dir'["slot"].meta = clock' /\ clock' > 0
  BY BakReg DEF DropKept, Writing
<1>2. CASE EditThrows(f)
  <2>1. pc \in EditLabels /\ UNCHANGED <<dir, clock, ack>> /\ pc' = "end"
    BY <1>2 DEF EditThrows, Goto
  <2>2. Steady /\ EditAt'
    BY <2>1, EditIdle
  <2>. QED BY <1>1, <2>2
<1>3. CASE ~DropKept(f) /\ ~EditThrows(f)
  BY <1>3, TempReg, OpenTempReg, BakReg, KeepOldReg, PublishTempReg, PutBackOldReg DEF Edit
<1>. QED BY <1>1, <1>2, <1>3

-----------------------------------------------------------------------------
(* The whole.                                                              *)

\* What was reported, and what is about to be, stays held.
LEMMA SaidKept ==
  ASSUME HInv, HInv', SaidAt, Rise, UNCHANGED ack,
         pc' \notin {"d_comm", "d_prev", "d_check"},
         loc'.published =>
           /\ pc' \in {"final", "settle", "end"} \/ (pc' \in ReconcileLabels /\ loc'.ret = "settle")
           /\ \/ loc.published /\ UNCHANGED clock
              \/ Covers(BestVersion', [ver |-> clock', meta |-> clock']),
         pc' = "end" /\ loc'.ok /\ op' \in {"create", "update"} => loc'.published,
         pc' = "end" /\ loc'.ok /\ op' = "edit" =>
           dir'["slot"].here /\ dir'["slot"].meta = clock' /\ clock' > 0
  PROVE  SaidAt'
<1>1. /\ BestVersion \in [ver : Nat, meta : Nat] /\ BestVersion' \in [ver : Nat, meta : Nat]
      /\ clock \in Nat /\ clock' \in Nat /\ ack.ver \in Nat /\ ack.meta \in Nat
  BY NumTypes
<1>2. Covers(BestVersion', ack')
  BY <1>1 DEF SaidAt, Rise, Covers
<1>3. loc'.published => Covers(BestVersion', [ver |-> clock', meta |-> clock'])
  BY <1>1 DEF SaidAt, Rise, Covers
<1>. QED BY <1>2, <1>3 DEF SaidAt

Onward == UNCHANGED ack /\ Rise /\ RegOK'

LEMMA BlockReg ==
  ASSUME ~ReadFaults, Ctx, HInv', RegOK, NEW f \in BOOLEAN, Block(f)
  PROVE  Onward
<1>1. /\ pc = "block" /\ UNCHANGED <<dir, loc, op, clock, ack>>
      /\ \/ pc' = "end"
         \/ pc' = "clear" /\ op = "create" 
         \/ pc' = "clear" /\ MetaReady(dir["slot"])
         \/ pc' = "w_clear" /\ MetaReady(dir["slot"])
         \/ pc' = "d_slot"
  BY DEF Block, Reading, Goto
<1>2. Steady
  BY <1>1, Still DEF Ctx, RegOK, Steady
<1>3. MetaReady(dir["slot"]) => dir["slot"].here
  BY AbsentNotReady DEF Ctx, HInv, HereOK, Dirs
<1>4. StageAt'
  BY <1>1, <1>3 DEF RegOK, StageAt, ReconcileLabels
<1>5. RecAt' /\ NewAt'
  BY <1>1 DEF RecAt, NewAt, PublishLabels
<1>6. EditAt'
  BY <1>1, <1>3 DEF EditAt, EditLabels
<1>7. ~loc.published /\ ~loc.ok
  BY <1>1 DEF RegOK, SaidAt, Ctx, HInv, OpOK, ReconcileLabels
<1>8. SaidAt'
  BY <1>1, <1>2, <1>7, SaidKept DEF Steady, RegOK, Ctx
<1>. QED BY <1>1, <1>2, <1>4, <1>5, <1>6, <1>8 DEF Steady, RegOK, Onward

LEMMA ReconcileOnward ==
  ASSUME ~ReadFaults, Ctx, HInv', RegOK, NEW f \in BOOLEAN, Reconcile(f)
  PROVE  Onward
<1>1. /\ Steady /\ RecAt' /\ UNCHANGED <<op, clock, ack>>
      /\ pc \in ReconcileLabels /\ loc \in Local
  BY ReconcileReg, ReconcileFrame, ComponentLabels DEF Ctx, HInv, IInv, CtlOK
<1>2. /\ pc' \in ReconcileLabels \cup {loc.ret} /\ loc'.ret = loc.ret
      /\ loc'.published = loc.published /\ ~loc'.ok
      /\ loc.ret \in {"end", "block", "settle"}
  BY <1>1, ReconcileShape DEF Shape, Ctx, HInv, IInv, OpOK, ReconcileLabels, Local
<1>3. StageAt'
  BY <1>1, <1>2 DEF RegOK, StageAt, ReconcileLabels
<1>4. NewAt' /\ EditAt'
  BY <1>2 DEF NewAt, EditAt, PublishLabels, EditLabels, ReconcileLabels
<1>5. loc'.published =>
        /\ pc' \in {"final", "settle", "end"} \/ (pc' \in ReconcileLabels /\ loc'.ret = "settle")
        /\ loc.published /\ UNCHANGED clock
  BY <1>1, <1>2 DEF RegOK, SaidAt, ReconcileLabels
<1>6. SaidAt'
  <2>1. pc' \notin {"d_comm", "d_prev", "d_check"}
    BY <1>2 DEF ReconcileLabels
  <2>. QED BY <1>1, <1>2, <1>5, <2>1, SaidKept DEF Steady, RegOK, Ctx
<1>. QED BY <1>1, <1>3, <1>4, <1>6 DEF Steady, RegOK, Onward

LEMMA PublishOnward ==
  ASSUME ~ReadFaults, Ctx, HInv', RegOK, NEW f \in BOOLEAN, PublishCommit(f)
  PROVE  Onward
<1>1. /\ Steady /\ NewAt' /\ UNCHANGED <<op, clock, ack>>
      /\ loc'.published => pc' = "final" /\ Covers(BestVersion', [ver |-> clock, meta |-> clock])
      /\ pc' \in PublishLabels \cup {"final"}
  BY PublishReg, ComponentLabels DEF Ctx, HInv
<1>2. RecAt' /\ StageAt' /\ EditAt'
  BY <1>1 DEF RecAt, StageAt, EditAt, PublishLabels, EditLabels, ReconcileLabels
<1>3. SaidAt'
  <2>1. pc' \notin {"d_comm", "d_prev", "d_check", "end"}
    BY <1>1 DEF PublishLabels
  <2>. QED BY <1>1, <2>1, SaidKept DEF Steady, RegOK, Ctx
<1>. QED BY <1>1, <1>2, <1>3 DEF Steady, RegOK, Onward

LEMMA BackupOnward ==
  ASSUME ~ReadFaults, Ctx, HInv', RegOK, NEW f \in BOOLEAN, Backup(f)
  PROVE  Onward
<1>1. /\ Steady /\ StageAt' /\ NewAt' /\ UNCHANGED <<op, ack>> /\ loc \in Local
      /\ pc' \in {"stage", "end", "final", "manifest", "pub", "settle", "reconcile"}
      /\ ~loc.ok
  BY ClearStagingReg, StageReg, NameManifestReg, FinallyReg, BackupFrame, ComponentLabels,
     ComponentShape DEF Backup, Ctx, HInv, IInv, CtlOK
<1>2. RecAt' /\ EditAt'
  BY <1>1 DEF RecAt, EditAt, EditLabels
<1>3. CASE ClearStaging(f) \/ Stage(f) \/ NameManifest(f)
  <2>1. ~loc'.published /\ ~loc'.ok
    <3>1. ~loc.published
      BY <1>3 DEF ClearStaging, Stage, NameManifest, Writing, RegOK, SaidAt, ReconcileLabels
    <3>2. loc' = loc \/ loc' = [loc EXCEPT !.owns = TRUE]
      BY <1>3 DEF ClearStaging, Stage, NameManifest, NotPublished, Goto, GotoWith
    <3>. QED BY <1>1, <3>1, <3>2 DEF Local
  <2>2. SaidAt'
    BY <1>1, <2>1, SaidKept DEF Steady, RegOK, Ctx
  <2>. QED BY <1>1, <1>2, <2>2 DEF Steady, RegOK, Onward
<1>4. CASE BackupFinally(f)
  <2>1. /\ loc'.published = loc.published /\ ~loc'.ok /\ UNCHANGED clock
        /\ \/ pc' = "settle"
           \/ pc' = "reconcile" /\ loc'.ret = "settle"
    BY <1>1, <1>4 DEF BackupFinally, Reading, GotoWith, Local
  <2>2. SaidAt'
    BY <1>1, <2>1, SaidKept DEF Steady, RegOK, Ctx, ReconcileLabels
  <2>. QED BY <1>1, <1>2, <2>2 DEF Steady, RegOK, Onward
<1>5. CASE BackupVerdict(f)
  <2>1. /\ loc'.published = loc.published /\ UNCHANGED clock /\ pc' = "end"
        /\ (loc'.ok => loc.published) /\ op \in {"create", "update"} /\ op' = op
    BY <1>1, <1>5 DEF BackupVerdict, Reading, GotoWith, Local, Ctx, HInv, OpOK, BackupLabels
  <2>2. SaidAt'
    BY <1>1, <2>1, SaidKept DEF Steady, RegOK, Ctx
  <2>. QED BY <1>1, <1>2, <2>2 DEF Steady, RegOK, Onward
<1>. QED BY <1>3, <1>4, <1>5 DEF Backup

LEMMA EditOnward ==
  ASSUME ~ReadFaults, Ctx, HInv', RegOK, NEW f \in BOOLEAN, Edit(f)
  PROVE  Onward
<1>1. /\ Steady /\ EditAt' /\ UNCHANGED <<op, ack>>
      /\ DropKept(f) => dir'["slot"].here /\ dir'["slot"].meta = clock' /\ clock' > 0
      /\ pc \in EditLabels /\ pc' \in EditLabels \cup {"end"}
      /\ op = "edit"
  BY EditReg, EditFrame, ComponentLabels DEF Ctx, HInv, OpOK
<1>2. RecAt' /\ StageAt' /\ NewAt'
  BY <1>1 DEF RecAt, StageAt, NewAt, PublishLabels, EditLabels, ReconcileLabels
<1>3. ~loc'.published
  <2>1. ~loc.published
    BY <1>1 DEF RegOK, SaidAt, EditLabels, ReconcileLabels
  <2>2. loc' = loc \/ loc' = [loc EXCEPT !.ok = TRUE]
    BY DEF Edit, ClearTemp, OpenTemp, CloseTemp, DropOldBackup, KeepOld, PublishTemp,
       PutBackOld, AbortEdit, DropKept, EditThrows, Goto, GotoWith
  <2>. QED BY <2>1, <2>2 DEF Ctx, HInv, IInv, CtlOK, Local
<1>4. loc'.ok => DropKept(f)
  <2>1. loc'.ok => Verdicts(f)
    BY ComponentShape DEF Ctx, HInv
  <2>2. ~BackupVerdict(f) /\ ~DeleteVerdict(f)
    BY <1>1 DEF BackupVerdict, DeleteVerdict, Reading, EditLabels
  <2>. QED BY <2>1, <2>2 DEF Verdicts
<1>5. SaidAt'
  <2>1. pc' \notin {"d_comm", "d_prev", "d_check"}
    BY <1>1 DEF EditLabels
  <2>. QED BY <1>1, <1>3, <1>4, <2>1, SaidKept DEF Steady, RegOK, Ctx
<1>. QED BY <1>1, <1>2, <1>5 DEF Steady, RegOK, Onward

LEMMA DeleteOnward ==
  ASSUME Ctx, HInv', RegOK, NEW f \in BOOLEAN, Delete(f), ~ack'.doomed
  PROVE  Onward
<1>1. pc \notin {"d_comm", "d_prev", "d_check"} /\ ~DeleteSlotDir(f)
  BY DEF RegOK, SaidAt, DeleteSlotDir, Ctx, HInv, IInv, RestOK
<1>2. DeleteThrows(f)
  BY <1>1 DEF Delete, DeleteStaged, DeletePrevious, DeleteVerdict, Reading, Writing
<1>3. pc \in DeleteLabels /\ pc' = "end" /\ UNCHANGED <<dir, loc, op, clock, ack>>
  BY <1>2 DEF DeleteThrows, Goto
<1>4. Steady
  BY <1>3, Still DEF Ctx, RegOK, Steady
<1>5. RecAt' /\ StageAt' /\ NewAt' /\ EditAt'
  BY <1>3 DEF RecAt, StageAt, NewAt, EditAt, PublishLabels, EditLabels, ReconcileLabels
<1>6. ~loc'.published /\ ~loc'.ok
  BY <1>3 DEF RegOK, SaidAt, Ctx, HInv, OpOK, DeleteLabels, ReconcileLabels
<1>7. SaidAt'
  BY <1>3, <1>4, <1>6, SaidKept DEF Steady, RegOK, Ctx
<1>. QED BY <1>3, <1>4, <1>5, <1>7 DEF Steady, RegOK, Onward

\* Outside operations only the end of one reports anything.
LEMMA OutsideOnward ==
  ASSUME MaxDamage = 0, Ctx, HInv', RegOK,
         \/ \E o \in Ops \cup {"load"} : Begin(o)
         \/ Crash \/ Forget \/ \E d \in Dirs : Damage(d)
  PROVE  Onward
<1>1. ~\E d \in Dirs : Damage(d)
  <2>1. budget.damage \in 0 .. 0
    BY DEF Ctx, HInv, IInv, RestOK
  <2>. QED BY <2>1 DEF Damage
<1>2. /\ UNCHANGED <<dir, clock, ack>> /\ pc' \in {"idle", "reconcile"}
      /\ ~loc'.published
      /\ op' = "create" /\ pc' = "reconcile" /\ loc'.ret = "block" => clock = 0
  <2>1. ~Fresh.published /\ [Fresh EXCEPT !.ret = "end"].published = FALSE
        /\ [Fresh EXCEPT !.ret = "block"].published = FALSE
    BY DEF Fresh
  <2>2. Forget => ~loc.published
    BY DEF Forget, RegOK, SaidAt, ReconcileLabels
  <2>. QED BY <1>1, <2>1, <2>2 DEF Begin, Crash, Forget, GotoWith
<1>3. Steady
  BY <1>2, Still DEF Ctx, RegOK, Steady
<1>4. RecAt' /\ StageAt' /\ NewAt' /\ EditAt'
  BY <1>2 DEF RecAt, StageAt, NewAt, EditAt, PublishLabels, EditLabels, ReconcileLabels
<1>5. SaidAt'
  BY <1>2, <1>3, SaidKept DEF Steady, RegOK, Ctx
<1>. QED BY <1>2, <1>3, <1>4, <1>5 DEF Steady, RegOK, Onward

\* The end of an operation reports what is held.
LEMMA EndReg ==
  ASSUME Ctx, HInv', RegOK, End
  PROVE  /\ RegOK' /\ UNCHANGED <<dir, clock>> /\ ack'.doomed = ack.doomed
         /\ Covers(ack', ack) /\ Covers(BestVersion, ack')
<1>1. UNCHANGED <<dir, clock>> /\ pc = "end" /\ pc' = "idle" /\ loc' = Fresh
  BY DEF End
<1>2. /\ BestVersion \in [ver : Nat, meta : Nat] /\ BestVersion' \in [ver : Nat, meta : Nat]
      /\ clock \in Nat /\ ack.ver \in Nat /\ ack.meta \in Nat
      /\ BestVersion' = BestVersion
      /\ ack \in [ver : 0 .. MaxClock, meta : 0 .. MaxClock, doomed : BOOLEAN, gone : BOOLEAN]
      /\ ack.ver <= clock /\ ack.meta <= clock
  BY <1>1, NumTypes, ValueIs DEF Ctx, HInv, IInv, RestOK, RegOK, NumOK
<1>3. Covers(BestVersion, ack)
  BY DEF RegOK, SaidAt
<1>4. ASSUME ack'.ver = ack.ver, ack'.meta = ack.meta, ack'.doomed = ack.doomed
      PROVE  ack'.doomed = ack.doomed /\ Covers(ack', ack) /\ Covers(BestVersion, ack')
  BY <1>2, <1>3, <1>4 DEF Covers
<1>5. ASSUME loc.ok, op \in {"create", "update"}, ack' = [ack EXCEPT !.ver = clock, !.meta = clock]
      PROVE  ack'.doomed = ack.doomed /\ Covers(ack', ack) /\ Covers(BestVersion, ack')
  <2>1. Covers(BestVersion, [ver |-> clock, meta |-> clock])
    BY <1>1, <1>5 DEF RegOK, SaidAt
  <2>2. ack'.ver = clock /\ ack'.meta = clock /\ ack'.doomed = ack.doomed
    BY <1>2, <1>5
  <2>. QED BY <1>2, <2>1, <2>2 DEF Covers
<1>6. ASSUME loc.ok, op = "edit", ack' = [ack EXCEPT !.meta = clock]
      PROVE  ack'.doomed = ack.doomed /\ Covers(ack', ack) /\ Covers(BestVersion, ack')
  <2>1. dir["slot"].here /\ dir["slot"].meta = clock /\ clock > 0
    BY <1>1, <1>6 DEF RegOK, SaidAt
  <2>2. BestVersion.meta = clock
    <3>1. \A d \in Dirs : Proper(dir[d])
      BY Propers DEF Ctx
    <3>2. Held(dir["slot"], dir["previous"], dir["committing"])
      BY DEF RegOK, HeldOK
    <3>3. BestVersion = Value(dir["slot"])
      BY <2>1, <3>1, <3>2, ValueIs, ValueHeld DEF Dirs
    <3>. QED BY <2>1, <3>3 DEF Value, ReadMeta, Legible
  <2>3. ack'.ver = ack.ver /\ ack'.meta = clock /\ ack'.doomed = ack.doomed
    BY <1>2, <1>6
  <2>. QED BY <1>2, <1>3, <2>2, <2>3 DEF Covers
<1>7. /\ ack'.doomed = ack.doomed /\ Covers(ack', ack) /\ Covers(BestVersion, ack')
      /\ ack'.ver \in {ack.ver, clock} /\ ack'.meta \in {ack.meta, clock}
  <2>1. \/ ack' = ack \/ ack' = [ack EXCEPT !.gone = TRUE]
        \/ loc.ok /\ op \in {"create", "update"} /\ ack' = [ack EXCEPT !.ver = clock, !.meta = clock]
        \/ loc.ok /\ op = "edit" /\ ack' = [ack EXCEPT !.meta = clock]
    BY DEF End
  <2>2. ack'.ver \in {ack.ver, clock} /\ ack'.meta \in {ack.meta, clock}
    BY <1>2, <2>1
  <2>3. CASE ack' = ack \/ ack' = [ack EXCEPT !.gone = TRUE]
    BY <1>2, <1>4, <2>2, <2>3
  <2>. QED BY <1>5, <1>6, <2>1, <2>2, <2>3
<1>8. NumOK' /\ HeldOK'
  BY <1>1, <1>2, <1>7 DEF RegOK, NumOK, HeldOK
<1>9. RecAt' /\ StageAt' /\ NewAt' /\ EditAt'
  BY <1>1 DEF RecAt, StageAt, NewAt, EditAt, PublishLabels, EditLabels, ReconcileLabels
<1>10. SaidAt'
  BY <1>1, <1>2, <1>7 DEF SaidAt, Fresh
<1>. QED BY <1>1, <1>7, <1>8, <1>9, <1>10 DEF RegOK

LEMMA StepOnward ==
  ASSUME ~ReadFaults, Ctx, HInv', RegOK, NEW f \in BOOLEAN, Step(f), ~ack'.doomed
  PROVE  Onward
BY BlockReg, ReconcileOnward, PublishOnward, BackupOnward, EditOnward, DeleteOnward DEF Step

\* Once a deletion was asked for, it stays asked for.
LEMMA AckStep ==
  ASSUME Ctx, NEW f \in BOOLEAN, Step(f)
  PROVE  /\ ack'.ver = ack.ver /\ ack'.meta = ack.meta
         /\ ack.doomed => ack'.doomed
<1>1. ack' \in {ack, [ack EXCEPT !.doomed = TRUE]}
  BY ReconcileFrame, PublishFrame, BackupFrame, EditFrame, DeleteFrame DEF Step, Block, Reading
<1>. QED BY <1>1 DEF Ctx, HInv, IInv, RestOK

LEMMA AckEnd ==
  ASSUME Ctx, End
  PROVE  ack'.doomed = ack.doomed
BY DEF End, Ctx, HInv, IInv, RestOK

\* The environment and the start of an operation report nothing.
Outside ==
  \/ \E o \in Ops \cup {"load"} : Begin(o)
  \/ Crash \/ Forget \/ \E d \in Dirs : Damage(d)

LEMMA OutsideFrame == Outside => UNCHANGED <<clock, ack>>
BY DEF Outside, Begin, Crash, Forget, Damage

LEMMA NextKinds ==
  ASSUME [Next]_vars
  PROVE  End \/ Outside \/ UNCHANGED vars \/ \E f \in BOOLEAN : Step(f)
BY DEF Next, Program, Outside, Outages

LEMMA NextReg ==
  ASSUME ~ReadFaults, MaxDamage = 0, Ctx, HInv', RegInv, [Next]_vars
  PROVE  RegInv'
<1>1. CASE ack'.doomed
  BY <1>1 DEF RegInv
<1>2. CASE ~ack'.doomed
  <2>1. RegOK
    BY <1>2, NextKinds, AckStep, AckEnd, OutsideFrame DEF RegInv, vars
  <2>2. CASE UNCHANGED vars
    <3>1. Steady
      BY <2>1, <2>2, Still DEF Ctx, RegOK, Steady, vars
    <3>2. RecAt' /\ StageAt' /\ NewAt' /\ EditAt'
      BY <2>1, <2>2 DEF vars, RegOK, RecAt, StageAt, NewAt, EditAt, IsNewest
    <3>3. SaidAt'
      BY <2>1, <2>2, ValueIs DEF vars, RegOK, SaidAt
    <3>. QED BY <3>1, <3>2, <3>3 DEF Steady, RegOK, RegInv
  <2>. QED BY <1>2, <2>1, <2>2, NextKinds, EndReg, OutsideOnward, StepOnward
       DEF Outside, Onward, RegInv
<1>. QED BY <1>1, <1>2

LEMMA InitReg == Init => RegInv
<1>. SUFFICES ASSUME Init PROVE RegOK
  BY DEF RegInv
<1>1. \A d \in Dirs : dir[d] = Absent
  BY DEF Init
<1>2. NumOK /\ HeldOK
  BY <1>1 DEF Init, NumOK, HeldOK, Held, Below, Clean, Absent, NoFile, Torn, Dirs
<1>3. RecAt /\ StageAt /\ NewAt /\ EditAt
  BY DEF Init, RecAt, StageAt, NewAt, EditAt, PublishLabels, EditLabels, ReconcileLabels
<1>4. BestVersion = [ver |-> 0, meta |-> 0]
  BY <1>1, AbsentNotReady, AbsentValue DEF BestVersion, Best, Value, Dirs
<1>5. SaidAt
  BY <1>4 DEF Init, SaidAt, Covers, Fresh
<1>. QED BY <1>2, <1>3, <1>5 DEF RegOK

LEMMA CtxAlways ==
  ASSUME ~ReadFaults
  PROVE  Spec => []Ctx
<1>1. Init => Ctx
  BY HInit DEF Init, Ctx, DoneInv, QuietOK, MetaOK, PickOK, SweepOK, DoneMeansOne, PublishLabels
<1>2. Ctx /\ [Next]_vars => Ctx'
  <2>1. HInv => IInv /\ Tidied
    BY DEF HInv, HereOK, Tidied
  <2>. QED BY <2>1, HNext, NextDone DEF Ctx
<1>. QED BY <1>1, <1>2, PTL DEF Spec

LEMMA RegAlways ==
  ASSUME ~ReadFaults, MaxDamage = 0
  PROVE  Spec => [](Ctx /\ RegInv)
<1>1. Ctx /\ Ctx' /\ RegInv /\ [Next]_vars => RegInv'
  BY NextReg DEF Ctx
<1>. QED BY <1>1, InitReg, CtxAlways, PTL DEF Spec

\* What was reported as saved stays recoverable, until a deletion is asked for,
\* through every failed write, move or delete and every crash: InstanceStore's
\* staging, publishing and metadata protocol, with reads that tell the truth and
\* files nobody else corrupts.
THEOREM AcknowledgedSurvives ==
  ASSUME ~ReadFaults, MaxDamage = 0
  PROVE  Spec => []Durable
<1>1. Ctx /\ RegInv => Durable
  BY DEF RegInv, RegOK, SaidAt, Covers, BestVersion, Durable
<1>. QED BY <1>1, RegAlways, PTL

-----------------------------------------------------------------------------
(* The refinement.                                                         *)

LEMMA Versions ==
  ASSUME HInv, HInv'
  PROVE  /\ BestVersion' \in Register!Version
         /\ [ver |-> ack.ver, meta |-> ack.meta]' \in Register!Version
<1>1. \A d \in Dirs : dir'[d] \in Content
  BY Propers DEF Proper
<1>2. BestVersion' \in [ver : 0 .. MaxClock, meta : 0 .. MaxClock]
  BY <1>1, ValueIs, ValueTypes DEF Dirs
<1>3. ack'.ver \in 0 .. MaxClock /\ ack'.meta \in 0 .. MaxClock
  BY DEF HInv, IInv, RestOK
<1>. QED BY <1>2, <1>3 DEF Register!Version

LEMMA RefinesStep ==
  ASSUME ~ReadFaults, MaxDamage = 0, Ctx, HInv', RegInv, [Next]_vars
  PROVE  [Register!Next]_(Register!vars)
<1>1. CASE UNCHANGED vars
  <2>1. UNCHANGED <<dir, ack>>
    BY <1>1 DEF vars
  <2>. QED BY <2>1, ValueIs DEF Register!vars
<1>2. CASE ack.doomed /\ ~UNCHANGED vars
  <2>1. ack'.doomed = ack.doomed
    <3>1. ack'.doomed \in BOOLEAN /\ ack.doomed \in BOOLEAN
      BY DEF Ctx, HInv, IInv, RestOK
    <3>. QED BY <1>2, <3>1, NextKinds, AckStep, AckEnd, OutsideFrame
  <2>2. Register!Decay
    BY <1>2, <2>1, Versions DEF Register!Decay, Ctx
  <2>. QED BY <2>2 DEF Register!Next
<1>3. CASE ~ack.doomed /\ ~UNCHANGED vars
  <2>1. RegOK
    BY <1>3 DEF RegInv
  <2>2. CASE End
    <3>1. /\ BestVersion' = BestVersion /\ ack'.doomed = ack.doomed
          /\ Covers(ack', ack) /\ Covers(BestVersion, ack')
      BY <2>1, <2>2, EndReg, ValueIs
    <3>2. Register!Acknowledge
      BY <3>1, Versions DEF Register!Acknowledge, Register!Covers, Covers, Ctx
    <3>. QED BY <3>2 DEF Register!Next
  <2>3. CASE Onward
    <3>1. Register!Save
      BY <2>3, Versions DEF Register!Save, Register!Covers, Onward, Rise, Covers, Ctx
    <3>. QED BY <3>1 DEF Register!Next
  <2>4. ASSUME NEW f \in BOOLEAN, Step(f), ack'.doomed PROVE Register!Condemn
    <3>1. ack'.doomed = TRUE /\ ack'.ver = ack.ver /\ ack'.meta = ack.meta
      BY <2>4, AckStep DEF Ctx, HInv, IInv, RestOK
    <3>. QED BY <3>1, Versions DEF Register!Condemn, Ctx
  <2>. QED BY <1>3, <2>1, <2>2, <2>3, <2>4, NextKinds, StepOnward, OutsideOnward
       DEF Outside, Register!Next
<1>. QED BY <1>1, <1>2, <1>3

\* InstanceStore's three directories implement one register: what the next reconcile
\* keeps only ever gets newer, what is acknowledged is covered by it, and only a
\* deletion ends that.
THEOREM ImplementsTheRegister ==
  ASSUME ~ReadFaults, MaxDamage = 0
  PROVE  Spec => ImplementsRegister
<1>1. Init => Register!Init
  <2>. SUFFICES ASSUME Init PROVE Register!Init
    OBVIOUS
  <2>1. \A d \in Dirs : dir[d] = Absent
    BY DEF Init
  <2>2. BestVersion = [ver |-> 0, meta |-> 0]
    BY <2>1, AbsentNotReady, AbsentValue DEF BestVersion, Best, Value, Dirs
  <2>. QED BY <2>2 DEF Init, Register!Init
<1>2. (Ctx /\ RegInv) /\ (Ctx /\ RegInv)' /\ [Next]_vars => [Register!Next]_(Register!vars)
  BY RefinesStep DEF Ctx
<1>. QED BY <1>1, <1>2, RegAlways, PTL DEF Spec, ImplementsRegister, Register!Spec

-----------------------------------------------------------------------------
(* Copies: where they are, whatever the reads answer.                      *)

ShortLists == {<<>>, <<"committing">>, <<"previous">>}
SlotGood == Ready(dir["slot"]) /\ Legible(dir["slot"].meta)

Resumes ==
  pc \in {"block", "clear", "stage", "manifest", "final", "reconcile"} \cup PublishLabels
    => loc.resume = "return"

\* recoverMeta works on a slot that is already good for what comes after it.
MetaSafe ==
  /\ pc \in {"meta", "meta_drop", "meta_move"} =>
       /\ loc.then \in {"sweep", "verify"} => Ready(dir["slot"])
       /\ loc.then = "sweep" => loc.todo \in ShortLists
  /\ pc \in {"meta_drop", "meta_move"} => CopyThere(loc.file)
  /\ pc \in {"check", "verify"} => Legible(dir["slot"].meta)

\* Only a complete copy is installed.
PickSafe ==
  pc \in {"slot_drop", "install"} =>
    /\ loc.src \in {"previous", "committing"} /\ Ready(dir[loc.src])
    /\ loc.then \in {"sweep", "verify"}
    /\ loc.then = "sweep" => loc.todo \in ShortLists

\* The copies are swept beside a complete slot, or the one swept is no copy.
SweepSafe ==
  pc = "sweep" =>
    /\ loc.todo \in TodoLists
    /\ \/ SlotGood
       \/ /\ loc.todo \in {<<>>, <<"committing">>} /\ dir["committing"].man = "none"
          /\ loc.resume = "return"

CopyInv == Resumes /\ MetaSafe /\ PickSafe /\ SweepSafe

-----------------------------------------------------------------------------
(* What an answer is worth under an outage: a "ready" or "unavailable" that *)
(* is given is true, and only "unknown" and exists() may mislead.           *)

LEMMA SeesTruth ==
  ASSUME NEW f, NEW b \in BOOLEAN
  PROVE  /\ "ready" \in Sees(f, Readiness(b), "unknown") => b
         /\ "unavailable" \in Sees(f, Readiness(b), "unknown") => ~b
         /\ FALSE \in Sees(f, b, TRUE) => ~b
         /\ TRUE \in Sees(f, b, FALSE) => b
<1>1. /\ Sees(f, Readiness(b), "unknown") \subseteq {Readiness(b), "unknown"}
      /\ Sees(f, b, TRUE) \subseteq {b, TRUE} /\ Sees(f, b, FALSE) \subseteq {b, FALSE}
  BY SeesOK
<1>2. CASE b = TRUE
  BY <1>1, <1>2 DEF Readiness
<1>3. CASE b = FALSE
  BY <1>1, <1>3 DEF Readiness
<1>. QED BY <1>2, <1>3

LEMMA Honest ==
  ASSUME DirOK, NEW f, NEW d \in Dirs
  PROVE  /\ "ready" \in backupReady(f, d) => Ready(dir[d])
         /\ "unavailable" \in backupReady(f, d) => ~Ready(dir[d])
         /\ FALSE \in manifestExists(f, d) => dir[d].man = "none"
         /\ TRUE \in Exists(f, d) => dir[d].here
         /\ "ready" \in CandidateState(f, d) => Ready(dir[d])
         /\ \A x : "ready" \in metaState(f, x) => Legible(x)
<1>1. Ready(dir[d]) \in BOOLEAN /\ dir[d].here \in BOOLEAN /\ (dir[d].man # "none") \in BOOLEAN
      /\ \A x : Legible(x) \in BOOLEAN
  BY ReadyTypes
<1>2. "ready" \in backupReady(f, d) => Ready(dir[d])
  BY <1>1, SeesTruth DEF backupReady
<1>3. "unavailable" \in backupReady(f, d) => ~Ready(dir[d])
  BY <1>1, SeesTruth DEF backupReady
<1>4. FALSE \in manifestExists(f, d) => dir[d].man = "none"
  BY <1>1, SeesTruth DEF manifestExists
<1>5. TRUE \in Exists(f, d) => dir[d].here
  BY <1>1, SeesTruth DEF Exists
<1>6. "ready" \in CandidateState(f, d) => Ready(dir[d])
  BY <1>2 DEF CandidateState
<1>7. \A x : "ready" \in metaState(f, x) => Legible(x)
  BY <1>1, SeesTruth DEF metaState
<1>. QED BY <1>2, <1>3, <1>4, <1>5, <1>6, <1>7

\* A delete leaves nothing that was not there.
LEMMA DropsAny ==
  ASSUME NEW f, NEW c, NEW r \in Drops(f, c)
  PROVE  /\ r.left.man \in {c.man, "none"} /\ r.left.ver \in {c.ver, 0}
         /\ r.left.meta \in {c.meta, NoFile} /\ r.left.bak \in {c.bak, NoFile}
         /\ r.left.tmp \in {c.tmp, NoFile}
         /\ Ready(r.left) => Ready(c)
<1>1. r.left = Absent \/ r.left = c \/ r.left \in Remnants(c)
  <2>1. \/ r = [left |-> Absent, ok |-> TRUE]
        \/ r \in [left : Remnants(c), ok : {FALSE}]
        \/ r \in [left : {c}, ok : Sees(f, FALSE, TRUE)]
    BY DEF Drops
  <2>2. CASE r = [left |-> Absent, ok |-> TRUE]
    BY <2>2
  <2>3. CASE r \in [left : Remnants(c), ok : {FALSE}]
    BY <2>3
  <2>4. CASE r \in [left : {c}, ok : Sees(f, FALSE, TRUE)]
    BY <2>4
  <2>. QED BY <2>1, <2>2, <2>3, <2>4
<1>2. CASE r.left = Absent
  BY <1>2 DEF Absent, Ready, MetaReady, Legible, NoFile
<1>3. CASE r.left = c
  BY <1>3
<1>4. CASE r.left \in Remnants(c)
  <2>1. /\ r.left.man \in {c.man, "none"} /\ r.left.ver \in {c.ver, 0}
        /\ r.left.meta \in {c.meta, NoFile} /\ r.left.bak \in {c.bak, NoFile}
        /\ r.left.tmp \in {c.tmp, NoFile}
    BY <1>4 DEF Remnants
  <2>. QED BY <2>1 DEF Ready, MetaReady, Legible, NoFile
<1>. QED BY <1>1, <1>2, <1>3, <1>4

LEMMA DropsFileAny ==
  ASSUME NEW f, NEW file, NEW r \in DropsFile(f, file)
  PROVE  r.left \in {file, NoFile}
<1>1. \/ r = [left |-> NoFile, ok |-> TRUE]
      \/ r \in [left : {file}, ok : Sees(f, FALSE, TRUE)]
  BY DEF DropsFile
<1>2. CASE r = [left |-> NoFile, ok |-> TRUE]
  BY <1>2
<1>3. CASE r \in [left : {file}, ok : Sees(f, FALSE, TRUE)]
  BY <1>3
<1>. QED BY <1>1, <1>2, <1>3

-----------------------------------------------------------------------------
(* Copies: the steps of a reconcile.                                       *)

LEMMA ReturnSafe ==
  ASSUME loc \in Local, NEW r, Return(r)
  PROVE  CopyInv'
<1>1. pc' \in {"end", "block", "settle"} /\ loc'.resume = "return"
  BY DEF Return, GotoWith, Local, Fresh
<1>. QED BY <1>1 DEF CopyInv, Resumes, MetaSafe, PickSafe, SweepSafe

LEMMA FallbackSafe ==
  ASSUME NEW after, Fallback(after)
  PROVE  CopyInv'
BY DEF Fallback, GotoWith, CopyInv, Resumes, MetaSafe, PickSafe, SweepSafe, PublishLabels

LEMMA InstallFromSafe ==
  ASSUME loc \in Local, UNCHANGED dir, NEW d \in {"previous", "committing"}, Ready(dir[d]),
         NEW left \in ShortLists, InstallFrom(d, left)
  PROVE  CopyInv'
<1>1. pc' = "install" /\ loc'.src = d /\ loc'.then = "sweep" /\ loc'.todo = left
  BY DEF InstallFrom, GotoWith, Local
<1>. QED BY <1>1 DEF CopyInv, Resumes, MetaSafe, PickSafe, SweepSafe, PublishLabels

LEMMA SweepOnlySafe ==
  ASSUME loc \in Local, UNCHANGED dir, NEW left \in ShortLists, SweepOnly(left),
         \/ SlotGood
         \/ /\ left = <<"committing">> /\ dir["committing"].man = "none"
            /\ loc.resume = "return"
  PROVE  CopyInv'
<1>1. pc' = "sweep" /\ loc'.resume = loc.resume /\ loc'.todo = left
  BY DEF SweepOnly, GotoWith, Local
<1>. QED BY <1>1 DEF CopyInv, Resumes, MetaSafe, PickSafe, SweepSafe, SlotGood, TodoLists,
     ShortLists, PublishLabels

LEMMA TidySafe ==
  ASSUME loc \in Local, UNCHANGED dir, Tidy, SlotGood
  PROVE  CopyInv'
<1>1. pc' = "sweep" /\ loc'.todo = <<"bak", "tmp", "previous", "committing">>
  BY DEF Tidy, GotoWith, Local
<1>. QED BY <1>1 DEF CopyInv, Resumes, MetaSafe, PickSafe, SweepSafe, SlotGood, TodoLists,
     PublishLabels

LEMMA SurveySafe ==
  ASSUME IInv, CopyInv, NEW f \in BOOLEAN, Survey(f)
  PROVE  CopyInv'
<1>1. pc = "reconcile" /\ loc \in Local /\ loc.resume = "return" /\ UNCHANGED dir /\ DirOK
  BY DEF Survey, Reading, IInv, CtlOK, CopyInv, Resumes
<1>2. ASSUME NEW r, Return(r) PROVE CopyInv'
  BY <1>1, <1>2, ReturnSafe
<1>3. CASE SurveySlot(f)
  <2>1. CASE GotoWith("meta", [loc EXCEPT !.then = "check"])
    <3>1. pc' = "meta" /\ loc'.then = "check"
      BY <1>1, <2>1 DEF GotoWith, Local
    <3>. QED BY <3>1 DEF CopyInv, Resumes, MetaSafe, PickSafe, SweepSafe, PublishLabels
  <2>. QED BY <1>2, <1>3, <2>1, FallbackSafe DEF SurveySlot
<1>4. CASE SurveyPrevious(f)
  <2>1. \/ \E r : Return(r)
        \/ Ready(dir["previous"]) /\ InstallFrom("previous", <<"committing">>)
        \/ Ready(dir["committing"]) /\ InstallFrom("committing", <<"previous">>)
    BY <1>1, <1>4, Honest DEF SurveyPrevious, Dirs
  <2>. QED BY <1>1, <1>2, <2>1, InstallFromSafe DEF ShortLists
<1>5. CASE SurveyStaged(f)
  <2>1. \/ \E r : Return(r)
        \/ dir["committing"].man = "none" /\ SweepOnly(<<"committing">>)
        \/ Ready(dir["committing"]) /\ InstallFrom("committing", <<>>)
    <3>1. PICK c \in backupReady(f, "committing"), listed \in manifestExists(f, "committing") :
            \/ c = "unknown" /\ Return("pending")
            \/ c = "unavailable" /\ listed /\ Return("pending")
            \/ c = "unavailable" /\ ~listed /\ SweepOnly(<<"committing">>)
            \/ c = "ready" /\ InstallFrom("committing", <<>>)
      BY <1>5 DEF SurveyStaged
    <3>2. listed \in BOOLEAN
      <4>1. manifestExists(f, "committing") \subseteq {dir["committing"].man # "none", TRUE}
        BY SeesOK DEF manifestExists
      <4>. QED BY <4>1
    <3>. QED BY <1>1, <3>1, <3>2, Honest DEF Dirs
  <2>. QED BY <1>1, <1>2, <2>1, InstallFromSafe, SweepOnlySafe DEF ShortLists
<1>. QED BY <1>2, <1>3, <1>4, <1>5 DEF Survey

\* recoverMeta goes on with a slot whose instance.json can be read.
LEMMA ThenSafe ==
  ASSUME IInv, CopyInv, pc \in {"meta", "meta_move"}, Goto(loc.then),
         Legible(dir'["slot"].meta), Ready(dir["slot"]) => Ready(dir'["slot"])
  PROVE  CopyInv'
<1>1. pc' = loc.then /\ loc' = loc /\ loc.then \in {"check", "verify", "sweep"}
  BY DEF Goto, IInv, CtlOK, Local
<1>2. Resumes' /\ MetaSafe' /\ PickSafe'
  BY <1>1 DEF Resumes, MetaSafe, PickSafe, PublishLabels
<1>3. SweepSafe'
  BY <1>1 DEF CopyInv, MetaSafe, SweepSafe, SlotGood, TodoLists, ShortLists
<1>. QED BY <1>2, <1>3 DEF CopyInv

LEMMA UnrecoveredSafe ==
  ASSUME loc \in Local, Unrecovered
  PROVE  CopyInv'
<1>1. CASE Goto("doubt")
  BY <1>1 DEF Goto, CopyInv, Resumes, MetaSafe, PickSafe, SweepSafe, PublishLabels
<1>. QED BY <1>1, ReturnSafe DEF Unrecovered

\* Within recoverMeta: the copy it restores from is there, and so is what it began with.
LEMMA MetaGoesOn ==
  ASSUME loc \in Local, CopyInv, pc \in {"meta", "meta_drop"}, pc' \in {"meta_drop", "meta_move"},
         NEW file, loc' = [loc EXCEPT !.file = file], CopyThere(file)',
         Ready(dir["slot"]) => Ready(dir'["slot"])
  PROVE  CopyInv'
<1>1. loc'.then = loc.then /\ loc'.todo = loc.todo /\ loc'.file = file
  BY DEF Local
<1>2. MetaSafe'
  BY <1>1 DEF CopyInv, MetaSafe, CopyThere
<1>. QED BY <1>1, <1>2 DEF CopyInv, Resumes, PickSafe, SweepSafe, PublishLabels

LEMMA ReadSlotMetaSafe ==
  ASSUME IInv, CopyInv, NEW f \in BOOLEAN, ReadSlotMeta(f)
  PROVE  CopyInv'
<1>1. pc = "meta" /\ loc \in Local /\ UNCHANGED dir /\ DirOK
  BY DEF ReadSlotMeta, Reading, IInv, CtlOK
<1>2. ASSUME NEW file \in {"bak", "tmp"}, GotoWith("meta_drop", [loc EXCEPT !.file = file]),
             CopyThere(file)
      PROVE  CopyInv'
  BY <1>1, <1>2, MetaGoesOn DEF GotoWith, CopyThere
<1>3. \/ Legible(dir["slot"].meta) /\ Goto(loc.then)
      \/ Unrecovered
      \/ \E file \in {"bak", "tmp"} :
           GotoWith("meta_drop", [loc EXCEPT !.file = file]) /\ CopyThere(file)
  <2>1. \A x : "ready" \in metaState(f, x) => Legible(x)
    BY <1>1, Honest DEF Dirs
  <2>. QED BY <2>1 DEF ReadSlotMeta, CopyThere
<1>. QED BY <1>1, <1>2, <1>3, ThenSafe, UnrecoveredSafe

LEMMA DropSlotMetaSafe ==
  ASSUME IInv, CopyInv, NEW f \in BOOLEAN, DropSlotMeta(f)
  PROVE  CopyInv'
<1>1. pc = "meta_drop" /\ loc \in Local /\ dir \in [Dirs -> Content] /\ CopyThere(loc.file)
  BY DEF DropSlotMeta, Writing, IInv, CtlOK, DirOK, CopyInv, MetaSafe
<1>2. PICK r \in DropsFile(f, dir["slot"].meta) :
        /\ dir' = [dir EXCEPT !["slot"].meta = r.left]
        /\ IF r.ok THEN Goto("meta_move") ELSE Unrecovered
  BY DEF DropSlotMeta
<1>3. CASE Goto("meta_move")
  <2>1. /\ dir'["slot"].bak = dir["slot"].bak /\ dir'["slot"].tmp = dir["slot"].tmp
        /\ dir'["slot"].man = dir["slot"].man
    BY <1>1, <1>2 DEF Content, Dirs
  <2>2. CopyThere(loc.file)' /\ (Ready(dir["slot"]) => Ready(dir'["slot"]))
    BY <1>1, <1>3, <2>1 DEF CopyThere, Ready, MetaReady, Goto
  <2>3. loc' = [loc EXCEPT !.file = loc.file] /\ loc' = loc
    BY <1>1, <1>3 DEF Goto, Local
  <2>. QED BY <1>1, <1>3, <2>2, <2>3, MetaGoesOn DEF Goto, CopyThere
<1>. QED BY <1>1, <1>2, <1>3, UnrecoveredSafe

LEMMA RestoreSlotMetaSafe ==
  ASSUME IInv, CopyInv, NEW f \in BOOLEAN, RestoreSlotMeta(f)
  PROVE  CopyInv'
<1>1. /\ pc = "meta_move" /\ loc \in Local /\ dir \in [Dirs -> Content]
      /\ CopyThere(loc.file)
  BY DEF RestoreSlotMeta, Writing, IInv, CtlOK, DirOK, CopyInv, MetaSafe
<1>2. ASSUME Legible(dir'["slot"].meta), dir'["slot"].man = dir["slot"].man, Goto(loc.then)
      PROVE  CopyInv'
  BY <1>1, <1>2, ThenSafe DEF Ready, MetaReady
<1>3. CASE /\ dir' = [dir EXCEPT !["slot"].meta = dir["slot"].bak, !["slot"].bak = NoFile]
           /\ loc.file = "bak" /\ Goto(loc.then)
  <2>1. dir'["slot"].meta = dir["slot"].bak /\ dir'["slot"].man = dir["slot"].man
    BY <1>1, <1>3 DEF Content, Dirs
  <2>. QED BY <1>1, <1>2, <1>3, <2>1 DEF CopyThere
<1>4. CASE /\ dir' = [dir EXCEPT !["slot"].meta = dir["slot"].tmp, !["slot"].tmp = NoFile]
           /\ loc.file # "bak" /\ Goto(loc.then)
  <2>1. dir'["slot"].meta = dir["slot"].tmp /\ dir'["slot"].man = dir["slot"].man
    BY <1>1, <1>4 DEF Content, Dirs
  <2>. QED BY <1>1, <1>2, <1>4, <2>1 DEF CopyThere
<1>. QED BY <1>1, <1>3, <1>4, UnrecoveredSafe DEF RestoreSlotMeta

LEMMA DoubtCheckSafe ==
  ASSUME IInv, CopyInv, NEW f \in BOOLEAN, DoubtSlotMeta(f) \/ CheckSlot(f)
  PROVE  CopyInv'
<1>1. loc \in Local /\ UNCHANGED dir /\ DirOK
  BY DEF DoubtSlotMeta, CheckSlot, Reading, IInv, CtlOK
<1>2. \/ \E r : Return(r)
      \/ \E after : Fallback(after)
      \/ SlotGood /\ Tidy
  <2>1. CASE DoubtSlotMeta(f)
    BY <2>1 DEF DoubtSlotMeta
  <2>2. CASE CheckSlot(f)
    <3>1. Legible(dir["slot"].meta)
      BY <2>2 DEF CheckSlot, Reading, CopyInv, MetaSafe
    <3>. QED BY <1>1, <2>2, <3>1, Honest DEF CheckSlot, SlotGood, Dirs
  <2>. QED BY <2>1, <2>2
<1>. QED BY <1>1, <1>2, ReturnSafe, FallbackSafe, TidySafe

LEMMA PickFallbackSafe ==
  ASSUME IInv, CopyInv, NEW f \in BOOLEAN, PickFallback(f)
  PROVE  CopyInv'
<1>1. loc \in Local /\ UNCHANGED dir /\ DirOK
  BY DEF PickFallback, Reading, IInv, CtlOK
<1>2. ASSUME NEW d \in {"previous", "committing"}, Ready(dir[d]),
             GotoWith("slot_drop", [loc EXCEPT !.src = d, !.then = "verify"])
      PROVE  CopyInv'
  <2>1. pc' = "slot_drop" /\ loc'.src = d /\ loc'.then = "verify"
    BY <1>1, <1>2 DEF GotoWith, Local
  <2>. QED BY <1>1, <1>2, <2>1
       DEF CopyInv, Resumes, MetaSafe, PickSafe, SweepSafe, PublishLabels
<1>3. \/ \E r : Return(r)
      \/ \E d \in {"previous", "committing"} :
           /\ Ready(dir[d])
           /\ GotoWith("slot_drop", [loc EXCEPT !.src = d, !.then = "verify"])
  BY <1>1, Honest DEF PickFallback, Dirs
<1>. QED BY <1>1, <1>2, <1>3, ReturnSafe

LEMMA DropSlotSafe ==
  ASSUME IInv, CopyInv, NEW f \in BOOLEAN, DropSlot(f)
  PROVE  CopyInv'
<1>1. /\ pc = "slot_drop" /\ loc \in Local /\ dir \in [Dirs -> Content]
      /\ loc.src \in {"previous", "committing"}
  BY DEF DropSlot, Writing, IInv, CtlOK, DirOK, CopyInv, PickSafe
<1>2. PICK r \in Drops(f, dir["slot"]) :
        /\ dir' = [dir EXCEPT !["slot"] = r.left]
        /\ IF r.ok THEN Goto("install") ELSE Return("failed")
  BY DEF DropSlot
<1>3. dir'[loc.src] = dir[loc.src]
  BY <1>1, <1>2 DEF Dirs
<1>4. CASE Goto("install")
  BY <1>1, <1>3, <1>4
     DEF Goto, CopyInv, Resumes, MetaSafe, PickSafe, SweepSafe, PublishLabels
<1>. QED BY <1>1, <1>2, <1>4, ReturnSafe

LEMMA InstallSafe ==
  ASSUME IInv, CopyInv, NEW f \in BOOLEAN, Install(f)
  PROVE  CopyInv'
<1>1. /\ pc = "install" /\ loc \in Local /\ dir \in [Dirs -> Content]
      /\ loc.src \in {"previous", "committing"} /\ Ready(dir[loc.src])
      /\ loc.then \in {"sweep", "verify"} /\ (loc.then = "sweep" => loc.todo \in ShortLists)
  BY DEF Install, Writing, IInv, CtlOK, DirOK, CopyInv, PickSafe
<1>2. CASE dir' = Moved(loc.src, "slot") /\ Goto("meta")
  <2>1. dir'["slot"] = dir[loc.src]
    BY <1>1, <1>2 DEF Moved, Dirs
  <2>. QED BY <1>1, <1>2, <2>1
       DEF Goto, CopyInv, Resumes, MetaSafe, PickSafe, SweepSafe, PublishLabels
<1>. QED BY <1>1, <1>2, ReturnSafe DEF Install

LEMMA VerifyInstalledSafe ==
  ASSUME IInv, CopyInv, NEW f \in BOOLEAN, VerifyInstalled(f)
  PROVE  CopyInv'
<1>1. loc \in Local /\ UNCHANGED dir /\ DirOK /\ Legible(dir["slot"].meta)
  BY DEF VerifyInstalled, Reading, IInv, CtlOK, CopyInv, MetaSafe
<1>2. \/ Return("failed")
      \/ SlotGood /\ (SweepOnly(<<"committing">>) \/ SweepOnly(<<"previous">>))
  BY <1>1, Honest DEF VerifyInstalled, SlotGood, Dirs
<1>. QED BY <1>1, <1>2, ReturnSafe, SweepOnlySafe DEF ShortLists

\* What a sweep drops: a sibling beside a complete slot, debris, or an older file.
LEMMA SweepDirSafe ==
  ASSUME IInv, CopyInv, NEW f \in BOOLEAN, Sweep(f)
  PROVE  CopyInv'
<1>1. /\ pc = "sweep" /\ loc \in Local /\ dir \in [Dirs -> Content]
      /\ loc.todo \in TodoLists /\ loc.todo # <<>>
      /\ \/ SlotGood
         \/ /\ loc.todo = <<"committing">> /\ dir["committing"].man = "none"
            /\ loc.resume = "return"
  BY DEF Sweep, Writing, IInv, CtlOK, DirOK, CopyInv, SweepSafe
<1>. DEFINE rest(ok) == GotoWith("sweep", [loc EXCEPT !.todo = Tail(@), !.clean = @ /\ ok])
<1>2. ASSUME NEW ok, rest(ok),
             \/ SlotGood'
             \/ /\ loc.todo = <<"committing">> /\ dir'["committing"].man = "none"
                /\ loc.resume = "return"
      PROVE  CopyInv'
  <2>1. pc' = "sweep" /\ loc'.todo = Tail(loc.todo) /\ loc'.resume = loc.resume
    BY <1>1, <1>2 DEF GotoWith, Local
  <2>2. Tail(loc.todo) \in TodoLists /\ (loc.todo = <<"committing">> => Tail(loc.todo) = <<>>)
    BY <1>1, Tails DEF TodoLists
  <2>3. SweepSafe'
    BY <1>2, <2>1, <2>2 DEF SweepSafe, SlotGood
  <2>. QED BY <2>1, <2>3 DEF CopyInv, Resumes, MetaSafe, PickSafe, PublishLabels
<1>3. ASSUME NEW d \in {"previous", "committing"}, NEW r \in Drops(f, dir[d]),
             dir' = [dir EXCEPT ![d] = r.left], rest(r.ok)
      PROVE  CopyInv'
  <2>1. dir'["slot"] = dir["slot"] /\ dir'["committing"].man \in {dir["committing"].man, "none"}
    BY <1>1, <1>3, DropsAny DEF Dirs
  <2>. QED BY <1>1, <1>2, <1>3, <2>1 DEF SlotGood
<1>4. ASSUME NEW x, rest(x), Head(loc.todo) \in {"bak", "tmp"},
             dir'["slot"].man = dir["slot"].man, dir'["slot"].meta = dir["slot"].meta
      PROVE  CopyInv'
  <2>1. SlotGood
    BY <1>1, <1>4, Tails
  <2>2. SlotGood'
    BY <1>4, <2>1 DEF SlotGood, Ready, MetaReady
  <2>. QED BY <1>2, <1>4, <2>2
<1>5. ASSUME NEW r \in DropsFile(f, dir["slot"].bak), Head(loc.todo) = "bak",
             dir' = [dir EXCEPT !["slot"].bak = r.left], rest(r.ok)
      PROVE  CopyInv'
  <2>1. dir'["slot"].man = dir["slot"].man /\ dir'["slot"].meta = dir["slot"].meta
    BY <1>1, <1>5 DEF Content, Dirs
  <2>. QED BY <1>4, <1>5, <2>1
<1>6. ASSUME NEW r \in DropsFile(f, dir["slot"].tmp), Head(loc.todo) = "tmp",
             dir' = [dir EXCEPT !["slot"].tmp = r.left], rest(r.ok)
      PROVE  CopyInv'
  <2>1. dir'["slot"].man = dir["slot"].man /\ dir'["slot"].meta = dir["slot"].meta
    BY <1>1, <1>6 DEF Content, Dirs
  <2>. QED BY <1>4, <1>6, <2>1
<1>7. Head(loc.todo) \in {"committing", "previous", "bak", "tmp"}
  BY <1>1, Tails DEF TodoLists
<1>. QED BY <1>3, <1>5, <1>6, <1>7 DEF Sweep, Dirs

LEMMA SweepDoneSafe ==
  ASSUME IInv, CopyInv, NEW f \in BOOLEAN, SweepDone(f)
  PROVE  CopyInv'
<1>1. pc = "sweep" /\ loc \in Local /\ UNCHANGED dir /\ (SlotGood \/ loc.resume = "return")
  BY DEF SweepDone, Reading, IInv, CtlOK, CopyInv, SweepSafe
<1>2. \/ \E r : Return(r)
      \/ SlotGood /\ Goto("check")
      \/ SlotGood /\ Tidy
  BY <1>1 DEF SweepDone
<1>3. CASE SlotGood /\ Goto("check")
  BY <1>1, <1>3
     DEF Goto, SlotGood, CopyInv, Resumes, MetaSafe, PickSafe, SweepSafe, PublishLabels
<1>. QED BY <1>1, <1>2, <1>3, ReturnSafe, TidySafe

LEMMA ReconcileSafe ==
  ASSUME IInv, CopyInv, NEW f \in BOOLEAN, Reconcile(f)
  PROVE  CopyInv'
<1>1. CASE ReconcileThrows(f)
  BY <1>1, ReturnSafe DEF ReconcileThrows, IInv, CtlOK
<1>. QED BY <1>1, SurveySafe, ReadSlotMetaSafe, DropSlotMetaSafe, RestoreSlotMetaSafe,
     DoubtCheckSafe, PickFallbackSafe, DropSlotSafe, InstallSafe, VerifyInstalledSafe,
     SweepDirSafe, SweepDoneSafe DEF Reconcile

-----------------------------------------------------------------------------
(* Outside a reconcile only the label matters.                             *)

LEMMA ElsewhereSafe ==
  ASSUME pc' \notin ReconcileLabels \ {"reconcile"},
         \/ loc'.resume = "return"
         \/ pc' \notin {"block", "clear", "stage", "manifest", "final", "reconcile"}
                         \cup PublishLabels
  PROVE  CopyInv'
BY DEF CopyInv, Resumes, MetaSafe, PickSafe, SweepSafe, ReconcileLabels

LEMMA StepSafe ==
  ASSUME HInv, CopyInv, NEW f \in BOOLEAN, Step(f)
  PROVE  CopyInv'
<1>1. IInv /\ loc \in Local
  BY DEF HInv, IInv, CtlOK
<1>2. CASE Block(f)
  <2>1. UNCHANGED loc /\ loc.resume = "return" /\ pc' \in {"end", "clear", "w_clear", "d_slot"}
    BY <1>2 DEF Block, Reading, Goto, CopyInv, Resumes
  <2>. QED BY <2>1, ElsewhereSafe DEF ReconcileLabels
<1>3. CASE Reconcile(f)
  BY <1>1, <1>3, ReconcileSafe
<1>4. CASE PublishCommit(f)
  <2>1. pc \in PublishLabels /\ pc' \in PublishLabels \cup {"final"}
    BY <1>1, <1>4, ComponentLabels
  <2>2. loc' = loc \/ \E b : loc' = [loc EXCEPT !.published = b]
    BY <1>4 DEF PublishCommit, PublishCheck, DropStalePrevious, DropBadSlot, BringBackPrevious,
       MoveSlotAside, MoveCommitIn, UndoMoveAside, PublishTidy, PublishThrows, NotPublished,
       Goto, GotoWith
  <2>3. loc'.resume = "return"
    BY <1>1, <2>1, <2>2 DEF CopyInv, Resumes, Local
  <2>. QED BY <2>1, <2>3, ElsewhereSafe DEF ReconcileLabels, PublishLabels
<1>5. CASE Backup(f)
  <2>1. /\ pc \in {"clear", "stage", "manifest", "final", "settle"}
        /\ pc' \in {"stage", "end", "final", "manifest", "pub", "settle", "reconcile"}
    BY <1>1, <1>5, ComponentLabels DEF Backup, ClearStaging, Stage, NameManifest,
       BackupFinally, BackupVerdict, Reading, Writing
  <2>2. CASE BackupVerdict(f)
    BY <2>2, ElsewhereSafe DEF BackupVerdict, GotoWith, ReconcileLabels, PublishLabels
  <2>3. CASE ~BackupVerdict(f)
    <3>1. pc # "settle"
      BY <1>5, <2>3 DEF Backup, ClearStaging, Stage, NameManifest, BackupFinally, Reading, Writing
    <3>2. \/ UNCHANGED loc \/ loc' = [loc EXCEPT !.owns = TRUE]
          \/ loc' = [loc EXCEPT !.ret = "settle"] \/ \E r : loc' = [loc EXCEPT !.rec = r]
      BY <1>5, <2>3 DEF Backup, ClearStaging, Stage, NameManifest, BackupFinally, NotPublished,
         Goto, GotoWith
    <3>3. loc'.resume = "return"
      BY <1>1, <2>1, <3>1, <3>2 DEF CopyInv, Resumes, Local
    <3>. QED BY <2>1, <3>3, ElsewhereSafe DEF ReconcileLabels
  <2>. QED BY <2>2, <2>3
<1>6. CASE Edit(f) \/ Delete(f)
  <2>1. pc' \in EditLabels \cup DeleteLabels \cup {"end"}
    BY <1>1, <1>6, ComponentLabels
  <2>. QED BY <2>1, ElsewhereSafe DEF ReconcileLabels, EditLabels, DeleteLabels, PublishLabels
<1>. QED BY <1>2, <1>3, <1>4, <1>5, <1>6 DEF Step

LEMMA NextSafe == HInv /\ CopyInv /\ [Next]_vars => CopyInv'
<1>. SUFFICES ASSUME HInv, CopyInv, [Next]_vars PROVE CopyInv'
  OBVIOUS
<1>1. CASE UNCHANGED vars
  BY <1>1 DEF vars, CopyInv, Resumes, MetaSafe, PickSafe, SweepSafe, SlotGood, CopyThere
<1>2. CASE End \/ Crash
  BY <1>2, ElsewhereSafe DEF End, Crash, ReconcileLabels, PublishLabels
<1>3. CASE Forget \/ \E d \in Dirs : Damage(d)
  <2>1. pc' = "idle"
    BY <1>3 DEF Forget, Damage
  <2>. QED BY <2>1, ElsewhereSafe DEF ReconcileLabels, PublishLabels
<1>4. ASSUME NEW o, Begin(o) PROVE CopyInv'
  <2>1. pc' = "reconcile" /\ loc'.resume = "return"
    BY <1>4 DEF Begin, GotoWith, Fresh
  <2>. QED BY <2>1, ElsewhereSafe
<1>. QED BY <1>1, <1>2, <1>3, <1>4, NextKinds, StepSafe DEF Outside

LEMMA InitSafe == Init => CopyInv
BY DEF Init, CopyInv, Resumes, MetaSafe, PickSafe, SweepSafe, PublishLabels

-----------------------------------------------------------------------------
(* Copies: publishing, whatever the reads answer.                          *)

NumSafe == \A d \in Dirs : Below(dir[d], clock)

\* The new backup is complete in .committing until it is in the slot; only an
\* unusable slot is dropped, and .previous only beside a complete slot.
PubSafe ==
  /\ pc \in {"manifest"} \cup (PublishLabels \ {"pub_tidy"}) => IsNewest(dir["committing"])
  /\ pc \in PublishLabels \ {"pub", "pub_tidy"} => Ready(dir["committing"])
  /\ pc \in {"pub_prev", "pub_tidy"} => Ready(dir["slot"])
  /\ pc = "pub_swap" => ~Ready(dir["slot"])

\* The slot's files after the step are some of those before it, cut, or new.
SlotRewritten ==
  /\ dir'["previous"] = dir["previous"] /\ dir'["committing"] = dir["committing"]
  /\ dir'["slot"].ver = dir["slot"].ver
  /\ {dir'["slot"].meta, dir'["slot"].bak, dir'["slot"].tmp} \subseteq
       {dir["slot"].meta, dir["slot"].bak, dir["slot"].tmp, NoFile, Torn, clock}

LEMMA FilePut ==
  ASSUME DirOK, NEW x \in {dir["slot"].meta, dir["slot"].bak, dir["slot"].tmp, NoFile, Torn, clock},
         \/ dir' = [dir EXCEPT !["slot"].meta = x]
         \/ dir' = [dir EXCEPT !["slot"].bak = x]
         \/ dir' = [dir EXCEPT !["slot"].tmp = x]
  PROVE  SlotRewritten
BY DEF SlotRewritten, DirOK, Dirs, Content

LEMMA FileMoved ==
  ASSUME DirOK,
         \/ dir' = [dir EXCEPT !["slot"].meta = dir["slot"].bak, !["slot"].bak = NoFile]
         \/ dir' = [dir EXCEPT !["slot"].meta = dir["slot"].tmp, !["slot"].tmp = NoFile]
         \/ dir' = [dir EXCEPT !["slot"].bak = dir["slot"].meta, !["slot"].meta = NoFile]
  PROVE  SlotRewritten
BY DEF SlotRewritten, DirOK, Dirs, Content

LEMMA FileDropped ==
  ASSUME DirOK, NEW f,
         \/ \E r \in DropsFile(f, dir["slot"].meta) : dir' = [dir EXCEPT !["slot"].meta = r.left]
         \/ \E r \in DropsFile(f, dir["slot"].bak) : dir' = [dir EXCEPT !["slot"].bak = r.left]
         \/ \E r \in DropsFile(f, dir["slot"].tmp) : dir' = [dir EXCEPT !["slot"].tmp = r.left]
  PROVE  SlotRewritten
<1>1. CASE \E r \in DropsFile(f, dir["slot"].meta) : dir' = [dir EXCEPT !["slot"].meta = r.left]
  <2>1. PICK r \in DropsFile(f, dir["slot"].meta) : dir' = [dir EXCEPT !["slot"].meta = r.left]
    BY <1>1
  <2>2. r.left \in {dir["slot"].meta, NoFile}
    BY DropsFileAny
  <2>. QED BY <2>1, <2>2, FilePut
<1>2. CASE \E r \in DropsFile(f, dir["slot"].bak) : dir' = [dir EXCEPT !["slot"].bak = r.left]
  <2>1. PICK r \in DropsFile(f, dir["slot"].bak) : dir' = [dir EXCEPT !["slot"].bak = r.left]
    BY <1>2
  <2>2. r.left \in {dir["slot"].bak, NoFile}
    BY DropsFileAny
  <2>. QED BY <2>1, <2>2, FilePut
<1>3. CASE \E r \in DropsFile(f, dir["slot"].tmp) : dir' = [dir EXCEPT !["slot"].tmp = r.left]
  <2>1. PICK r \in DropsFile(f, dir["slot"].tmp) : dir' = [dir EXCEPT !["slot"].tmp = r.left]
    BY <1>3
  <2>2. r.left \in {dir["slot"].tmp, NoFile}
    BY DropsFileAny
  <2>. QED BY <2>1, <2>2, FilePut
<1>. QED BY <1>1, <1>2, <1>3

\* What the steps do to the directories.
DropsOne(f) == \E d \in Dirs : \E r \in Drops(f, dir[d]) : dir' = [dir EXCEPT ![d] = r.left]
MovesOne == \E a, b \in Dirs : dir' = Moved(a, b)

LEMMA StepMutates ==
  ASSUME HInv, NEW f \in BOOLEAN, Step(f)
  PROVE  \/ UNCHANGED dir /\ clock' \in {clock, clock + 1}
         \/ DropsOne(f) /\ UNCHANGED clock
         \/ MovesOne /\ UNCHANGED clock
         \/ SlotRewritten /\ clock' \in {clock, clock + 1}
         \/ dir' = [dir EXCEPT !["committing"] = Staged(clock + 1)] /\ clock' = clock + 1
         \/ dir' = [dir EXCEPT !["committing"].man = "ok"] /\ UNCHANGED clock
<1>1. DirOK /\ loc \in Local
  BY DEF HInv, IInv, CtlOK
<1>2. CASE Block(f)
  BY <1>2 DEF Block, Reading
<1>3. CASE Reconcile(f)
  <2>1. UNCHANGED clock
    BY <1>3, ReconcileFrame
  <2>2. CASE DropSlotMeta(f)
    BY <1>1, <2>1, <2>2, FileDropped DEF DropSlotMeta
  <2>3. CASE RestoreSlotMeta(f)
    BY <1>1, <2>1, <2>3, FileMoved DEF RestoreSlotMeta
  <2>4. CASE Install(f)
    <3>1. loc.src \in Dirs
      BY <2>4 DEF Install, Writing, HInv, IInv, CtlOK, Local, Dirs
    <3>. QED BY <2>1, <2>4, <3>1 DEF Install, MovesOne, Dirs
  <2>5. CASE Sweep(f)
    <3>1. \/ DropsOne(f)
          \/ \E r \in DropsFile(f, dir["slot"].bak) : dir' = [dir EXCEPT !["slot"].bak = r.left]
          \/ \E r \in DropsFile(f, dir["slot"].tmp) : dir' = [dir EXCEPT !["slot"].tmp = r.left]
      BY <2>5 DEF Sweep, DropsOne
    <3>. QED BY <1>1, <2>1, <3>1, FileDropped
  <2>6. CASE DropSlot(f)
    BY <2>1, <2>6 DEF DropSlot, DropsOne, Dirs
  <2>7. \/ UNCHANGED dir \/ DropSlotMeta(f) \/ RestoreSlotMeta(f) \/ DropSlot(f)
        \/ Install(f) \/ Sweep(f)
    BY <1>3 DEF Reconcile, Survey, ReadSlotMeta, DoubtSlotMeta, CheckSlot, PickFallback,
       VerifyInstalled, SweepDone, ReconcileThrows, Reading
  <2>. QED BY <2>1, <2>2, <2>3, <2>4, <2>5, <2>6, <2>7
<1>4. CASE PublishCommit(f)
  <2>1. UNCHANGED dir \/ DropsOne(f) \/ MovesOne
    BY <1>4 DEF PublishCommit, PublishCheck, DropStalePrevious, DropBadSlot, BringBackPrevious,
       MoveSlotAside, MoveCommitIn, UndoMoveAside, PublishTidy, PublishThrows, Reading, Dirs,
       DropsOne, MovesOne
  <2>. QED BY <1>4, <2>1, PublishFrame
<1>5. CASE Backup(f)
  <2>1. CASE ClearStaging(f)
    BY <2>1 DEF ClearStaging, Writing, DropsOne, Dirs
  <2>. QED BY <1>5, <2>1 DEF Backup, Stage, NameManifest, BackupFinally, BackupVerdict,
       Reading, Writing
<1>6. CASE Edit(f)
  <2>1. clock' \in {clock, clock + 1}
    BY <1>6 DEF Edit, ClearTemp, OpenTemp, CloseTemp, DropOldBackup, KeepOld, PublishTemp,
       PutBackOld, AbortEdit, DropKept, EditThrows, Writing
  <2>2. \/ UNCHANGED dir
        \/ \E x \in {Torn, clock} : dir' = [dir EXCEPT !["slot"].tmp = x]
        \/ \E r \in DropsFile(f, dir["slot"].tmp) : dir' = [dir EXCEPT !["slot"].tmp = r.left]
        \/ \E r \in DropsFile(f, dir["slot"].bak) : dir' = [dir EXCEPT !["slot"].bak = r.left]
        \/ dir' = [dir EXCEPT !["slot"].meta = dir["slot"].bak, !["slot"].bak = NoFile]
        \/ dir' = [dir EXCEPT !["slot"].meta = dir["slot"].tmp, !["slot"].tmp = NoFile]
        \/ dir' = [dir EXCEPT !["slot"].bak = dir["slot"].meta, !["slot"].meta = NoFile]
    BY <1>6 DEF Edit, ClearTemp, OpenTemp, CloseTemp, DropOldBackup, KeepOld, PublishTemp,
       PutBackOld, AbortEdit, DropKept, EditThrows
  <2>. QED BY <1>1, <2>1, <2>2, FilePut, FileDropped, FileMoved
<1>7. CASE Delete(f)
  <2>1. UNCHANGED dir \/ DropsOne(f)
    BY <1>7 DEF Delete, DeleteSlotDir, DeleteStaged, DeletePrevious, DeleteVerdict,
       DeleteThrows, Reading, Dirs, DropsOne
  <2>. QED BY <1>7, <2>1, DeleteFrame
<1>. QED BY <1>2, <1>3, <1>4, <1>5, <1>6, <1>7 DEF Step

LEMMA BelowLater ==
  ASSUME NEW x \in Content, NEW m \in Nat, NEW n \in Nat, Below(x, m), m <= n
  PROVE  Below(x, n)
BY ContentTypes DEF Below

LEMMA StepNum ==
  ASSUME HInv, NumSafe, NEW f \in BOOLEAN, Step(f)
  PROVE  NumSafe' /\ clock' \in {clock, clock + 1}
<1>1. clock' \in {clock, clock + 1} /\ clock \in Nat /\ clock' \in Nat /\ clock <= clock'
  <2>1. clock' \in {clock, clock + 1}
    BY StepMutates
  <2>2. clock \in Nat
    BY DEF HInv, IInv, RestOK
  <2>. QED BY <2>1, <2>2
<1>2. \A d \in Dirs : dir[d] \in Content /\ Below(dir[d], clock')
  BY <1>1, BelowLater DEF HInv, IInv, DirOK, NumSafe
<1>3. dir \in [Dirs -> Content]
  BY DEF HInv, IInv, DirOK
<1>4. Below(Absent, clock')
  BY <1>1 DEF Below, Absent, NoFile
<1>5. ASSUME NEW d \in Dirs, NEW r \in Drops(f, dir[d]), dir' = [dir EXCEPT ![d] = r.left]
      PROVE  NumSafe'
  <2>1. Below(r.left, clock')
    BY <1>1, <1>2, DropsAny DEF Below, NoFile
  <2>. QED BY <1>2, <1>3, <1>5, <2>1 DEF NumSafe
<1>6. ASSUME NEW a \in Dirs, NEW b \in Dirs, dir' = Moved(a, b)
      PROVE  NumSafe'
  <2>1. \A d \in Dirs : dir'[d] \in {dir[d], dir[a], Absent}
    BY <1>3, <1>6 DEF Moved
  <2>. QED BY <1>2, <1>4, <2>1 DEF NumSafe
<1>7. ASSUME SlotRewritten PROVE NumSafe'
  <2>1. dir["slot"] \in Content /\ Below(dir["slot"], clock')
    BY <1>2 DEF Dirs
  <2>2. NoFile <= clock' /\ Torn <= clock'
    BY <1>1 DEF NoFile, Torn
  <2>3. Below(dir'["slot"], clock')
    BY <1>1, <1>7, <2>1, <2>2 DEF SlotRewritten, Below
  <2>4. Below(dir'["previous"], clock') /\ Below(dir'["committing"], clock')
    BY <1>2, <1>7 DEF SlotRewritten, Dirs
  <2>. QED BY <2>3, <2>4 DEF NumSafe, Below, Dirs
<1>8. ASSUME dir' = [dir EXCEPT !["committing"] = Staged(clock + 1)], clock' = clock + 1
      PROVE  NumSafe'
  <2>1. Below(Staged(clock + 1), clock')
    BY <1>1, <1>8 DEF Below, Staged, NoFile
  <2>. QED BY <1>2, <1>3, <1>8, <2>1 DEF NumSafe
<1>9. ASSUME dir' = [dir EXCEPT !["committing"].man = "ok"] PROVE NumSafe'
  <2>1. Below([dir["committing"] EXCEPT !.man = "ok"], clock')
    BY <1>2 DEF Below, Content, Dirs
  <2>2. dir'["committing"] = [dir["committing"] EXCEPT !.man = "ok"]
        /\ \A d \in Dirs \ {"committing"} : dir'[d] = dir[d]
    BY <1>3, <1>9 DEF Dirs
  <2>3. Below(dir'["committing"], clock') /\ \A d \in Dirs \ {"committing"} : Below(dir'[d], clock')
    BY <1>2, <2>1, <2>2
  <2>. QED BY <2>3 DEF NumSafe, Below
<1>10. ASSUME UNCHANGED dir PROVE NumSafe'
  <2>1. \A d \in Dirs : Below(dir'[d], clock')
    BY <1>2, <1>10
  <2>. QED BY <2>1 DEF NumSafe, Below
<1>. QED BY <1>1, <1>5, <1>6, <1>7, <1>8, <1>9, <1>10, StepMutates DEF DropsOne, MovesOne

LEMMA NotPublishing ==
  ASSUME pc' \notin {"manifest"} \cup PublishLabels
  PROVE  PubSafe'
BY DEF PubSafe, PublishLabels

\* What holds while a backup is published, and what a move needs and does.
LEMMA PublishStart ==
  ASSUME HInv, PubSafe, pc \in PublishLabels
  PROVE  /\ dir \in [Dirs -> Content] /\ clock \in Nat
         /\ \A d \in Dirs : Proper(dir[d])
         /\ pc # "pub_tidy" => IsNewest(dir["committing"])
         /\ pc \notin {"pub", "pub_tidy"} => Ready(dir["committing"])
<1>1. clock \in Nat
  BY DEF HInv, IInv, RestOK
<1>. QED BY <1>1 DEF HInv, IInv, DirOK, HereOK, Proper, PubSafe

LEMMA MovePlaces ==
  ASSUME dir \in [Dirs -> Content], \A d \in Dirs : Proper(dir[d]),
         NEW f, NEW a \in Dirs, NEW b \in Dirs, a # b, CanMove(f, a, b), dir' = Moved(a, b)
  PROVE  /\ dir'[b] = dir[a] /\ dir'[a] = Absent /\ dir[b] = Absent
         /\ \A e \in Dirs \ {a, b} : dir'[e] = dir[e]
BY DEF Moved, CanMove, Proper

LEMMA DropPlaces ==
  ASSUME dir \in [Dirs -> Content], NEW f, NEW d \in Dirs,
         \E r \in Drops(f, dir[d]) : dir' = [dir EXCEPT ![d] = r.left]
  PROVE  /\ \A e \in Dirs \ {d} : dir'[e] = dir[e]
         /\ Ready(dir'[d]) => Ready(dir[d])
<1>1. PICK r \in Drops(f, dir[d]) : dir' = [dir EXCEPT ![d] = r.left]
  OBVIOUS
<1>2. dir'[d] = r.left /\ \A e \in Dirs \ {d} : dir'[e] = dir[e]
  BY <1>1
<1>. QED BY <1>2, DropsAny

LEMMA PublishSafe ==
  ASSUME HInv, PubSafe, NEW f \in BOOLEAN, PublishCommit(f)
  PROVE  PubSafe'
<1>1. /\ pc \in PublishLabels /\ dir \in [Dirs -> Content] /\ DirOK
      /\ \A d \in Dirs : Proper(dir[d])
      /\ pc # "pub_tidy" => IsNewest(dir["committing"])
      /\ pc \notin {"pub", "pub_tidy"} => Ready(dir["committing"])
      /\ UNCHANGED clock
  BY PublishStart, ComponentLabels, PublishFrame DEF HInv, IInv
<1>2. CASE NotPublished \/ pc' = "final"
  BY <1>2, NotPublishing DEF NotPublished, Goto, PublishLabels
<1>3. ASSUME IsNewest(dir["committing"]), Ready(dir["committing"]),
             dir'["committing"] = dir["committing"],
             pc' \in {"pub_back", "pub_out", "pub_in", "pub_undo"}
      PROVE  PubSafe'
  BY <1>1, <1>3 DEF PubSafe, IsNewest
<1>4. CASE PublishCheck(f)
  <2>1. UNCHANGED dir /\ pc = "pub" /\ IsNewest(dir["committing"])
    BY <1>1, <1>4 DEF PublishCheck, Reading
  <2>2. \/ pc' = "final"
        \/ /\ Ready(dir["committing"])
           /\ \/ pc' \in {"pub_back", "pub_out"}
              \/ pc' = "pub_prev" /\ Ready(dir["slot"])
              \/ pc' = "pub_swap" /\ ~Ready(dir["slot"])
    <3>1. /\ "ready" \in backupReady(f, "committing") => Ready(dir["committing"])
          /\ "ready" \in backupReady(f, "slot") => Ready(dir["slot"])
          /\ "unavailable" \in backupReady(f, "slot") => ~Ready(dir["slot"])
      BY <1>1, Honest DEF Dirs
    <3>. QED BY <1>4, <3>1 DEF PublishCheck, NotPublished, Goto
  <2>. QED BY <1>1, <1>2, <2>1, <2>2 DEF PubSafe, IsNewest
<1>5. CASE DropStalePrevious(f)
  <2>1. dir'["committing"] = dir["committing"] /\ pc = "pub_prev"
    BY <1>1, <1>5, DropPlaces DEF DropStalePrevious, Writing, Dirs
  <2>2. pc' = "pub_out" \/ NotPublished
    BY <1>5 DEF DropStalePrevious, Goto
  <2>. QED BY <1>1, <1>2, <1>3, <2>1, <2>2
<1>6. CASE DropBadSlot(f)
  <2>1. dir'["committing"] = dir["committing"] /\ pc = "pub_swap"
    BY <1>1, <1>6, DropPlaces DEF DropBadSlot, Writing, Dirs
  <2>2. pc' = "pub_back" \/ NotPublished
    BY <1>6 DEF DropBadSlot, Goto
  <2>. QED BY <1>1, <1>2, <1>3, <2>1, <2>2
<1>7. CASE BringBackPrevious(f)
  <2>1. CASE pc' = "pub_out"
    <3>1. dir'["committing"] = dir["committing"] /\ pc = "pub_back"
      BY <1>1, <1>7, <2>1, MovePlaces DEF BringBackPrevious, Writing, Dirs, NotPublished, Goto
    <3>. QED BY <1>1, <1>3, <2>1, <3>1
  <2>. QED BY <1>2, <1>7, <2>1 DEF BringBackPrevious, Goto
<1>8. CASE MoveSlotAside(f)
  <2>1. CASE pc' = "pub_in"
    <3>1. dir'["committing"] = dir["committing"] /\ pc = "pub_out"
      BY <1>1, <1>8, <2>1, MovePlaces DEF MoveSlotAside, Writing, Dirs, NotPublished, Goto
    <3>. QED BY <1>1, <1>3, <2>1, <3>1
  <2>. QED BY <1>2, <1>8, <2>1 DEF MoveSlotAside, Goto
<1>9. CASE MoveCommitIn(f)
  <2>1. pc = "pub_in" /\ pc' \in {"pub_tidy", "pub_undo"}
    BY <1>9 DEF MoveCommitIn, Writing, Goto
  <2>2. CASE pc' = "pub_tidy"
    <3>1. dir'["slot"] = dir["committing"]
      BY <1>1, <1>9, <2>2, MovePlaces DEF MoveCommitIn, Dirs, Goto
    <3>. QED BY <1>1, <2>1, <2>2, <3>1 DEF PubSafe, PublishLabels
  <2>3. CASE pc' = "pub_undo"
    <3>1. UNCHANGED dir
      BY <1>9, <2>3 DEF MoveCommitIn, Goto
    <3>. QED BY <1>1, <1>3, <2>1, <2>3, <3>1
  <2>. QED BY <2>1, <2>2, <2>3
<1>10. CASE UndoMoveAside(f) \/ PublishTidy(f) \/ PublishThrows(f)
  BY <1>2, <1>10 DEF UndoMoveAside, PublishTidy, PublishThrows, GotoWith
<1>. QED BY <1>4, <1>5, <1>6, <1>7, <1>8, <1>9, <1>10 DEF PublishCommit

LEMMA BackupSafe ==
  ASSUME HInv, PubSafe, NEW f \in BOOLEAN, Backup(f)
  PROVE  PubSafe'
<1>1. dir \in [Dirs -> Content] /\ clock \in Nat
  <2>1. 0 .. MaxClock \subseteq Nat
    OBVIOUS
  <2>. QED BY <2>1 DEF HInv, IInv, DirOK, RestOK
<1>2. CASE pc' \notin {"manifest", "pub"}
  <2>1. pc' \in {"stage", "end", "final", "manifest", "pub", "settle", "reconcile"}
    BY ComponentLabels DEF HInv
  <2>. QED BY <1>2, <2>1, NotPublishing DEF PublishLabels
<1>3. CASE Stage(f) /\ pc' = "manifest"
  <2>1. /\ dir' = [dir EXCEPT !["committing"] = Staged(clock + 1)] /\ clock' = clock + 1
    BY <1>3 DEF Stage, Goto
  <2>2. dir'["committing"] = Staged(clock + 1)
    BY <1>1, <2>1 DEF Dirs
  <2>. QED BY <1>1, <1>3, <2>1, <2>2 DEF PubSafe, IsNewest, Staged, PublishLabels
<1>4. CASE NameManifest(f) /\ pc' = "pub"
  <2>1. /\ pc = "manifest" /\ UNCHANGED clock /\ IsNewest(dir["committing"])
        /\ dir' = [dir EXCEPT !["committing"].man = "ok"]
    BY <1>4 DEF NameManifest, Writing, NotPublished, Goto, PubSafe
  <2>2. /\ dir'["committing"].here = dir["committing"].here
        /\ dir'["committing"].ver = dir["committing"].ver
        /\ dir'["committing"].meta = dir["committing"].meta
    BY <1>1, <2>1 DEF Content, Dirs
  <2>. QED BY <1>4, <2>1, <2>2 DEF PubSafe, IsNewest, PublishLabels
<1>. QED BY <1>2, <1>3, <1>4 DEF Backup, ClearStaging, Stage, NameManifest, BackupFinally,
     BackupVerdict, NotPublished, Goto, GotoWith

PubInv == HInv /\ NumSafe /\ PubSafe

LEMMA NextPub == PubInv /\ [Next]_vars => PubInv'
<1>. SUFFICES ASSUME PubInv, [Next]_vars PROVE PubInv'
  OBVIOUS
<1>1. HInv /\ IInv /\ loc.ret \in {"end", "block", "settle"} /\ dir \in [Dirs -> Content]
  BY DEF PubInv, HInv, IInv, CtlOK, Local, DirOK
<1>2. CASE UNCHANGED vars
  BY <1>1, <1>2, HNext DEF vars, PubInv, NumSafe, PubSafe, Below, IsNewest
<1>3. ASSUME NEW f \in BOOLEAN, Step(f) PROVE NumSafe' /\ PubSafe'
  <2>1. NumSafe'
    BY <1>1, <1>3, StepNum DEF PubInv
  <2>2. CASE PublishCommit(f)
    BY <1>1, <2>1, <2>2, PublishSafe DEF PubInv
  <2>3. CASE Backup(f)
    BY <1>1, <2>1, <2>3, BackupSafe DEF PubInv
  <2>4. CASE Block(f) \/ Reconcile(f) \/ Edit(f) \/ Delete(f)
    <3>1. pc' \in {"clear", "w_clear", "d_slot", "end", "block", "settle"}
                    \cup ReconcileLabels \cup EditLabels \cup DeleteLabels
      BY <1>1, <2>4, BlockLabels, ComponentLabels
    <3>. QED BY <2>1, <3>1, NotPublishing
         DEF ReconcileLabels, EditLabels, DeleteLabels, PublishLabels
  <2>. QED BY <1>3, <2>2, <2>3, <2>4 DEF Step
<1>4. ASSUME End \/ Outside PROVE NumSafe' /\ PubSafe'
  <2>1. UNCHANGED clock /\ pc' \in {"idle", "reconcile"}
    BY <1>4 DEF End, Outside, Begin, Crash, Forget, Damage, GotoWith
  <2>2. PubSafe'
    BY <2>1, NotPublishing DEF PublishLabels
  <2>3. CASE UNCHANGED dir
    BY <2>1, <2>2, <2>3 DEF PubInv, NumSafe, Below
  <2>4. CASE \E d \in Dirs : Damage(d)
    <3>1. PICK d \in Dirs : Damage(d)
      BY <2>4
    <3>2. /\ \A e \in Dirs \ {d} : dir'[e] = dir[e]
          /\ dir'[d].ver = dir[d].ver /\ dir'[d].meta \in {dir[d].meta, Torn}
          /\ dir'[d].bak = dir[d].bak /\ dir'[d].tmp = dir[d].tmp
      BY <1>1, <3>1 DEF Damage, Content
    <3>3. Torn <= clock
      BY DEF Torn, HInv, IInv, RestOK, PubInv
    <3>4. NumSafe'
      BY <2>1, <3>2, <3>3 DEF PubInv, NumSafe, Below
    <3>. QED BY <2>2, <3>4
  <2>. QED BY <1>4, <2>3, <2>4 DEF End, Outside, Begin, Crash, Forget
<1>. QED BY <1>1, <1>2, <1>3, <1>4, NextKinds, HNext DEF PubInv

LEMMA PubAlways == Spec => []PubInv
<1>1. Init => NumSafe /\ PubSafe
  BY DEF Init, NumSafe, PubSafe, Below, Absent, NoFile, PublishLabels
<1>. QED BY <1>1, HInit, NextPub, PTL DEF Spec, PubInv

-----------------------------------------------------------------------------
(* A step of publishCommit and the value of the id.                        *)

LEMMA CoversSelf == \A v \in [ver : Nat, meta : Nat] : Covers(v, v)
BY DEF Covers

\* The value where the new backup takes the place of an absent slot.
LEMMA NewestWins ==
  ASSUME NEW s, NEW p, NEW c, Proper(s), Proper(p), Proper(c), s = Absent, clock \in Nat,
         Below(s, clock), Below(p, clock), Below(c, clock), Ready(c), IsNewest(c),
         NEW p2, NEW c2
  PROVE  Covers(ValueOf(c, p2, c2), ValueOf(s, p, c))
<1>1. ValueOf(c, p2, c2) = [ver |-> clock, meta |-> clock]
  BY DEF ValueOf, BestOf, Value, IsNewest, ReadMeta, Legible
<1>2. ValueOf(s, p, c).ver <= clock /\ ValueOf(s, p, c).meta <= clock
  BY ValueTypes DEF Proper
<1>. QED BY <1>1, <1>2 DEF Covers

LEMMA PublishRises ==
  ASSUME PubInv, PubInv', NEW f \in BOOLEAN, PublishCommit(f)
  PROVE  Covers(BestVersion', BestVersion)
<1>. DEFINE s == dir["slot"]  p == dir["previous"]  c == dir["committing"]
            s2 == dir'["slot"]  p2 == dir'["previous"]  c2 == dir'["committing"]
<1>1. /\ pc \in PublishLabels /\ dir \in [Dirs -> Content]
      /\ \A d \in Dirs : Proper(dir[d])
      /\ pc # "pub_tidy" => IsNewest(dir["committing"])
      /\ pc \notin {"pub", "pub_tidy"} => Ready(dir["committing"])
      /\ UNCHANGED clock /\ clock \in Nat
  BY PublishStart, ComponentLabels, PublishFrame DEF PubInv, HInv
<1>2. /\ BestVersion = ValueOf(s, p, c) /\ BestVersion' = ValueOf(s2, p2, c2)
      /\ Proper(s) /\ Proper(p) /\ Proper(c)
      /\ Below(s, clock) /\ Below(p, clock) /\ Below(c, clock)
  BY <1>1, ValueIs DEF PubInv, NumSafe, Dirs
<1>3. ASSUME BestVersion' = BestVersion PROVE Covers(BestVersion', BestVersion)
  BY <1>3, NumTypes, CoversSelf DEF PubInv
<1>4. CASE UNCHANGED dir
  BY <1>2, <1>3, <1>4
<1>5. CASE Ready(s) /\ s2 = s
  BY <1>2, <1>3, <1>5 DEF ValueOf, BestOf
<1>6. CASE ~Ready(s) /\ ~Ready(s2) /\ p2 = p /\ c2 = c
  BY <1>2, <1>3, <1>6 DEF ValueOf, BestOf
<1>7. CASE s = Absent /\ s2 = p /\ p2 = Absent /\ c2 = c
  BY <1>2, <1>3, <1>7, AbsentNotReady DEF ValueOf, BestOf
<1>8. CASE p = Absent /\ p2 = s /\ s2 = Absent /\ c2 = c
  BY <1>2, <1>3, <1>8, AbsentNotReady DEF ValueOf, BestOf
<1>9. CASE s = Absent /\ s2 = c /\ Ready(c) /\ IsNewest(c)
  BY <1>1, <1>2, <1>9, NewestWins
<1>10. CASE DropStalePrevious(f) \/ PublishTidy(f)
  <2>1. Ready(s)
    BY <1>10 DEF DropStalePrevious, PublishTidy, Writing, PubInv, PubSafe
  <2>2. s2 = s
    BY <1>1, <1>10, DropPlaces DEF DropStalePrevious, PublishTidy, Dirs
  <2>. QED BY <1>5, <2>1, <2>2
<1>11. CASE DropBadSlot(f)
  <2>1. ~Ready(s)
    BY <1>11 DEF DropBadSlot, Writing, PubInv, PubSafe
  <2>2. ~Ready(s2) /\ p2 = p /\ c2 = c
    BY <1>1, <1>11, <2>1, DropPlaces DEF DropBadSlot, Dirs
  <2>. QED BY <1>6, <2>1, <2>2
<1>12. ASSUME CanMove(f, "previous", "slot"), dir' = Moved("previous", "slot")
       PROVE  Covers(BestVersion', BestVersion)
  <2>1. s = Absent /\ s2 = p /\ p2 = Absent /\ c2 = c
    BY <1>1, <1>12, MovePlaces DEF Dirs
  <2>. QED BY <1>7, <2>1
<1>13. ASSUME CanMove(f, "slot", "previous"), dir' = Moved("slot", "previous")
       PROVE  Covers(BestVersion', BestVersion)
  <2>1. p = Absent /\ p2 = s /\ s2 = Absent /\ c2 = c
    BY <1>1, <1>13, MovePlaces DEF Dirs
  <2>. QED BY <1>8, <2>1
<1>14. CASE MoveCommitIn(f) /\ ~UNCHANGED dir
  <2>1. s = Absent /\ s2 = c
    BY <1>1, <1>14, MovePlaces DEF MoveCommitIn, Dirs
  <2>2. pc = "pub_in"
    BY <1>14 DEF MoveCommitIn, Writing
  <2>. QED BY <1>1, <1>9, <2>1, <2>2
<1>15. CASE PublishCheck(f) \/ PublishThrows(f)
  BY <1>4, <1>15 DEF PublishCheck, PublishThrows, Reading
<1>. HIDE DEF s, p, c, s2, p2, c2
<1>. QED BY <1>4, <1>10, <1>11, <1>12, <1>13, <1>14, <1>15
     DEF PublishCommit, BringBackPrevious, MoveSlotAside, MoveCommitIn, UndoMoveAside

\* Which components run at a publish label.
LEMMA AtPublish ==
  ASSUME HInv, [Next]_vars, pc \in PublishLabels
  PROVE  UNCHANGED dir \/ \E f \in BOOLEAN : PublishCommit(f)
<1>1. CASE End \/ Outside \/ UNCHANGED vars
  BY <1>1 DEF End, Outside, Begin, Crash, Forget, Damage, vars, PublishLabels
<1>2. ASSUME NEW f \in BOOLEAN, Step(f) PROVE PublishCommit(f)
  <2>1. Backup(f) => pc \in {"clear", "stage", "manifest", "final", "settle"}
    BY DEF Backup, ClearStaging, Stage, NameManifest, BackupFinally, BackupVerdict, Reading,
       Writing
  <2>2. Block(f) => pc = "block"
    BY DEF Block, Reading
  <2>. QED BY <1>2, <2>1, <2>2, ComponentLabels
       DEF Step, HInv, PublishLabels, ReconcileLabels, EditLabels, DeleteLabels
<1>. QED BY <1>1, <1>2, NextKinds

\* publishCommit, whatever fails or lies, never makes the copy that the next
\* reconcile keeps older, in its payload or in its metadata: InstanceStore's order
\* of dropping, moving aside and moving in, with damaged files and outages of reads.
THEOREM PublishKeepsGround == Spec => PublishNeverDowngrades
<1>1. PubInv /\ PubInv' /\ [Next]_vars
        => [(pc \in PublishLabels) => Register!Covers(BestVersion', BestVersion)]_vars
  <2>. SUFFICES ASSUME PubInv, PubInv', [Next]_vars, pc \in PublishLabels
                PROVE  Register!Covers(BestVersion', BestVersion)
    OBVIOUS
  <2>1. CASE UNCHANGED dir
    <3>1. BestVersion' = BestVersion
      BY <2>1, ValueIs
    <3>2. Covers(BestVersion', BestVersion)
      BY <3>1, NumTypes, CoversSelf DEF PubInv
    <3>. QED BY <3>2 DEF Covers, Register!Covers
  <2>2. ASSUME NEW f \in BOOLEAN, PublishCommit(f) PROVE Register!Covers(BestVersion', BestVersion)
    BY <2>2, PublishRises DEF Covers, Register!Covers
  <2>. QED BY <2>1, <2>2, AtPublish DEF PubInv
<1>. QED BY <1>1, PubAlways, PTL DEF Spec, PublishNeverDowngrades

-----------------------------------------------------------------------------
(* Complete copies.                                                        *)

CopyLost(d) == Whole(dir[d]) /\ ~Whole(dir'[d])
Siblings == {"previous", "committing"}
Outlived == \A d \in Siblings : CopyLost(d) => Ready(dir'["slot"])

\* A move takes a copy only into the slot, and never onto one.
LEMMA MoveOutlived ==
  ASSUME HInv, NEW f, NEW a \in Dirs, NEW b \in Dirs, a # b, a # "slot" => b = "slot",
         CanMove(f, a, b), dir' = Moved(a, b)
  PROVE  Outlived
<1>1. /\ dir'[b] = dir[a] /\ dir[b] = Absent
      /\ \A e \in Dirs \ {a, b} : dir'[e] = dir[e]
  BY MovePlaces DEF HInv, IInv, DirOK, HereOK, Proper
<1>2. ~Whole(dir[b])
  BY <1>1, AbsentNotReady DEF Whole
<1>3. \A d \in Siblings : CopyLost(d) => d = a
  BY <1>1, <1>2 DEF CopyLost, Siblings, Dirs
<1>4. CopyLost(a) => Ready(dir[a])
  BY DEF CopyLost, Whole
<1>. QED BY <1>1, <1>3, <1>4 DEF Outlived, Siblings

LEMMA SlotOutlived ==
  ASSUME \A d \in Siblings : dir'[d] = dir[d]
  PROVE  Outlived
BY DEF Outlived, CopyLost

LEMMA BesideOutlived ==
  ASSUME Ready(dir["slot"]), dir'["slot"] = dir["slot"]
  PROVE  Outlived
BY DEF Outlived

LEMMA SweepOutlived ==
  ASSUME HInv, CopyInv, NEW f \in BOOLEAN, Sweep(f)
  PROVE  Outlived
<1>1. /\ pc = "sweep" /\ loc \in Local /\ dir \in [Dirs -> Content]
      /\ loc.todo \in TodoLists /\ loc.todo # <<>>
      /\ \/ SlotGood
         \/ loc.todo = <<"committing">> /\ dir["committing"].man = "none"
  BY DEF Sweep, Writing, HInv, IInv, CtlOK, DirOK, CopyInv, SweepSafe
<1>2. ASSUME NEW d \in Siblings, d = Head(loc.todo),
             \E r \in Drops(f, dir[d]) : dir' = [dir EXCEPT ![d] = r.left]
      PROVE  Outlived
  <2>1. \A e \in Dirs \ {d} : dir'[e] = dir[e]
    BY <1>1, <1>2, DropPlaces DEF Siblings, Dirs
  <2>2. CASE SlotGood
    BY <1>2, <2>1, <2>2, BesideOutlived DEF SlotGood, Siblings, Dirs
  <2>3. CASE loc.todo = <<"committing">> /\ dir["committing"].man = "none"
    <3>1. d = "committing" /\ ~Whole(dir["committing"])
      BY <1>2, <2>3, Tails DEF Whole, Ready
    <3>. QED BY <2>1, <3>1 DEF Outlived, CopyLost, Siblings, Dirs
  <2>. QED BY <1>1, <2>2, <2>3
<1>3. \/ \E d \in Siblings : /\ d = Head(loc.todo)
                             /\ \E r \in Drops(f, dir[d]) : dir' = [dir EXCEPT ![d] = r.left]
      \/ \E r \in DropsFile(f, dir["slot"].bak) : dir' = [dir EXCEPT !["slot"].bak = r.left]
      \/ \E r \in DropsFile(f, dir["slot"].tmp) : dir' = [dir EXCEPT !["slot"].tmp = r.left]
  <2>1. Head(loc.todo) \in {"committing", "previous", "bak", "tmp"}
    BY <1>1, Tails DEF TodoLists
  <2>. QED BY <2>1 DEF Sweep, Siblings, Dirs
<1>. QED BY <1>1, <1>2, <1>3, SlotOutlived DEF Siblings, Dirs

LEMMA ReconcileOutlived ==
  ASSUME HInv, CopyInv, NEW f \in BOOLEAN, Reconcile(f)
  PROVE  Outlived
<1>1. dir \in [Dirs -> Content] /\ loc \in Local /\ DirOK
  BY DEF HInv, IInv, CtlOK, DirOK
<1>2. CASE Install(f)
  <2>1. loc.src \in Siblings
    BY <1>2 DEF Install, Writing, CopyInv, PickSafe, Siblings
  <2>2. CASE CanMove(f, loc.src, "slot") /\ dir' = Moved(loc.src, "slot")
    BY <2>1, <2>2, MoveOutlived DEF Siblings, Dirs
  <2>. QED BY <1>2, <2>2, SlotOutlived DEF Install
<1>3. CASE Sweep(f)
  BY <1>3, SweepOutlived
<1>4. CASE DropSlotMeta(f) \/ RestoreSlotMeta(f) \/ DropSlot(f)
  BY <1>1, <1>4, SlotOutlived DEF DropSlotMeta, RestoreSlotMeta, DropSlot, Siblings, Dirs
<1>. QED BY <1>2, <1>3, <1>4, SlotOutlived
     DEF Reconcile, Survey, ReadSlotMeta, DoubtSlotMeta, CheckSlot, PickFallback,
         VerifyInstalled, SweepDone, ReconcileThrows, Reading

LEMMA PublishOutlived ==
  ASSUME PubInv, NEW f \in BOOLEAN, PublishCommit(f)
  PROVE  Outlived
<1>1. dir \in [Dirs -> Content] /\ HInv
  BY DEF PubInv, HInv, IInv, DirOK
<1>2. CASE DropStalePrevious(f) \/ PublishTidy(f)
  <2>1. Ready(dir["slot"])
    BY <1>2 DEF DropStalePrevious, PublishTidy, Writing, PubInv, PubSafe
  <2>2. dir'["slot"] = dir["slot"]
    BY <1>1, <1>2, DropPlaces DEF DropStalePrevious, PublishTidy, Dirs
  <2>. QED BY <2>1, <2>2, BesideOutlived
<1>3. CASE DropBadSlot(f)
  BY <1>1, <1>3, DropPlaces, SlotOutlived DEF DropBadSlot, Siblings, Dirs
<1>4. CASE UNCHANGED dir
  BY <1>4, SlotOutlived
<1>5. ASSUME NEW a \in Dirs, NEW b \in Dirs, a # b, a # "slot" => b = "slot",
             CanMove(f, a, b), dir' = Moved(a, b)
      PROVE  Outlived
  BY <1>1, <1>5, MoveOutlived
<1>. QED BY <1>2, <1>3, <1>4, <1>5
     DEF PublishCommit, PublishCheck, BringBackPrevious, MoveSlotAside, MoveCommitIn,
         UndoMoveAside, PublishThrows, Reading, Dirs

LEMMA BackupOutlived ==
  ASSUME HInv, NEW f \in BOOLEAN, Backup(f), pc # "clear"
  PROVE  Outlived
<1>1. dir \in [Dirs -> Content] /\ \A d \in Dirs : ~dir[d].here => dir[d] = Absent
  BY DEF HInv, IInv, DirOK, HereOK
<1>2. CASE Stage(f) /\ ~UNCHANGED dir
  <2>1. /\ ~dir["committing"].here
        /\ dir' = [dir EXCEPT !["committing"] = Staged(clock + 1)]
    BY <1>2 DEF Stage
  <2>2. ~Whole(dir["committing"])
    BY <1>1, <2>1, AbsentNotReady DEF Whole, Dirs
  <2>. QED BY <1>1, <2>1, <2>2 DEF Outlived, CopyLost, Siblings, Dirs
<1>3. CASE NameManifest(f) /\ ~UNCHANGED dir
  <2>1. dir' = [dir EXCEPT !["committing"].man = "ok"]
    BY <1>3 DEF NameManifest
  <2>2. Whole(dir["committing"]) => Whole(dir'["committing"])
    BY <1>1, <2>1 DEF Whole, Ready, MetaReady, Content, Dirs
  <2>. QED BY <1>1, <2>1, <2>2 DEF Outlived, CopyLost, Siblings, Dirs
<1>. QED BY <1>2, <1>3, SlotOutlived
     DEF Backup, ClearStaging, Stage, NameManifest, BackupFinally, BackupVerdict, Reading, Writing

LEMMA EditOutlived ==
  ASSUME HInv, NEW f \in BOOLEAN, Edit(f)
  PROVE  Outlived
<1>1. dir \in [Dirs -> Content]
  BY DEF HInv, IInv, DirOK
<1>. QED BY <1>1, SlotOutlived
     DEF Edit, ClearTemp, OpenTemp, CloseTemp, DropOldBackup, KeepOld, PublishTemp,
         PutBackOld, AbortEdit, DropKept, EditThrows, Siblings, Dirs

\* A complete .committing or .previous is only ever destroyed beside a complete slot
\* (a deletion, and the clearing of an older staging directory, apart), even when
\* reads fail, files are damaged and deletes stop half way.
THEOREM DoubtSparesCopies == Spec => CopiesOutliveDoubt
<1>. DEFINE Act == \A d \in {"previous", "committing"} :
                     /\ pc \notin DeleteLabels \cup {"idle", "clear"}
                     /\ Whole(dir[d]) /\ ~Whole(dir'[d])
                     => Ready(dir'["slot"])
<1>1. PubInv /\ CopyInv /\ [Next]_vars => [Act]_vars
  <2>. SUFFICES ASSUME PubInv, CopyInv, [Next]_vars, pc \notin DeleteLabels \cup {"idle", "clear"}
                PROVE  Outlived
    BY DEF Outlived, CopyLost, Siblings
  <2>1. HInv
    BY DEF PubInv
  <2>2. CASE UNCHANGED dir
    BY <2>2, SlotOutlived
  <2>3. ASSUME NEW f \in BOOLEAN, Step(f) PROVE Outlived
    <3>1. Delete(f) => pc \in DeleteLabels
      BY <2>1, ComponentLabels DEF HInv
    <3>2. Block(f) => UNCHANGED dir
      BY DEF Block, Reading
    <3>. QED BY <2>1, <2>2, <2>3, <3>1, <3>2, ReconcileOutlived, PublishOutlived, BackupOutlived,
         EditOutlived DEF Step
  <2>4. CASE End \/ Outside \/ UNCHANGED vars
    BY <2>2, <2>4 DEF End, Outside, Begin, Crash, Forget, Damage, vars
  <2>. QED BY <2>3, <2>4, NextKinds
<1>2. CopyInv /\ PubInv /\ [Next]_vars => CopyInv'
  BY NextSafe DEF PubInv
<1>3. Spec => []CopyInv
  BY <1>2, InitSafe, PubAlways, PTL DEF Spec
<1>. QED BY <1>1, <1>3, PubAlways, PTL DEF Spec, CopiesOutliveDoubt
=============================================================================
