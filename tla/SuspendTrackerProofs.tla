------------------------- MODULE SuspendTrackerProofs -------------------------
(***************************************************************************)
(* Proofs about SuspendTracker: its types, and that a suspended package is *)
(* recorded unless changes of the record have overlapped, for every number *)
(* of packages and operations and every way they interleave.               *)
(***************************************************************************)
EXTENDS SuspendTracker, TLAPS

Faults == [calls : 0 .. MaxFaults, deaths : 0 .. MaxDeaths]
Labels == Guarded \cup Releasing \cup {"idle", "next", "over"}

\* The package of an actor is a package.
LEMMA PkgType ==
  ASSUME TypeOK, NEW a \in Actors
  PROVE  Pkg(a) \in Packages
BY JobsAssumption DEF TypeOK, Pkg, Actors

\* A failing call is counted.
LEMMA FaultyType ==
  ASSUME TypeOK, MayFail, Faulty
  PROVE  fault' \in Faults
BY JobsAssumption DEF TypeOK, MayFail, Faulty, Faults

\* The steps of an operation keep the types.
LEMMA OperateType ==
  ASSUME TypeOK, NEW j \in Jobs, Begin(j) \/ Operate(j)
  PROVE  TypeOK'
<1> USE DEF TypeOK, Goto, Tear, Unsuspended, Actors, Guarded, Releasing
<1>1. PackageOf[j] \in Packages
  BY JobsAssumption
<1>2. CASE Begin(j)
  BY <1>2 DEF Begin
<1>3. CASE Prepare(j)
  BY <1>3, FaultyType DEF Prepare, Faults
<1>4. CASE Suspend(j)
  BY <1>4, <1>1, FaultyType DEF Suspend, Faults
<1>5. CASE Mark(j)
  BY <1>5 DEF Mark
<1>6. CASE Record(j)
  BY <1>6, <1>1 DEF Record
<1>7. CASE EndPackageOp(j)
  BY <1>7 DEF EndPackageOp
<1> QED
  BY <1>2, <1>3, <1>4, <1>5, <1>6, <1>7 DEF Operate

\* The steps of a release keep the types.
LEMMA ReleaseType ==
  ASSUME TypeOK, NEW a \in Actors, Release(a)
  PROVE  TypeOK'
<1>1. Pkg(a) \in Packages
  BY PkgType
<1> USE DEF TypeOK, Goto, Over, Tear, Unsuspended, Actors, Guarded, Releasing
<1>2. CASE Tracked(a)
  BY <1>2 DEF Tracked
<1>3. CASE CheckRelease(a)
  BY <1>3, <1>1, FaultyType DEF CheckRelease, Faults
<1>4. CASE Unsuspend(a)
  BY <1>4, <1>1, FaultyType DEF Unsuspend, Faults
<1>5. CASE Drop(a)
  BY <1>5 DEF Drop
<1>6. CASE Erase(a)
  BY <1>6 DEF Erase
<1> QED
  BY <1>2, <1>3, <1>4, <1>5, <1>6 DEF Release

\* Every step keeps the types.
LEMMA NextType ==
  ASSUME TypeOK, [Next]_vars
  PROVE  TypeOK'
<1> USE DEF TypeOK, Goto, Tear, Unsuspended, Actors, Guarded, Releasing
<1>1. CASE \E j \in Jobs : Begin(j) \/ Operate(j)
  BY <1>1, OperateType
<1>2. CASE \E a \in Actors : Release(a)
  BY <1>2, ReleaseType
<1>3. CASE StartRecovery
  BY <1>3 DEF StartRecovery
<1>4. CASE NextEntry
  BY <1>4 DEF NextEntry
<1>5. CASE \E p \in Packages : Uninstall(p) \/ Install(p)
  BY <1>5 DEF Uninstall, Install
<1>6. CASE Die
  <2>1. fault' \in Faults
    BY <1>6, JobsAssumption DEF Die, Faults
  <2>2. excused' \subseteq Packages
    BY <1>6 DEF Die
  <2>3. at' \in [Actors -> Labels] /\ copy' \in [Actors -> SUBSET Packages]
    BY <1>6 DEF Die, Labels
  <2> QED
    BY <1>6, <2>1, <2>2, <2>3 DEF Die, Faults, Labels
<1>7. CASE Start
  BY <1>7 DEF Start
<1>8. CASE UNCHANGED vars
  BY <1>8 DEF vars
<1> QED
  BY <1>1, <1>2, <1>3, <1>4, <1>5, <1>6, <1>7, <1>8 DEF Next

\* Every variable keeps its type, whatever the packages, the operations and the
\* bounds are.
THEOREM TypeCorrect == Spec => []TypeOK
<1>1. Init => TypeOK
  BY JobsAssumption DEF Init, TypeOK, Actors
<1> QED
  BY <1>1, NextType, PTL DEF Spec

-----------------------------------------------------------------------------
(* The record.                                                             *)

Witness(p) == \E j \in Jobs : PackageOf[j] = p /\ at[j] \in {"mark", "record"}

\* What was added to the record since an actor read it is torn, excused, about to
\* be recorded once more, or not suspended.
CopyIsBehind ==
  \A a \in Changing : \A p \in (marks \cap suspended) \ copy[a] :
    p \in torn \cup excused \/ Witness(p)

\* Only a package that is released, torn or excused is struck off.
DroppedIsReleased ==
  \A a \in Actors : at[a] \in {"drop", "erase"} => Pkg(a) \notin suspended \ (excused \cup torn)

IInv ==
  /\ TypeOK /\ CopyIsBehind /\ DroppedIsReleased /\ suspended \subseteq installed
  /\ LossIsTorn

\* A step that changes neither the record nor who is suspended, opens no window and
\* leaves everybody who records where he is keeps the invariant.
LEMMA Neutral ==
  ASSUME IInv, TypeOK', UNCHANGED <<installed, suspended, marks, copy, torn>>,
         excused \subseteq excused',
         \A a \in Actors : at'[a] \in {"record", "erase", "drop"} =>
                             at'[a] = at[a] /\ Pkg(a)' = Pkg(a),
         \A j \in Jobs : at[j] \in {"mark", "record"} => at'[j] = at[j]
  PROVE  IInv'
<1>1. \A p : Witness(p) => Witness(p)'
  BY DEF Witness
<1>2. CopyIsBehind'
  BY <1>1 DEF IInv, CopyIsBehind, Changing
<1>3. DroppedIsReleased'
  BY DEF IInv, DroppedIsReleased
<1>4. LossIsTorn'
  BY <1>1 DEF IInv, LossIsTorn, Recorded, Witness
<1>. QED BY <1>2, <1>3, <1>4 DEF IInv

\* suspendPackage.
LEMMA SuspendInv ==
  ASSUME IInv, NEW j \in Jobs, Suspend(j)
  PROVE  IInv'
<1>1. TypeOK'
  BY OperateType DEF IInv, Operate
<1>2. j \in Actors /\ j # Recovery /\ PackageOf[j] \in Packages
  BY JobsAssumption DEF Actors
<1>3. /\ at[j] = "suspend" /\ at'[j] \in {"mark", "work"}
      /\ \A a \in Actors : a # j => at'[a] = at[a]
      /\ UNCHANGED <<installed, marks, copy, current>>
  BY <1>2 DEF IInv, TypeOK, Suspend, Goto
<1>4. \A a \in Actors : Pkg(a)' = Pkg(a)
  BY <1>3 DEF Pkg
<1>5. CASE UNCHANGED <<suspended, excused, torn>>
  <2>1. \A k \in Jobs : at[k] \in {"mark", "record"} => at'[k] = at[k]
    BY <1>3 DEF Actors
  <2>2. \A a \in Actors : at'[a] \in {"record", "erase", "drop"} => at'[a] = at[a]
    BY <1>3
  <2>. QED BY <1>1, <1>3, <1>4, <1>5, <2>1, <2>2, Neutral
<1>6. CASE /\ suspended' = suspended \cup {PackageOf[j]} /\ PackageOf[j] \in installed
           /\ torn \subseteq torn' /\ excused \subseteq excused'
           /\ \/ PackageOf[j] \in excused'
              \/ at'[j] = "mark" /\ (Striking(PackageOf[j]) => PackageOf[j] \in torn')
  <2>1. \A p : Witness(p) => Witness(p)'
    BY <1>2, <1>3 DEF Witness, Actors
  <2>2. PackageOf[j] \in excused' \/ Witness(PackageOf[j])'
    BY <1>6 DEF Witness
  <2>3. Changing' = Changing
    BY <1>3 DEF Changing
  <2>4. CopyIsBehind'
    BY <1>3, <1>6, <2>1, <2>2, <2>3 DEF IInv, CopyIsBehind
  <2>5. DroppedIsReleased'
    BY <1>3, <1>4, <1>6 DEF IInv, DroppedIsReleased, Striking
  <2>6. LossIsTorn'
    BY <1>3, <1>6, <2>1, <2>2 DEF IInv, LossIsTorn, Recorded, Witness
  <2>. QED BY <1>1, <1>3, <1>6, <2>4, <2>5, <2>6 DEF IInv
<1>7. \/ UNCHANGED <<suspended, excused, torn>>
      \/ /\ suspended' = suspended \cup {PackageOf[j]} /\ PackageOf[j] \in installed
         /\ torn \subseteq torn' /\ excused \subseteq excused'
         /\ \/ PackageOf[j] \in excused'
            \/ at'[j] = "mark" /\ (Striking(PackageOf[j]) => PackageOf[j] \in torn')
  BY <1>2 DEF IInv, TypeOK, Suspend, Goto, Tear
<1>. QED BY <1>5, <1>6, <1>7

\* markSuspended reads the record.
LEMMA MarkInv ==
  ASSUME IInv, NEW j \in Jobs, Mark(j)
  PROVE  IInv'
<1>1. TypeOK'
  BY OperateType DEF IInv, Operate
<1>2. j \in Actors
  BY DEF Actors
<1>3. /\ at[j] = "mark" /\ at'[j] = "record" /\ copy'[j] = marks
      /\ \A a \in Actors : a # j => at'[a] = at[a] /\ copy'[a] = copy[a]
      /\ UNCHANGED <<installed, suspended, marks, excused, torn, current>>
  BY <1>2 DEF IInv, TypeOK, Mark, Goto
<1>4. \A p : Witness(p) => Witness(p)'
  BY <1>3 DEF Witness, Actors
<1>5. CopyIsBehind'
  BY <1>3, <1>4 DEF IInv, CopyIsBehind, Changing
<1>6. DroppedIsReleased'
  BY <1>3 DEF IInv, DroppedIsReleased, Pkg
<1>7. LossIsTorn'
  BY <1>3, <1>4 DEF IInv, LossIsTorn, Recorded, Witness
<1>. QED BY <1>1, <1>3, <1>5, <1>6, <1>7 DEF IInv

\* markSuspended writes it back.
LEMMA RecordInv ==
  ASSUME IInv, NEW j \in Jobs, Record(j)
  PROVE  IInv'
<1>1. TypeOK'
  BY OperateType DEF IInv, Operate
<1>2. j \in Actors
  BY DEF Actors
<1>3. /\ at[j] = "record" /\ at'[j] = "work"
      /\ \A a \in Actors : a # j => at'[a] = at[a] /\ copy'[a] = copy[a]
      /\ marks' = copy[j] \cup {PackageOf[j]} /\ excused' = excused \ {PackageOf[j]}
      /\ UNCHANGED <<installed, suspended, current>>
  BY <1>2 DEF IInv, TypeOK, Record, Goto
<1>4. /\ torn \subseteq torn'
      /\ Striking(PackageOf[j]) \/ Changing # {j} => PackageOf[j] \in torn'
  BY DEF Record, Tear
<1>5. \A p : Witness(p) /\ p # PackageOf[j] => Witness(p)'
  BY <1>3 DEF Witness, Actors
<1>6. j \in Changing
  BY <1>2, <1>3 DEF Changing
<1>7. ASSUME NEW p \in suspended, p # PackageOf[j]
      PROVE  p \in marks' \/ p \in torn' \cup excused' \/ Witness(p)'
  <2>1. p \in marks \/ p \in torn \cup excused \/ Witness(p)
    BY DEF IInv, LossIsTorn, Recorded, Witness
  <2>2. CASE p \in marks /\ p \notin copy[j]
    <3>1. p \in torn \cup excused \/ Witness(p)
      BY <1>6, <2>2 DEF IInv, CopyIsBehind
    <3>. QED BY <1>3, <1>4, <1>5, <1>7, <3>1
  <2>. QED BY <1>3, <1>4, <1>5, <1>7, <2>1, <2>2
<1>8. LossIsTorn'
  BY <1>3, <1>7 DEF LossIsTorn, Recorded, Witness
<1>9. CopyIsBehind'
  <2> SUFFICES ASSUME NEW a \in Changing', NEW p \in (marks' \cap suspended') \ copy'[a]
               PROVE  p \in torn' \cup excused' \/ Witness(p)'
    BY DEF CopyIsBehind
  <2>1. a \in Actors /\ a # j /\ a \in Changing /\ copy'[a] = copy[a]
    BY <1>3 DEF Changing
  <2>2. CASE p = PackageOf[j]
    BY <2>1, <2>2, <1>4
  <2>3. CASE p # PackageOf[j]
    <3>1. p \in marks \/ p \in torn \cup excused \/ Witness(p)
      BY <1>3 DEF IInv, LossIsTorn, Recorded, Witness
    <3>2. p \in torn \cup excused \/ Witness(p)
      BY <1>3, <2>1, <3>1 DEF IInv, CopyIsBehind
    <3>. QED BY <1>3, <1>4, <1>5, <2>3, <3>2
  <2>. QED BY <2>2, <2>3
<1>10. DroppedIsReleased'
  <2>1. \A a \in Actors : Pkg(a)' = Pkg(a)
    BY <1>3 DEF Pkg
  <2> SUFFICES ASSUME NEW a \in Actors, at'[a] \in {"drop", "erase"}
               PROVE  Pkg(a) \notin suspended \ (excused' \cup torn')
    BY <1>3, <2>1 DEF DroppedIsReleased
  <2>2. at[a] \in {"drop", "erase"}
    BY <1>3
  <2>3. Pkg(a) \notin suspended \ (excused \cup torn)
    BY <2>2 DEF IInv, DroppedIsReleased
  <2>4. Pkg(a) = PackageOf[j] => PackageOf[j] \in torn'
    BY <1>4, <2>2 DEF Striking
  <2>. QED BY <1>3, <1>4, <2>3, <2>4
<1>. QED BY <1>1, <1>3, <1>8, <1>9, <1>10 DEF IInv

\* The steps of an operation keep the invariant.
LEMMA OperateInv ==
  ASSUME IInv, NEW j \in Jobs, Begin(j) \/ Operate(j)
  PROVE  IInv'
<1>1. TypeOK'
  BY OperateType DEF IInv
<1>2. j \in Actors /\ j # Recovery
  BY JobsAssumption DEF Actors
<1>3. CASE Begin(j) \/ Prepare(j) \/ EndPackageOp(j)
  <2>1. /\ at[j] \notin {"mark", "record"} /\ at'[j] \notin {"record", "erase", "drop"}
        /\ \A a \in Actors : a # j => at'[a] = at[a]
        /\ UNCHANGED <<installed, suspended, marks, copy, torn, excused, current>>
    BY <1>2, <1>3 DEF IInv, TypeOK, Begin, Prepare, EndPackageOp, Goto
  <2>2. \A k \in Jobs : at[k] \in {"mark", "record"} => at'[k] = at[k]
    BY <2>1 DEF Actors
  <2>3. \A a \in Actors : at'[a] \in {"record", "erase", "drop"} =>
                            at'[a] = at[a] /\ Pkg(a)' = Pkg(a)
    BY <2>1 DEF Pkg
  <2>. QED BY <1>1, <2>1, <2>2, <2>3, Neutral
<1>. QED BY <1>3, SuspendInv, MarkInv, RecordInv DEF Operate

\* What a release does to the labels and the copies of the others.
LEMMA ReleaseFrame ==
  ASSUME IInv, NEW a \in Actors, Release(a)
  PROVE  /\ TypeOK' /\ at[a] \in Releasing
         /\ \A b \in Actors : b # a => at'[b] = at[b] /\ copy'[b] = copy[b]
         /\ \A b \in Actors : Pkg(b)' = Pkg(b)
         /\ \A p : Witness(p) => Witness(p)'
<1>1. TypeOK'
  BY ReleaseType DEF IInv
<1> USE DEF Release, Tracked, CheckRelease, Unsuspend, Drop, Erase
<1>2. at[a] \in Releasing
  BY DEF Releasing
<1>3. \A b \in Actors : b # a => at'[b] = at[b] /\ copy'[b] = copy[b]
  BY DEF IInv, TypeOK, Goto, Over
<1>4. \A b \in Actors : Pkg(b)' = Pkg(b)
  BY DEF Pkg
<1>5. \A p : Witness(p) => Witness(p)'
  BY <1>2, <1>3 DEF Witness, Actors, Releasing
<1>. QED BY <1>1, <1>2, <1>3, <1>4, <1>5

\* The steps of a release keep the invariant.
LEMMA ReleaseInv ==
  ASSUME IInv, NEW a \in Actors, Release(a)
  PROVE  IInv'
<1>1. /\ TypeOK' /\ at[a] \in Releasing
      /\ \A b \in Actors : b # a => at'[b] = at[b] /\ copy'[b] = copy[b]
      /\ \A b \in Actors : Pkg(b)' = Pkg(b)
      /\ \A p : Witness(p) => Witness(p)'
  BY ReleaseFrame
<1>2. CASE Tracked(a)
  <2>1. at'[a] \in {"check", "next", "idle"}
    BY <1>2 DEF IInv, TypeOK, Tracked, Goto, Over
  <2>2. UNCHANGED <<installed, suspended, marks, copy, torn, excused>>
    BY <1>2 DEF Tracked
  <2>3. \A j \in Jobs : at[j] \in {"mark", "record"} => at'[j] = at[j]
    BY <1>1 DEF Actors, Releasing
  <2>. QED BY <1>1, <2>1, <2>2, <2>3, Neutral
<1>3. CASE CheckRelease(a)
  <2>1. /\ at'[a] \in {"unsuspend", "drop"} /\ excused \subseteq excused'
        /\ UNCHANGED <<installed, suspended, marks, copy, torn>>
        /\ at'[a] = "drop" => Pkg(a) \notin suspended \ excused'
    BY <1>3 DEF IInv, TypeOK, CheckRelease, Goto
  <2>2. CopyIsBehind'
    BY <1>1, <2>1 DEF IInv, CopyIsBehind, Changing
  <2>3. DroppedIsReleased'
    BY <1>1, <2>1 DEF IInv, DroppedIsReleased
  <2>4. LossIsTorn'
    BY <1>1, <2>1 DEF IInv, LossIsTorn, Recorded, Witness
  <2>. QED BY <1>1, <2>1, <2>2, <2>3, <2>4 DEF IInv
<1>4. CASE Unsuspend(a)
  <2>1. /\ at'[a] \in {"drop", "next", "idle"}
        /\ UNCHANGED <<installed, marks, copy>>
        /\ \/ UNCHANGED <<suspended, excused, torn>> /\ at'[a] # "drop"
           \/ Unsuspended(Pkg(a))
    BY <1>4 DEF IInv, TypeOK, Unsuspend, Goto, Over
  <2>2. CopyIsBehind'
    BY <1>1, <2>1 DEF IInv, CopyIsBehind, Changing, Unsuspended
  <2>3. DroppedIsReleased'
    BY <1>1, <2>1 DEF IInv, DroppedIsReleased, Unsuspended
  <2>4. LossIsTorn'
    BY <1>1, <2>1 DEF IInv, LossIsTorn, Recorded, Witness, Unsuspended
  <2>5. (suspended \subseteq installed)'
    BY <2>1 DEF IInv, Unsuspended
  <2>. QED BY <1>1, <2>2, <2>3, <2>4, <2>5 DEF IInv
<1>5. CASE Drop(a)
  <2>1. /\ at[a] = "drop" /\ UNCHANGED <<installed, suspended, marks, torn, excused>>
        /\ (at'[a] = "erase" /\ copy'[a] = marks) \/ at'[a] \in {"next", "idle"}
    BY <1>5 DEF IInv, TypeOK, Drop, Goto, Over
  <2>2. CopyIsBehind'
    BY <1>1, <2>1 DEF IInv, CopyIsBehind, Changing
  <2>3. DroppedIsReleased'
    BY <1>1, <2>1 DEF IInv, DroppedIsReleased
  <2>4. LossIsTorn'
    BY <1>1, <2>1 DEF IInv, LossIsTorn, Recorded, Witness
  <2>. QED BY <1>1, <2>1, <2>2, <2>3, <2>4 DEF IInv
<1>6. CASE Erase(a)
  <2>1. /\ at[a] = "erase" /\ at'[a] \in {"next", "idle"} /\ a \in Changing
        /\ marks' = copy[a] \ {Pkg(a)}
        /\ UNCHANGED <<installed, suspended, torn, excused>>
    BY <1>6 DEF IInv, TypeOK, Erase, Goto, Over, Changing
  <2>2. Pkg(a) \notin suspended \ (excused \cup torn)
    BY <2>1 DEF IInv, DroppedIsReleased
  <2>3. LossIsTorn'
    <3> SUFFICES ASSUME NEW p \in suspended, p \notin torn, p \notin excused, ~Witness(p)'
                 PROVE  p \in marks'
      BY <2>1 DEF LossIsTorn, Recorded, Witness
    <3>1. ~Witness(p)
      BY <1>1
    <3>2. p \in marks
      BY <3>1 DEF IInv, LossIsTorn, Recorded, Witness
    <3>3. p \in copy[a]
      BY <2>1, <3>1, <3>2 DEF IInv, CopyIsBehind
    <3>. QED BY <2>1, <2>2, <3>3
  <2>4. CopyIsBehind'
    <3> SUFFICES ASSUME NEW b \in Changing', NEW p \in (marks' \cap suspended') \ copy'[b],
                        ~Witness(p)'
                 PROVE  p \in torn \cup excused
      BY <2>1 DEF CopyIsBehind
    <3>1. b \in Changing /\ b # a /\ copy'[b] = copy[b]
      BY <1>1, <2>1 DEF Changing
    <3>2. ~Witness(p)
      BY <1>1
    <3>3. p \in marks \/ p \in torn \cup excused
      BY <2>1, <3>2 DEF IInv, LossIsTorn, Recorded, Witness
    <3>. QED BY <2>1, <3>1, <3>2, <3>3 DEF IInv, CopyIsBehind
  <2>5. DroppedIsReleased'
    BY <1>1, <2>1 DEF IInv, DroppedIsReleased
  <2>. QED BY <1>1, <2>1, <2>3, <2>4, <2>5 DEF IInv
<1>. QED BY <1>2, <1>3, <1>4, <1>5, <1>6 DEF Release

\* Every step keeps the invariant.
LEMMA NextInv ==
  ASSUME IInv, [Next]_vars
  PROVE  IInv'
<1>1. TypeOK'
  BY NextType DEF IInv
<1>2. CASE \E j \in Jobs : Begin(j) \/ Operate(j)
  BY <1>2, OperateInv
<1>3. CASE \E a \in Actors : Release(a)
  BY <1>3, ReleaseInv
<1>4. CASE StartRecovery \/ NextEntry
  <2>1. /\ at[Recovery] \in {"idle", "next"} /\ at'[Recovery] \in {"next", "tracked", "over"}
        /\ \A a \in Actors : a # Recovery => at'[a] = at[a] /\ Pkg(a)' = Pkg(a)
        /\ UNCHANGED <<installed, suspended, marks, copy, torn, excused>>
    BY <1>4 DEF IInv, TypeOK, StartRecovery, NextEntry, Goto, Actors, Pkg
  <2>2. \A j \in Jobs : at'[j] = at[j]
    BY <2>1, JobsAssumption DEF Actors
  <2>. QED BY <1>1, <2>1, <2>2, Neutral
<1>5. CASE \E p \in Packages : Uninstall(p)
  <2>1. PICK p \in Packages : Uninstall(p)
    BY <1>5
  <2>2. /\ UNCHANGED <<at, copy, marks, current>> /\ Unsuspended(p)
        /\ installed' = installed \ {p}
    BY <2>1 DEF Uninstall
  <2>3. \A q : Witness(q)' = Witness(q)
    BY <2>2 DEF Witness
  <2>4. CopyIsBehind'
    BY <2>2, <2>3 DEF IInv, CopyIsBehind, Changing, Unsuspended
  <2>5. DroppedIsReleased'
    BY <2>2 DEF IInv, DroppedIsReleased, Pkg, Unsuspended
  <2>6. LossIsTorn'
    BY <2>2, <2>3 DEF IInv, LossIsTorn, Recorded, Witness, Unsuspended
  <2>. QED BY <1>1, <2>2, <2>4, <2>5, <2>6 DEF IInv, Unsuspended
<1>6. CASE \E p \in Packages : Install(p)
  <2>1. /\ UNCHANGED <<suspended, marks, at, copy, current, excused, torn>>
        /\ installed \subseteq installed'
    BY <1>6 DEF Install
  <2>. QED BY <1>1, <2>1 DEF IInv, CopyIsBehind, Changing, DroppedIsReleased, Pkg, LossIsTorn,
                             Recorded, Witness
<1>7. CASE Die
  <2>1. \A a \in Actors : at'[a] = "idle"
    BY <1>7 DEF Die
  <2>2. CopyIsBehind' /\ DroppedIsReleased'
    BY <2>1 DEF CopyIsBehind, Changing, DroppedIsReleased
  <2>3. LossIsTorn'
    BY <1>7 DEF IInv, LossIsTorn, Recorded, Die
  <2>. QED BY <1>1, <1>7, <2>2, <2>3 DEF IInv, Die
<1>8. CASE Start \/ UNCHANGED vars
  <2>1. UNCHANGED <<installed, suspended, marks, at, copy, current, excused, torn>>
    BY <1>8 DEF Start, vars
  <2>. QED BY <1>1, <2>1, Neutral DEF Pkg
<1>. QED BY <1>2, <1>3, <1>4, <1>5, <1>6, <1>7, <1>8 DEF Next

\* A suspended package is recorded or about to be, unless it was suspended or
\* recorded in the middle of another change of the record: whatever the packages and
\* the operations, however they overlap, whatever calls fail and whenever the app dies.
THEOREM LossOnlyTorn == Spec => []LossIsTorn
<1>1. Init => IInv
  BY JobsAssumption DEF Init, IInv, TypeOK, CopyIsBehind, DroppedIsReleased, LossIsTorn,
                        Actors, Changing
<1>2. IInv /\ [Next]_vars => IInv'
  BY NextInv
<1>3. IInv => LossIsTorn
  BY DEF IInv
<1>. QED BY <1>1, <1>2, <1>3, PTL DEF Spec
==============================================================================
