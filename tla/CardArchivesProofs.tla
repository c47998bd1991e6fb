-------------------------- MODULE CardArchivesProofs --------------------------
(***************************************************************************)
(* Proofs about CardArchives: its types; that an instance keeps its APKs,  *)
(* and that an archive loses its own only to a cleanup that looked at a    *)
(* list without it; that a failed backup leaves nothing; and what the      *)
(* retention leaves.                                                       *)
(***************************************************************************)
EXTENDS CardArchives, FiniteSetTheorems, TLAPS

\* An entry of an archive is an entry.
LEMMA EntryType ==
  ASSUME TypeOK, NEW n \in Names
  PROVE  /\ Entry(n) \in Entries
         /\ Entry(n).name = n /\ Entry(n).version = archives[n].version
BY DEF TypeOK, Entry, Entries, Archives

\* So is what a reload lists.
LEMMA ListType ==
  ASSUME TypeOK
  PROVE  Listable \subseteq Entries /\ Doubtful \subseteq Entries
BY EntryType DEF Listable, Doubtful

\* The entry of no archive is not one.
LEMMA NoEntryType == NoEntry \notin Entries
BY DEF NoEntry, Entries, Names

\* A failing call is counted.
LEMMA FaultType ==
  ASSUME TypeOK, MayFail, Faulty \/ Messy
  PROVE  fault' \in Faults
<1>1. fault.count + 1 \in 0 .. MaxFaults /\ fault \in Faults
  BY BoundsAssumption DEF TypeOK, MayFail, Faults
<1>2. CASE Faulty
  BY <1>1, <1>2 DEF Faulty, Faults
<1>3. CASE Messy
  <2>1. fault' = [count |-> fault.count + 1, messy |-> TRUE, deaths |-> fault.deaths]
    BY <1>1, <1>3 DEF Messy, Faults
  <2> QED
    BY <1>1, <2>1 DEF Faults
<1> QED
  BY <1>2, <1>3

LEMMA NoFaultType ==
  ASSUME TypeOK, UNCHANGED fault
  PROVE  fault' \in Faults
BY DEF TypeOK, Faults

\* A step of a job leaves a job.
LEMMA GotoType ==
  ASSUME TypeOK, NEW pc \in Labels, Goto(pc)
  PROVE  job' \in JobRecords
BY DEF TypeOK, Goto, JobRecords

\* A new job is one.
LEMMA NewJobType ==
  ASSUME NEW kind \in Kinds, NEW pc \in Labels, NEW name \in 0 .. MaxArchives,
         NEW todo \in SUBSET (Entries \cup {NoEntry})
  PROVE  [kind |-> kind, pc |-> pc, name |-> name, version |-> 0, todo |-> todo,
          victim |-> NoEntry] \in JobRecords
BY DEF JobRecords

LEMMA NoJobType == NoJob \in JobRecords
<1>1. 0 \in 0 .. MaxArchives /\ "none" \in Kinds /\ "none" \in Labels
  BY BoundsAssumption DEF Kinds, Labels
<1> QED
  BY <1>1, NewJobType DEF NoJob

\* The steps of a backup keep the types.
LEMMA BackupType ==
  ASSUME TypeOK, Backup
  PROVE  TypeOK'
<1> USE DEF disk
<1>1. CASE BeginBackup
  <2>1. clock' \in 0 .. MaxArchives /\ clock + 1 \in 0 .. MaxArchives
    BY <1>1, BoundsAssumption DEF BeginBackup, TypeOK
  <2>2. job' \in JobRecords
    <3>1. job' = [kind |-> "snapshot", pc |-> "make", name |-> clock + 1, version |-> 0,
                  todo |-> {}, victim |-> NoEntry]
      BY <1>1 DEF BeginBackup, NoJob
    <3> QED
      BY <3>1, <2>1, NewJobType DEF Kinds, Labels
  <2> QED
    BY <1>1, <2>1, <2>2 DEF BeginBackup, TypeOK
<1>2. CASE BeginInstance
  <2>1. job' \in JobRecords
    <3>1. job' = [kind |-> "instance", pc |-> "make", name |-> 0, version |-> 0,
                  todo |-> {}, victim |-> NoEntry]
      BY <1>2 DEF BeginInstance, NoJob
    <3> QED
      <4>1. 0 \in 0 .. MaxArchives /\ "instance" \in Kinds /\ "make" \in Labels
        BY BoundsAssumption DEF Kinds, Labels
      <4> QED
        BY <3>1, <4>1, NewJobType
  <2>2. slot' \in Slots
    BY <1>2 DEF BeginInstance, Reconciled, NoSlot, TypeOK, Slots
  <2> QED
    BY <1>2, <2>1, <2>2 DEF BeginInstance, TypeOK
<1>3. CASE Make
  <2>1. job' \in JobRecords
    <3>1. CASE Goto("finish")
      BY <3>1, GotoType DEF Labels
    <3>2. CASE \E pc \in {"data", "apk"} :
                 job' = [job EXCEPT !.version = installed, !.pc = pc]
      <4>1. {"data", "apk"} \subseteq Labels
        BY DEF Labels
      <4> QED
        BY <3>2, <4>1 DEF TypeOK, JobRecords
    <3> QED
      BY <1>3, <3>1, <3>2 DEF Make
  <2>2. apks' \in Apks
    BY <1>3 DEF Make, TypeOK, Apks
  <2>3. fault' \in Faults
    BY <1>3, FaultType, NoFaultType DEF Make
  <2>4. staged' \in Stages
    BY <1>3 DEF Make, TypeOK, Stages
  <2> QED
    BY <1>3, <2>1, <2>2, <2>3, <2>4
    DEF Make, TypeOK
<1>4. CASE CompressApk
  <2>1. job' \in JobRecords
    BY <1>4, GotoType DEF CompressApk, Failed, Labels
  <2>2. apks' \in Apks
    BY <1>4 DEF CompressApk, TypeOK, Apks
  <2>3. fault' \in Faults
    BY <1>4, FaultType, NoFaultType DEF CompressApk
  <2> QED
    BY <1>4, <2>1, <2>2, <2>3 DEF CompressApk, TypeOK
<1>5. CASE WriteDescriptor
  <2>1. job' \in JobRecords
    BY <1>5, GotoType DEF WriteDescriptor, Failed, Labels
  <2>2. apks' \in Apks
    BY <1>5 DEF WriteDescriptor, TypeOK, Apks
  <2>3. fault' \in Faults
    BY <1>5, FaultType, NoFaultType DEF WriteDescriptor
  <2> QED
    BY <1>5, <2>1, <2>2, <2>3
    DEF WriteDescriptor, TypeOK
<1>6. CASE CompressData
  <2>1. job' \in JobRecords
    BY <1>6, GotoType DEF CompressData, Failed, Labels
  <2> QED
    BY <1>6, <2>1 DEF CompressData, TypeOK, Stages
<1>7. CASE WriteMetadata
  <2>1. job' \in JobRecords
    BY <1>7, GotoType DEF WriteMetadata, Failed, Labels
  <2>2. fault' \in Faults
    BY <1>7, FaultType, NoFaultType DEF WriteMetadata
  <2>3. staged' \in Stages
    BY <1>7 DEF WriteMetadata, TypeOK, Stages
  <2> QED
    BY <1>7, <2>1, <2>2, <2>3
    DEF WriteMetadata, TypeOK
<1>8. CASE Validate
  <2>1. job' \in JobRecords
    BY <1>8, GotoType DEF Validate, Failed, Labels
  <2>2. fault' \in Faults
    BY <1>8, FaultType, NoFaultType DEF Validate
  <2> QED
    BY <1>8, <2>1, <2>2 DEF Validate, TypeOK
<1>9. CASE Publish
  <2>1. job' \in JobRecords
    BY <1>9, GotoType DEF Publish, Failed, Labels
  <2>2. archives' \in [Names -> Archives]
    <3>1. [state |-> "moved", version |-> staged.apk, asked |-> FALSE] \in Archives
      BY DEF TypeOK, Stages, Archives
    <3>2. \/ archives' = archives
          \/ archives' = [archives EXCEPT ![job.name] =
                             [state |-> "moved", version |-> staged.apk, asked |-> FALSE]]
      BY <1>9 DEF Publish, Gone
    <3> QED
      BY <3>1, <3>2 DEF TypeOK
  <2>3. slot' \in Slots
    BY <1>9 DEF Publish, TypeOK, Slots, Stages
  <2>4. staged' \in Stages
    BY <1>9 DEF Publish, Nothing, TypeOK, Stages
  <2> QED
    BY <1>9, <2>1, <2>2, <2>3, <2>4
    DEF Publish, TypeOK
<1>10. CASE Rename
  <2>1. job' \in JobRecords
    BY <1>10, GotoType DEF Rename, Labels
  <2>2. archives' \in [Names -> Archives]
    <3>1. Gone \in Archives
      BY DEF Gone, Archives
    <3>2. ASSUME NEW n \in Names, NEW s \in {"whole", "rest"}
          PROVE  [archives[n] EXCEPT !.state = s] \in Archives
      BY <3>2 DEF TypeOK, Archives
    <3> QED
      BY <1>10, <3>1, <3>2 DEF Rename, TypeOK
  <2>3. fault' \in Faults
    BY <1>10, FaultType, NoFaultType DEF Rename
  <2> QED
    BY <1>10, <2>1, <2>2, <2>3
    DEF Rename, TypeOK
<1>11. CASE RenameInstance
  <2>1. job' \in JobRecords
    BY <1>11, GotoType DEF RenameInstance, Labels
  <2>2. slot' \in Slots
    BY <1>11 DEF RenameInstance, Reconciled, NoSlot, TypeOK, Slots
  <2>3. fault' \in Faults
    BY <1>11, FaultType, NoFaultType DEF RenameInstance
  <2> QED
    BY <1>11, <2>1, <2>2, <2>3
    DEF RenameInstance, TypeOK
<1>12. CASE CommitInstance
  <2>1. job' \in JobRecords
    BY <1>12, GotoType DEF CommitInstance, Labels
  <2>2. slot' \in Slots
    BY <1>12 DEF CommitInstance, Reconciled, NoSlot, TypeOK, Slots
  <2>3. fault' \in Faults
    BY <1>12, FaultType, NoFaultType DEF CommitInstance
  <2> QED
    BY <1>12, <2>1, <2>2, <2>3
    DEF CommitInstance, TypeOK
<1>13. CASE AfterCommit
  <2>1. job' \in JobRecords
    BY <1>13, GotoType DEF AfterCommit, Labels
  <2> QED
    BY <1>13, <2>1 DEF AfterCommit, TypeOK
<1>14. CASE Abort
  <2>1. job' \in JobRecords
    BY <1>14, GotoType DEF Abort, Labels
  <2>2. fault' \in Faults
    BY <1>14, FaultType, NoFaultType DEF Abort
  <2> QED
    BY <1>14, <2>1, <2>2 DEF Abort, Nothing, TypeOK, Stages
<1> QED
  BY <1>1, <1>2, <1>3, <1>4, <1>5, <1>6, <1>7, <1>8, <1>9, <1>10, <1>11, <1>12, <1>13,
     <1>14 DEF Backup

\* A reload leaves entries in the list.
LEMMA ReloadType ==
  ASSUME TypeOK, Reload
  PROVE  list' \subseteq Entries /\ fault' \in Faults
<1>1. list' \subseteq Entries
  BY ListType DEF Reload
<1>2. fault' \in Faults
  BY FaultType, NoFaultType DEF Reload
<1> QED
  BY <1>1, <1>2

\* The sets analyzeArchivesToDelete works with.
Unlocked == {e \in list : e.name \notin Locked}
Total == minSameVersionCount + extraRetentionCount
Many == {e \in Unlocked : Cardinality(Newer(e, Unlocked)) >= maxVersionCount}
Kept == Unlocked \ Many
TooManySame ==
  IF Total = 0 THEN {}
  ELSE {e \in Kept : Cardinality(Newer(e, Same(e, Kept))) >= Total}
Rest == Kept \ TooManySame
Extra ==
  IF extraRetentionCount = 0 \/ extraRetentionDays = 0 THEN {}
  ELSE {e \in Rest : /\ Cardinality(Newer(e, Same(e, Rest))) >= minSameVersionCount
                     /\ ExpiryWraps \/ e.name # job.name}

\* What the retention deletes is among them.
LEMMA ToDeleteIs ==
  ASSUME NEW todo \in ToDelete
  PROVE  /\ Many \cup TooManySame \subseteq todo
         /\ todo \subseteq Many \cup TooManySame \cup Extra
<1>1. PICK expired \in SUBSET Extra : todo = Many \cup TooManySame \cup expired
  BY DEF ToDelete, Extra, Rest, TooManySame, Kept, Many, Unlocked, Total
<1>. QED BY <1>1

\* The sets are parts of the list.
LEMMA PartsType ==
  /\ Many \subseteq Unlocked /\ Kept \subseteq Unlocked /\ Unlocked \subseteq list
  /\ TooManySame \subseteq Kept /\ Rest \subseteq Kept /\ Extra \subseteq Rest
BY DEF Many, Kept, Unlocked, TooManySame, Rest, Extra

\* What the retention chooses is in the list.
LEMMA ToDeleteType ==
  ASSUME NEW todo \in ToDelete
  PROVE  todo \subseteq list
BY ToDeleteIs, PartsType

\* A deletion that stops half way leaves the record of an archive.
LEMMA StateType ==
  ASSUME TypeOK, NEW n \in Names, NEW s \in Torn(n) \cup {archives[n].state}
  PROVE  [archives EXCEPT ![n].state = s] \in [Names -> Archives]
<1>1. [archives[n] EXCEPT !.state = s] \in Archives
  BY DEF TypeOK, Archives, Torn
<1> QED
  BY <1>1 DEF TypeOK

\* So does a request for its deletion.
LEMMA AskedType ==
  ASSUME TypeOK, NEW n \in Names, NEW b \in BOOLEAN
  PROVE  [archives[n] EXCEPT !.asked = b] \in Archives
<1>1. archives[n] \in Archives
  BY DEF TypeOK
<1>2. [archives[n] EXCEPT !.asked = b]
        = [state |-> archives[n].state, version |-> archives[n].version, asked |-> b]
  BY <1>1 DEF Archives
<1> QED
  BY <1>1, <1>2 DEF Archives

LEMMA GoneType == Gone \in Archives
BY DEF Gone, Archives

\* The steps of a deletion keep the types.
LEMMA DeletionType ==
  ASSUME TypeOK, Deletion
  PROVE  TypeOK'
<1> USE DEF disk
<1>1. CASE ReloadInJob
  <2>1. job' \in JobRecords
    BY <1>1, GotoType DEF ReloadInJob, Labels
  <2> QED
    BY <1>1, <2>1, ReloadType DEF ReloadInJob, TypeOK
<1>2. CASE Retain
  <2>1. job' \in JobRecords
    <3>1. CASE Goto("finish")
      BY <3>1, GotoType DEF Labels
    <3>2. CASE \E todo \in ToDelete : job' = [job EXCEPT !.pc = "delete", !.todo = todo]
      <4>1. PICK todo \in ToDelete : job' = [job EXCEPT !.pc = "delete", !.todo = todo]
        BY <3>2
      <4>2. todo \subseteq Entries /\ "delete" \in Labels
        BY <4>1, ToDeleteType DEF TypeOK, Labels
      <4> QED
        BY <4>1, <4>2 DEF TypeOK, JobRecords
    <3> QED
      BY <1>2, <3>1, <3>2 DEF Retain
  <2> QED
    BY <1>2, <2>1 DEF Retain, TypeOK
<1>3. CASE BeginDelete
  <2>1. PICK e \in list :
          /\ job' = [NoJob EXCEPT !.kind = "delete", !.pc = "delete", !.todo = {e}]
          /\ archives' = [archives EXCEPT ![e.name].asked = TRUE]
    BY <1>3 DEF BeginDelete
  <2>2. e \in Entries /\ e.name \in Names
    BY DEF TypeOK, Entries
  <2>3. job' \in JobRecords
    <3>1. job' = [kind |-> "delete", pc |-> "delete", name |-> 0, version |-> 0,
                  todo |-> {e}, victim |-> NoEntry]
      BY <2>1 DEF NoJob
    <3>2. 0 \in 0 .. MaxArchives /\ "delete" \in Kinds /\ "delete" \in Labels
      BY BoundsAssumption DEF Kinds, Labels
    <3> QED
      BY <2>2, <3>1, <3>2, NewJobType
  <2>4. [archives[e.name] EXCEPT !.asked = TRUE] \in Archives
    BY <2>2, AskedType
  <2>5. archives' \in [Names -> Archives]
    BY <2>1, <2>2, <2>4 DEF TypeOK
  <2> QED
    BY <1>3, <2>3, <2>5 DEF BeginDelete, TypeOK
<1>4. CASE DeleteArchive
  <2>1. PICK e \in job.todo :
          \/ /\ archives' = [archives EXCEPT ![e.name] = Gone]
             /\ job' = [job EXCEPT !.pc = "cleanup", !.todo = @ \ {e}, !.victim = e]
             /\ UNCHANGED fault
          \/ /\ MayFail /\ archives[e.name].state # "none" /\ Messy
             /\ \E s \in Torn(e.name) \cup {archives[e.name].state} :
                  archives' = [archives EXCEPT ![e.name].state = s]
             /\ job' = [job EXCEPT !.todo = @ \ {e}]
    BY <1>4 DEF DeleteArchive
  <2>2. job' \in JobRecords
    <3>1. "cleanup" \in Labels
      BY DEF Labels
    <3>2. job \in JobRecords /\ e \in Entries \cup {NoEntry}
      BY DEF TypeOK, JobRecords
    <3>3. CASE job' = [job EXCEPT !.pc = "cleanup", !.todo = @ \ {e}, !.victim = e]
      BY <3>1, <3>2, <3>3 DEF JobRecords
    <3>4. CASE job' = [job EXCEPT !.todo = @ \ {e}]
      BY <3>2, <3>4 DEF JobRecords
    <3> QED
      BY <2>1, <3>3, <3>4
  <2>3. archives' \in [Names -> Archives]
    <3>1. CASE e.name \in Names
      <4>1. CASE archives' = [archives EXCEPT ![e.name] = Gone]
        BY <3>1, <4>1, GoneType DEF TypeOK
      <4>2. CASE \E s \in Torn(e.name) \cup {archives[e.name].state} :
                   archives' = [archives EXCEPT ![e.name].state = s]
        BY <3>1, <4>2, StateType
      <4>3. CASE archives' = archives
        BY <4>3 DEF TypeOK
      <4> QED
        BY <2>1, <4>1, <4>2, <4>3
    <3>2. CASE e.name \notin Names
      BY <2>1, <3>2 DEF TypeOK
    <3> QED
      BY <3>1, <3>2
  <2>4. fault' \in Faults
    BY <2>1, FaultType, NoFaultType
  <2> QED
    BY <1>4, <2>2, <2>3, <2>4 DEF DeleteArchive, TypeOK
<1>5. CASE CleanupApks
  <2>1. job' \in JobRecords
    <3>1. "delete" \in Labels
      BY DEF Labels
    <3> QED
      BY <1>5, <3>1 DEF CleanupApks, TypeOK, JobRecords
  <2>2. apks' \in Apks
    BY <1>5 DEF CleanupApks, TypeOK, Apks
  <2>3. fault' \in Faults
    BY <1>5, FaultType, NoFaultType DEF CleanupApks
  <2> QED
    BY <1>5, <2>1, <2>2, <2>3 DEF CleanupApks, TypeOK
<1>6. CASE DeletedAll
  <2>1. job' \in JobRecords
    BY <1>6, GotoType DEF DeletedAll, Labels
  <2> QED
    BY <1>6, <2>1 DEF DeletedAll, TypeOK
<1>7. CASE BeginClear
  <2> DEFINE there == {n \in Names : archives[n].state # "none"}
             todo == {Entry(n) : n \in there} \cup (IF slot = NoSlot THEN {NoEntry} ELSE {})
  <2>1. todo \subseteq Entries \cup {NoEntry}
    BY EntryType
  <2>2. job' = [kind |-> "clear", pc |-> "clear", name |-> 0, version |-> 0, todo |-> todo,
                victim |-> NoEntry]
    BY <1>7 DEF BeginClear, NoJob
  <2>3. job' \in JobRecords
    <3>1. 0 \in 0 .. MaxArchives /\ "clear" \in Kinds /\ "clear" \in Labels
      BY BoundsAssumption DEF Kinds, Labels
    <3> HIDE DEF todo
    <3> QED
      BY <2>1, <2>2, <3>1, NewJobType
  <2>4. archives' \in [Names -> Archives]
    <3>1. ASSUME NEW n \in Names
          PROVE  [archives[n] EXCEPT !.asked = n \in there] \in Archives
      <4>1. (n \in there) \in BOOLEAN
        OBVIOUS
      <4> HIDE DEF there
      <4> QED
        BY <4>1, AskedType
    <3>2. archives' = [n \in Names |-> [archives[n] EXCEPT !.asked = n \in there]]
      BY <1>7 DEF BeginClear
    <3> QED
      BY <3>1, <3>2
  <2> QED
    BY <1>7, <2>3, <2>4 DEF BeginClear, TypeOK
<1>8. CASE ClearEntry
  <2>1. PICK e \in job.todo :
          /\ job' = [job EXCEPT !.todo = @ \ {e}]
          /\ \/ /\ e # NoEntry /\ UNCHANGED apks
                /\ \/ archives' = [archives EXCEPT ![e.name] = Gone] /\ UNCHANGED fault
                   \/ /\ MayFail /\ Messy
                      /\ \E s \in Torn(e.name) :
                           archives' = [archives EXCEPT ![e.name].state = s]
             \/ /\ e = NoEntry /\ UNCHANGED archives
                /\ \/ apks' = [v \in Versions |-> "none"] /\ UNCHANGED fault
                   \/ /\ MayFail /\ Messy
                      /\ \E v \in Versions : apks' = [apks EXCEPT ![v] = "none"]
    BY <1>8 DEF ClearEntry
  <2>2. job' \in JobRecords
    BY <2>1 DEF TypeOK, JobRecords
  <2>3. archives' \in [Names -> Archives]
    <3>1. CASE e.name \in Names
      <4>1. CASE archives' = [archives EXCEPT ![e.name] = Gone]
        BY <3>1, <4>1, GoneType DEF TypeOK
      <4>2. CASE \E s \in Torn(e.name) \cup {archives[e.name].state} :
                   archives' = [archives EXCEPT ![e.name].state = s]
        BY <3>1, <4>2, StateType
      <4>3. CASE archives' = archives
        BY <4>3 DEF TypeOK
      <4> QED
        BY <2>1, <4>1, <4>2, <4>3
    <3>2. CASE e.name \notin Names
      BY <2>1, <3>2 DEF TypeOK
    <3> QED
      BY <3>1, <3>2
  <2>4. apks' \in Apks
    BY <2>1 DEF TypeOK, Apks
  <2>5. fault' \in Faults
    BY <2>1, FaultType, NoFaultType
  <2> QED
    BY <1>8, <2>2, <2>3, <2>4, <2>5 DEF ClearEntry, TypeOK
<1>9. CASE ClearedAll
  <2>1. job' \in JobRecords
    BY <1>9, GotoType DEF ClearedAll, Labels
  <2> QED
    BY <1>9, <2>1 DEF ClearedAll, TypeOK
<1>10. CASE DeleteInstance
  BY <1>10 DEF DeleteInstance, NoSlot, TypeOK, Slots
<1> QED
  BY <1>1, <1>2, <1>3, <1>4, <1>5, <1>6, <1>7, <1>8, <1>9, <1>10 DEF Deletion

\* The other steps keep the types.
LEMMA RestType ==
  ASSUME TypeOK, Finish \/ Viewing \/ ChangePackage \/ Die
  PROVE  TypeOK'
<1> USE DEF disk
<1>1. CASE Finish
  <2>1. fault' \in Faults
    BY <1>1, FaultType, NoFaultType DEF Finish
  <2> QED
    BY <1>1, <2>1, NoJobType DEF Finish, Nothing, TypeOK, Stages
<1>2. CASE OpenMenu
  BY <1>2 DEF OpenMenu, TypeOK
<1>3. CASE ListNames
  BY <1>3 DEF ListNames, TypeOK
<1>4. CASE ClearList
  BY <1>4 DEF ClearList, TypeOK
<1>5. CASE ReadArchive
  <2>1. list' \subseteq Entries /\ fault' \in Faults
    BY <1>5, EntryType, FaultType, NoFaultType DEF ReadArchive, TypeOK
  <2> QED
    BY <1>5, <2>1 DEF ReadArchive, TypeOK
<1>6. CASE ChangePackage
  BY <1>6 DEF ChangePackage, TypeOK
<1>7. CASE Die
  <2>1. fault' \in Faults
    BY <1>7, BoundsAssumption DEF Die, TypeOK, Faults
  <2> QED
    BY <1>7, <2>1, NoJobType DEF Die, Nothing, TypeOK, Stages
<1> QED
  BY <1>1, <1>2, <1>3, <1>4, <1>5, <1>6, <1>7 DEF Viewing

\* Every step keeps the types.
LEMMA NextType ==
  ASSUME TypeOK, [Next]_vars
  PROVE  TypeOK'
<1>1. CASE UNCHANGED vars
  BY <1>1 DEF vars, TypeOK
<1> QED
  BY <1>1, BackupType, DeletionType, RestType DEF Next

\* The types hold at first.
LEMMA InitType ==
  ASSUME Init
  PROVE  TypeOK
<1>1. Gone \in Archives /\ NoJob \in JobRecords
  BY GoneType, NoJobType
<1>2. apks \in Apks /\ slot \in Slots /\ staged \in Stages /\ fault \in Faults
  BY BoundsAssumption DEF Init, NoSlot, Nothing, Apks, Slots, Stages, Faults
<1> QED
  BY <1>1, <1>2, BoundsAssumption DEF Init, TypeOK

\* Every variable keeps its type, whatever the versions, the policy and the
\* bounds are.
THEOREM TypeCorrect == Spec => []TypeOK
BY InitType, NextType, PTL DEF Spec

-----------------------------------------------------------------------------
(* The shared APKs.                                                        *)

IsWhole(n) == archives[n].state = "whole"

\* A whole archive nobody asked to delete lacks the APK its manifest names.
Lacks(n) == IsWhole(n) /\ ~archives[n].asked /\ ~HasApk(archives[n].version)

\* An instance has the APKs it names, those of a slot that is being replaced too.
InstanceHasApk ==
  /\ slot.apk # 0 => HasApk(slot.apk)
  /\ slot.next # 0 => HasApk(slot.next)

\* An archive comes to lack its APK in one way only: a cleanup looked at a list
\* without it.
OnlyBlind ==
  \A n \in Names : Lacks(n)' => Lacks(n) \/ (At("cleanup") /\ Entry(n) \notin list)
LossIsBlind == [][OnlyBlind]_vars

\* What a step has to see to.
ApksKept == InstanceHasApk' /\ OnlyBlind

\* What a job relies on where it is.
JobKnows ==
  /\ At("apk") => ~HasApk(job.version)
  /\ At("publish") => HasApk(staged.apk)
  /\ job.kind = "snapshot" => job.name \in Names
  /\ At("rename") /\ job.kind = "snapshot" => HasApk(archives[job.name].version)
  /\ At("delete") \/ At("cleanup") => job.todo \subseteq Entries
  /\ At("cleanup") => job.victim \in Entries /\ ~IsWhole(job.victim.name)
  /\ At("clear") =>
       /\ \A n \in Names : IsWhole(n) => archives[n].asked
       /\ NoEntry \in job.todo => slot = NoSlot

IInv == TypeOK /\ InstanceHasApk /\ JobKnows

\* A step of a job changes nothing but where it is.
LEMMA GotoIs ==
  ASSUME TypeOK, NEW pc, Goto(pc)
  PROVE  /\ job'.pc = pc /\ job'.kind = job.kind /\ job'.name = job.name
         /\ job'.version = job.version /\ job'.todo = job.todo /\ job'.victim = job.victim
BY DEF TypeOK, Goto, JobRecords

\* A step to where a job relies on nothing.
LEMMA JobStays ==
  ASSUME JobKnows, job'.kind = job.kind, job'.name = job.name,
         job'.pc \notin {"apk", "publish", "rename", "delete", "cleanup", "clear"}
  PROVE  JobKnows'
BY DEF JobKnows, At

\* Nothing that is needed goes.
LEMMA ApksStay ==
  ASSUME TypeOK, InstanceHasApk,
         \A v \in Versions : apks[v] = "whole" => apks'[v] = "whole",
         slot' = slot, archives' = archives
  PROVE  ApksKept
<1>1. \A v \in Versions \cup {0} : HasApk(v) => HasApk(v)'
  BY DEF HasApk
<1>2. \A n \in Names : archives[n].version \in Versions \cup {0}
  BY DEF TypeOK, Archives
<1>3. slot.apk \in Versions \cup {0} /\ slot.next \in Versions \cup {0}
  BY DEF TypeOK, Slots
<1> QED
  BY <1>1, <1>2, <1>3 DEF ApksKept, InstanceHasApk, OnlyBlind, Lacks, IsWhole

\* A settled instance needs no APK it did not need before.
LEMMA ReconciledNeeds ==
  ASSUME TypeOK
  PROVE  Reconciled.apk \in {0, slot.apk, slot.next} /\ Reconciled.next = 0
BY DEF TypeOK, Slots, Reconciled, NoSlot

\* The steps of a backup keep the invariant.
LEMMA BackupInv ==
  ASSUME IInv, Backup
  PROVE  IInv' /\ OnlyBlind
<1>1. TypeOK'
  BY BackupType DEF IInv, ApksKept
<1>2. TypeOK /\ InstanceHasApk /\ JobKnows
  BY DEF IInv, ApksKept
<1> USE DEF disk, At
<1>3. CASE BeginBackup
  <2>1. job'.pc = "make" /\ job'.kind = "snapshot" /\ job'.name = clock + 1
    BY <1>3 DEF BeginBackup, NoJob
  <2>2. clock + 1 \in Names
    BY <1>2, <1>3, BoundsAssumption DEF BeginBackup, TypeOK, Names
  <2>3. JobKnows'
    BY <2>1, <2>2 DEF JobKnows
  <2>4. ApksKept
    BY <1>2, <1>3, ApksStay DEF BeginBackup
  <2> QED
    BY <1>1, <2>3, <2>4 DEF IInv, ApksKept
<1>4. CASE BeginInstance
  <2>1. job'.pc = "make" /\ job'.kind = "instance"
    BY <1>4 DEF BeginInstance, NoJob
  <2>2. JobKnows'
    BY <2>1 DEF JobKnows
  <2>3. ApksKept
    BY <1>2, <1>4, ReconciledNeeds
    DEF BeginInstance, ApksKept, InstanceHasApk, OnlyBlind, Lacks, IsWhole, HasApk
  <2> QED
    BY <1>1, <2>2, <2>3 DEF IInv, ApksKept
<1>5. CASE Make
  <2>1. job'.kind = job.kind /\ job'.name = job.name
        /\ job'.pc \in {"data", "apk", "finish"}
    BY <1>2, <1>5, GotoIs DEF Make, TypeOK, JobRecords
  <2>2. job'.pc = "apk" => ~HasApk(job.version)'
    <3>1. CASE Goto("finish")
      BY <1>2, <3>1, GotoIs
    <3>2. CASE ~Goto("finish")
      <4>1. /\ installed # 0
            /\ job' = [job EXCEPT !.version = installed,
                         !.pc = IF HasApk(installed) THEN "data" ELSE "apk"]
            /\ apks' = [apks EXCEPT ![installed] = IF @ = "stale" THEN "none" ELSE @]
        BY <1>5, <3>2 DEF Make
      <4>2. job'.version = installed /\ (job'.pc = "apk" => ~HasApk(installed))
        BY <1>2, <4>1 DEF TypeOK, JobRecords
      <4>3. installed \in Versions /\ (apks'[installed] = "whole" => apks[installed] = "whole")
        BY <1>2, <4>1 DEF TypeOK, Apks
      <4> QED
        BY <4>1, <4>2, <4>3 DEF HasApk
    <3> QED
      BY <3>1, <3>2
  <2>3. JobKnows'
    BY <1>2, <2>1, <2>2 DEF JobKnows
  <2>4. \A v \in Versions : apks[v] = "whole" => apks'[v] = "whole"
    BY <1>2, <1>5 DEF Make, TypeOK, Apks
  <2>5. ApksKept
    BY <1>2, <1>5, <2>4, ApksStay DEF Make
  <2> QED
    BY <1>1, <2>3, <2>5 DEF IInv, ApksKept
<1>6. CASE CompressApk
  <2>1. job'.kind = job.kind /\ job'.name = job.name
        /\ job'.pc \in {"descriptor", "abort", "finish"}
    BY <1>2, <1>6, GotoIs DEF CompressApk, Failed
  <2>2. JobKnows'
    BY <1>2, <2>1, JobStays
  <2>3. \A v \in Versions : apks[v] = "whole" => apks'[v] = "whole"
    <3>1. ~HasApk(job.version)
      BY <1>2, <1>6 DEF CompressApk, JobKnows
    <3>2. \A v \in Versions : apks[v] = "whole" => v # job.version
      BY <3>1, BoundsAssumption DEF HasApk
    <3> QED
      BY <1>2, <1>6, <3>2 DEF CompressApk, TypeOK, Apks
  <2>4. ApksKept
    BY <1>2, <1>6, <2>3, ApksStay DEF CompressApk
  <2> QED
    BY <1>1, <2>2, <2>4 DEF IInv, ApksKept
<1>7. CASE WriteDescriptor
  <2>1. job'.kind = job.kind /\ job'.name = job.name
        /\ job'.pc \in {"data", "abort", "finish"}
    BY <1>2, <1>7, GotoIs DEF WriteDescriptor, Failed
  <2>2. JobKnows'
    BY <1>2, <2>1, JobStays
  <2>3. \A v \in Versions : apks[v] = "whole" => apks'[v] = "whole"
    BY <1>2, <1>7 DEF WriteDescriptor, TypeOK, Apks
  <2>4. ApksKept
    BY <1>2, <1>7, <2>3, ApksStay DEF WriteDescriptor
  <2> QED
    BY <1>1, <2>2, <2>4 DEF IInv, ApksKept
<1>8. CASE CompressData
  <2>1. job'.kind = job.kind /\ job'.name = job.name
        /\ job'.pc \in {"meta", "abort", "finish"}
    BY <1>2, <1>8, GotoIs DEF CompressData, Failed
  <2>2. ApksKept
    BY <1>2, <1>8, ApksStay DEF CompressData
  <2> QED
    BY <1>1, <1>2, <2>1, <2>2, JobStays DEF IInv, ApksKept
<1>9. CASE WriteMetadata
  <2>1. job'.kind = job.kind /\ job'.name = job.name
        /\ job'.pc \in {"validate", "abort", "finish"}
    BY <1>2, <1>9, GotoIs DEF WriteMetadata, Failed
  <2>2. ApksKept
    BY <1>2, <1>9, ApksStay DEF WriteMetadata
  <2> QED
    BY <1>1, <1>2, <2>1, <2>2, JobStays DEF IInv, ApksKept
<1>10. CASE Validate
  <2>1. job'.kind = job.kind /\ job'.name = job.name
        /\ job'.pc \in {"publish", "abort", "finish"}
    BY <1>2, <1>10, GotoIs DEF Validate, Failed
  <2>2. job'.pc = "publish" => HasApk(staged.apk)'
    BY <1>2, <1>10, GotoIs DEF Validate, Failed, HasApk
  <2>3. JobKnows'
    BY <1>2, <2>1, <2>2 DEF JobKnows
  <2>4. ApksKept
    BY <1>2, <1>10, ApksStay DEF Validate
  <2> QED
    BY <1>1, <1>2, <2>1, <2>3, <2>4 DEF IInv, ApksKept
<1>11. CASE Publish
  <2>1. job'.kind = job.kind /\ job'.name = job.name
        /\ job'.pc \in {"rename", "abort", "finish"}
    BY <1>2, <1>11, GotoIs DEF Publish, Failed
  <2>2. HasApk(staged.apk) /\ apks' = apks
    BY <1>2, <1>11 DEF Publish, JobKnows
  <2>3. JobKnows'
    <3>1. CASE job.kind = "snapshot" /\ job'.pc = "rename"
      <4>1. job.name \in Names
        BY <1>2, <3>1 DEF JobKnows
      <4>2. archives'[job.name].version = staged.apk
        <5>1. ~Goto(Failed)
          BY <1>2, <3>1, GotoIs DEF Failed
        <5>2. archives' = [archives EXCEPT ![job.name] =
                             [Gone EXCEPT !.state = "moved", !.version = staged.apk]]
          BY <1>11, <3>1, <5>1 DEF Publish
        <5> QED
          BY <1>2, <4>1, <5>2 DEF TypeOK, Gone
      <4> QED
        BY <1>2, <2>1, <2>2, <3>1, <4>2 DEF JobKnows, HasApk
    <3>2. CASE ~(job.kind = "snapshot" /\ job'.pc = "rename")
      BY <1>2, <2>1, <3>2 DEF JobKnows
    <3> QED
      BY <3>1, <3>2
  <2>4. ApksKept
    <3>1. \A n \in Names : archives'[n].state = "whole" =>
                             (archives[n].state = "whole" /\ archives'[n] = archives[n])
      BY <1>2, <1>11 DEF Publish, TypeOK, Gone
    <3>2. slot'.apk = slot.apk /\ slot'.next \in {slot.next, staged.apk}
      BY <1>2, <1>11 DEF Publish, TypeOK, Slots
    <3> QED
      BY <1>2, <2>2, <3>1, <3>2
      DEF ApksKept, InstanceHasApk, OnlyBlind, Lacks, IsWhole, HasApk
  <2> QED
    BY <1>1, <2>1, <2>3, <2>4 DEF IInv, ApksKept
<1>12. CASE Rename
  <2>1. job'.kind = job.kind /\ job'.name = job.name /\ job'.pc \in {"after", "finish"}
    BY <1>2, <1>12, GotoIs DEF Rename
  <2>2. ApksKept
    <3>1. job.name \in Names /\ HasApk(archives[job.name].version)
      BY <1>2, <1>12 DEF Rename, JobKnows
    <3>2. \A n \in Names : n # job.name => archives'[n] = archives[n]
      BY <1>2, <1>12 DEF Rename, TypeOK
    <3>3. archives'[job.name].state = "whole" =>
            archives'[job.name].version = archives[job.name].version
      BY <1>2, <1>12, <3>1 DEF Rename, TypeOK, Archives, Gone
    <3> QED
      BY <1>2, <1>12, <3>1, <3>2, <3>3
      DEF Rename, ApksKept, InstanceHasApk, OnlyBlind, Lacks, IsWhole, HasApk
  <2> QED
    BY <1>1, <1>2, <2>1, <2>2, JobStays DEF IInv, ApksKept
<1>13. CASE RenameInstance
  <2>1. job'.kind = job.kind /\ job'.name = job.name /\ job'.pc \in {"commit", "finish"}
    BY <1>2, <1>13, GotoIs DEF RenameInstance
  <2>2. slot'.apk \in {0, slot.apk, slot.next} /\ slot'.next \in {0, slot.next}
    BY <1>2, <1>13, ReconciledNeeds DEF RenameInstance, TypeOK, Slots
  <2>3. ApksKept
    BY <1>2, <1>13, <2>2
    DEF RenameInstance, ApksKept, InstanceHasApk, OnlyBlind, Lacks, IsWhole, HasApk
  <2> QED
    BY <1>1, <1>2, <2>1, <2>3, JobStays DEF IInv, ApksKept
<1>14. CASE CommitInstance
  <2>1. job'.kind = job.kind /\ job'.name = job.name /\ job'.pc = "finish"
    BY <1>2, <1>14, GotoIs DEF CommitInstance
  <2>2. slot'.apk \in {0, slot.apk, slot.next} /\ slot'.next \in {0, slot.next}
    BY <1>2, <1>14, ReconciledNeeds DEF CommitInstance
  <2>3. ApksKept
    BY <1>2, <1>14, <2>2
    DEF CommitInstance, ApksKept, InstanceHasApk, OnlyBlind, Lacks, IsWhole, HasApk
  <2> QED
    BY <1>1, <1>2, <2>1, <2>3, JobStays DEF IInv, ApksKept
<1>15. CASE AfterCommit
  <2>1. job'.kind = job.kind /\ job'.name = job.name /\ job'.pc \in {"reload", "finish"}
    BY <1>2, <1>15, GotoIs DEF AfterCommit
  <2>2. ApksKept
    BY <1>2, <1>15, ApksStay DEF AfterCommit
  <2> QED
    BY <1>1, <1>2, <2>1, <2>2, JobStays DEF IInv, ApksKept
<1>16. CASE Abort
  <2>1. job'.kind = job.kind /\ job'.name = job.name /\ job'.pc = "finish"
    BY <1>2, <1>16, GotoIs DEF Abort
  <2>2. ApksKept
    BY <1>2, <1>16, ApksStay DEF Abort
  <2> QED
    BY <1>1, <1>2, <2>1, <2>2, JobStays DEF IInv, ApksKept
<1> QED
  BY <1>3, <1>4, <1>5, <1>6, <1>7, <1>8, <1>9, <1>10, <1>11, <1>12, <1>13, <1>14, <1>15,
     <1>16 DEF Backup

\* Archives that are not changed to whole ones need nothing new.
LEMMA ArchivesShrink ==
  ASSUME InstanceHasApk, UNCHANGED <<apks, slot>>,
         \A n \in Names : archives'[n].state = "whole" =>
                            /\ archives[n].state = "whole"
                            /\ archives'[n].version = archives[n].version
                            /\ archives[n].asked => archives'[n].asked
  PROVE  ApksKept
BY DEF ApksKept, InstanceHasApk, OnlyBlind, Lacks, IsWhole, HasApk

\* What one archive has become of a deletion that may have stopped half way.
LEMMA DeletedIs ==
  ASSUME TypeOK, NEW m \in Names,
         \/ archives' = [archives EXCEPT ![m] = Gone]
         \/ \E s \in Torn(m) \cup {archives[m].state} :
              archives' = [archives EXCEPT ![m].state = s]
  PROVE  \A n \in Names : archives'[n].state = "whole" =>
                            /\ archives[n].state = "whole"
                            /\ archives'[n].version = archives[n].version
                            /\ archives'[n].asked = archives[n].asked
<1>1. CASE archives' = [archives EXCEPT ![m] = Gone]
  BY <1>1 DEF TypeOK, Gone
<1>2. CASE \E s \in Torn(m) \cup {archives[m].state} :
             archives' = [archives EXCEPT ![m].state = s]
  <2>1. PICK s \in Torn(m) \cup {archives[m].state} :
               archives' = [archives EXCEPT ![m].state = s]
    BY <1>2
  <2>2. s = "whole" => archives[m].state = "whole"
    BY <2>1 DEF Torn
  <2> QED
    BY <2>1, <2>2 DEF TypeOK, Archives
<1> QED
  BY <1>1, <1>2

\* An APK nobody refers to is needed by no instance, and by no whole archive that
\* is in the list.
LEMMA UnreferencedIsFree ==
  ASSUME IInv, At("cleanup"), ~Referenced(job.victim.version)
  PROVE  /\ \A n \in Names : IsWhole(n) /\ Entry(n) \in list =>
                               archives[n].version # job.victim.version
         /\ slot.apk # job.victim.version
         /\ slot.next \in {0} \cup (Versions \ {job.victim.version})
<1>1. ~IsWhole(job.victim.name)
  BY DEF IInv, JobKnows, At
<1>2. ASSUME NEW n \in Names, IsWhole(n), Entry(n) \in list
      PROVE  archives[n].version # job.victim.version
  <2>1. Entry(n).name = n /\ Entry(n).version = archives[n].version
    BY DEF Entry
  <2>2. Entry(n) # job.victim
    BY <1>1, <1>2, <2>1
  <2> QED
    BY <1>2, <2>1, <2>2 DEF Referenced
<1>3. slot.apk # job.victim.version
  BY DEF Referenced
<1>4. slot.next = 0 \/ (slot.next \in Versions /\ slot.next # job.victim.version)
  BY DEF Referenced, IInv, TypeOK, Slots
<1> QED
  BY <1>2, <1>3, <1>4

\* The steps of a deletion keep the invariant.
LEMMA DeletionInv ==
  ASSUME IInv, Deletion
  PROVE  IInv' /\ OnlyBlind
<1>1. TypeOK'
  BY DeletionType DEF IInv, ApksKept
<1>2. TypeOK /\ InstanceHasApk /\ JobKnows
  BY DEF IInv, ApksKept
<1> USE DEF disk, At
<1>3. CASE ReloadInJob
  <2>1. job'.kind = job.kind /\ job'.name = job.name /\ job'.pc \in {"retain", "finish"}
    BY <1>2, <1>3, GotoIs DEF ReloadInJob
  <2>2. ApksKept
    BY <1>2, <1>3, ApksStay DEF ReloadInJob
  <2> QED
    BY <1>1, <1>2, <2>1, <2>2, JobStays DEF IInv, ApksKept
<1>4. CASE Retain
  <2>1. ApksKept
    BY <1>2, <1>4, ApksStay DEF Retain
  <2>2. JobKnows'
    <3>1. CASE Goto("finish")
      BY <1>2, <3>1, GotoIs, JobStays
    <3>2. CASE \E todo \in ToDelete : job' = [job EXCEPT !.pc = "delete", !.todo = todo]
      <4>1. PICK todo \in ToDelete : job' = [job EXCEPT !.pc = "delete", !.todo = todo]
        BY <3>2
      <4>2. job'.pc = "delete" /\ job'.kind = job.kind /\ job'.name = job.name
            /\ job'.todo = todo
        BY <1>2, <4>1 DEF TypeOK, JobRecords
      <4>3. todo \subseteq Entries
        BY <1>2, <4>1, ToDeleteType DEF TypeOK
      <4> QED
        BY <1>2, <4>2, <4>3 DEF JobKnows
    <3> QED
      BY <1>4, <3>1, <3>2 DEF Retain
  <2> QED
    BY <1>1, <2>1, <2>2 DEF IInv, ApksKept
<1>5. CASE BeginDelete
  <2>1. PICK e \in list :
          /\ job' = [NoJob EXCEPT !.kind = "delete", !.pc = "delete", !.todo = {e}]
          /\ archives' = [archives EXCEPT ![e.name].asked = TRUE]
    BY <1>5 DEF BeginDelete
  <2>2. e \in Entries /\ job'.pc = "delete" /\ job'.kind = "delete" /\ job'.todo = {e}
    BY <1>2, <2>1 DEF TypeOK, NoJob
  <2>3. \A n \in Names : /\ archives'[n].state = archives[n].state
                         /\ archives'[n].version = archives[n].version
                         /\ archives[n].asked => archives'[n].asked
    BY <1>2, <2>1 DEF TypeOK, Archives
  <2>4. JobKnows'
    BY <2>2 DEF JobKnows
  <2>5. ApksKept
    BY <1>2, <1>5, <2>3, ArchivesShrink DEF BeginDelete
  <2> QED
    BY <1>1, <2>4, <2>5 DEF IInv, ApksKept
<1>6. CASE DeleteArchive
  <2>1. PICK e \in job.todo :
          \/ /\ archives' = [archives EXCEPT ![e.name] = Gone]
             /\ job' = [job EXCEPT !.pc = "cleanup", !.todo = @ \ {e}, !.victim = e]
          \/ /\ \E s \in Torn(e.name) \cup {archives[e.name].state} :
                  archives' = [archives EXCEPT ![e.name].state = s]
             /\ job' = [job EXCEPT !.todo = @ \ {e}]
    BY <1>6 DEF DeleteArchive
  <2>2. e \in Entries /\ e.name \in Names /\ job.todo \subseteq Entries
    BY <1>2, <1>6, <2>1 DEF DeleteArchive, JobKnows, Entries
  <2>3. \A n \in Names : archives'[n].state = "whole" =>
                           /\ archives[n].state = "whole"
                           /\ archives'[n].version = archives[n].version
                           /\ archives'[n].asked = archives[n].asked
    BY <1>2, <2>1, <2>2, DeletedIs
  <2>4. JobKnows'
    <3>1. CASE /\ archives' = [archives EXCEPT ![e.name] = Gone]
               /\ job' = [job EXCEPT !.pc = "cleanup", !.todo = @ \ {e}, !.victim = e]
      <4>1. job'.pc = "cleanup" /\ job'.kind = job.kind /\ job'.name = job.name
            /\ job'.todo = job.todo \ {e} /\ job'.victim = e
        BY <1>2, <3>1 DEF TypeOK, JobRecords
      <4>2. ~IsWhole(e.name)'
        BY <1>2, <2>2, <3>1, <4>1 DEF TypeOK, Gone, IsWhole
      <4> QED
        BY <1>2, <2>2, <4>1, <4>2 DEF JobKnows, IsWhole
    <3>2. CASE job' = [job EXCEPT !.todo = @ \ {e}]
      <4>1. job'.pc = "delete" /\ job'.kind = job.kind /\ job'.name = job.name
            /\ job'.todo = job.todo \ {e}
        BY <1>2, <1>6, <3>2 DEF DeleteArchive, TypeOK, JobRecords
      <4> QED
        BY <1>2, <2>2, <4>1 DEF JobKnows
    <3> QED
      BY <2>1, <3>1, <3>2
  <2>5. ApksKept
    BY <1>2, <1>6, <2>3, ArchivesShrink DEF DeleteArchive
  <2> QED
    BY <1>1, <2>4, <2>5 DEF IInv, ApksKept
<1>7. CASE CleanupApks
  <2>1. job'.pc = "delete" /\ job'.kind = job.kind /\ job'.name = job.name
        /\ job'.todo = job.todo
    BY <1>2, <1>7 DEF CleanupApks, TypeOK, JobRecords
  <2>2. JobKnows'
    BY <1>2, <1>7, <2>1 DEF CleanupApks, JobKnows
  <2>3. ApksKept
    <3>1. CASE Referenced(job.victim.version)
      BY <1>2, <1>7, <3>1, ApksStay DEF CleanupApks
    <3>2. CASE ~Referenced(job.victim.version)
      <4>1. /\ \A n \in Names : IsWhole(n) /\ Entry(n) \in list =>
                                  archives[n].version # job.victim.version
            /\ slot.apk # job.victim.version
            /\ slot.next \in {0} \cup (Versions \ {job.victim.version})
        BY <1>7, <3>2, UnreferencedIsFree DEF CleanupApks
      <4>2. \A v \in Versions \cup {0} : v # job.victim.version /\ HasApk(v) => HasApk(v)'
        BY <1>2, <1>7 DEF CleanupApks, HasApk, TypeOK, Apks
      <4>3. slot' = slot /\ archives' = archives /\ At("cleanup")
        BY <1>7 DEF CleanupApks
      <4>4. InstanceHasApk'
        <5>1. slot.apk \in Versions \cup {0} /\ 0 \notin Versions
          BY <1>2, BoundsAssumption DEF TypeOK, Slots
        <5> QED
          BY <1>2, <4>1, <4>2, <4>3, <5>1 DEF InstanceHasApk, HasApk
      <4>5. ASSUME NEW n \in Names, Lacks(n)', ~Lacks(n)
            PROVE  Entry(n) \notin list
        <5>1. IsWhole(n) /\ HasApk(archives[n].version) /\ ~HasApk(archives[n].version)'
          BY <4>3, <4>5 DEF Lacks, IsWhole
        <5>2. archives[n].version \in Versions \cup {0}
          BY <1>2 DEF TypeOK, Archives
        <5> QED
          BY <4>1, <4>2, <4>3, <5>1, <5>2 DEF HasApk
      <4> QED
        BY <4>3, <4>4, <4>5 DEF ApksKept, OnlyBlind
    <3> QED
      BY <3>1, <3>2
  <2> QED
    BY <1>1, <2>2, <2>3 DEF IInv, ApksKept
<1>8. CASE DeletedAll
  <2>1. job'.kind = job.kind /\ job'.name = job.name
        /\ job'.pc \in {"reload again", "finish"}
    BY <1>2, <1>8, GotoIs DEF DeletedAll
  <2>2. ApksKept
    BY <1>2, <1>8, ApksStay DEF DeletedAll
  <2> QED
    BY <1>1, <1>2, <2>1, <2>2, JobStays DEF IInv, ApksKept
<1>9. CASE BeginClear
  <2> DEFINE there == {n \in Names : archives[n].state # "none"}
  <2>1. job'.pc = "clear" /\ job'.kind = "clear"
        /\ job'.todo = {Entry(n) : n \in there} \cup (IF slot = NoSlot THEN {NoEntry} ELSE {})
    BY <1>9 DEF BeginClear, NoJob
  <2>2. archives' = [n \in Names |-> [archives[n] EXCEPT !.asked = n \in there]]
    BY <1>9 DEF BeginClear
  <2>3. \A n \in Names : /\ archives'[n].state = archives[n].state
                         /\ archives'[n].version = archives[n].version
                         /\ archives[n].state = "whole" => archives'[n].asked
    BY <1>2, <2>2 DEF TypeOK, Archives
  <2>4. \A n \in there : Entry(n) # NoEntry
    BY <1>2, EntryType, NoEntryType
  <2>5. NoEntry \in job'.todo => slot = NoSlot
    BY <2>1, <2>4
  <2>6. JobKnows'
    BY <1>9, <2>1, <2>3, <2>5 DEF BeginClear, JobKnows, IsWhole
  <2>7. ApksKept
    BY <1>2, <1>9, <2>3, ArchivesShrink DEF BeginClear
  <2> QED
    BY <1>1, <2>6, <2>7 DEF IInv, ApksKept
<1>10. CASE ClearEntry
  <2>1. PICK e \in job.todo :
          /\ job' = [job EXCEPT !.todo = @ \ {e}]
          /\ \/ /\ e # NoEntry /\ UNCHANGED apks
                /\ \/ archives' = [archives EXCEPT ![e.name] = Gone]
                   \/ \E s \in Torn(e.name) : archives' = [archives EXCEPT ![e.name].state = s]
             \/ e = NoEntry /\ UNCHANGED archives
    BY <1>10 DEF ClearEntry
  <2>2. job'.pc = "clear" /\ job'.kind = job.kind /\ job'.name = job.name
        /\ job'.todo \subseteq job.todo
    BY <1>2, <1>10, <2>1 DEF ClearEntry, TypeOK, JobRecords
  <2>3. \A n \in Names : archives'[n].state = "whole" =>
                           /\ archives[n].state = "whole"
                           /\ archives'[n].version = archives[n].version
                           /\ archives'[n].asked = archives[n].asked
    <3>1. CASE e = NoEntry
      <4>1. archives' = archives
        BY <1>2, <1>10, <2>1, <3>1
      <4> QED
        BY <4>1
    <3>2. CASE e # NoEntry
      <4>1. e.name \in Names
        BY <1>2, <2>1, <3>2 DEF TypeOK, JobRecords, Entries
      <4> QED
        BY <1>2, <2>1, <3>2, <4>1, DeletedIs
    <3> QED
      BY <3>1, <3>2
  <2>4. \A n \in Names : archives'[n].state = "whole" => archives'[n].asked
    BY <1>2, <1>10, <2>3 DEF ClearEntry, JobKnows, IsWhole
  <2>5. slot' = slot
    BY <1>10 DEF ClearEntry
  <2>6. JobKnows'
    BY <1>2, <1>10, <2>2, <2>4, <2>5 DEF ClearEntry, JobKnows, IsWhole
  <2>7. ApksKept
    <3>1. CASE e = NoEntry
      <4>1. slot = NoSlot
        BY <1>2, <1>10, <2>1, <3>1 DEF ClearEntry, JobKnows
      <4> QED
        BY <2>4, <2>5, <4>1 DEF ApksKept, InstanceHasApk, OnlyBlind, Lacks, IsWhole, NoSlot
    <3>2. CASE e # NoEntry
      BY <1>2, <2>1, <2>3, <2>5, <3>2, ArchivesShrink
    <3> QED
      BY <3>1, <3>2
  <2> QED
    BY <1>1, <2>6, <2>7 DEF IInv, ApksKept
<1>11. CASE ClearedAll
  <2>1. job'.kind = job.kind /\ job'.name = job.name /\ job'.pc = "finish"
    BY <1>2, <1>11, GotoIs DEF ClearedAll
  <2>2. ApksKept
    BY <1>2, <1>11, ApksStay DEF ClearedAll
  <2> QED
    BY <1>1, <1>2, <2>1, <2>2, JobStays DEF IInv, ApksKept
<1>12. CASE DeleteInstance
  <2>1. ApksKept
    BY <1>2, <1>12
    DEF DeleteInstance, ApksKept, InstanceHasApk, OnlyBlind, Lacks, IsWhole, NoSlot, HasApk
  <2>2. JobKnows'
    BY <1>2, <1>12 DEF DeleteInstance, Free, NoJob, JobKnows
  <2> QED
    BY <1>1, <2>1, <2>2 DEF IInv, ApksKept
<1> QED
  BY <1>3, <1>4, <1>5, <1>6, <1>7, <1>8, <1>9, <1>10, <1>11, <1>12 DEF Deletion

\* A reload and what surrounds the jobs keep the invariant.
LEMMA RestInv ==
  ASSUME IInv, Finish \/ Viewing \/ ChangePackage \/ Die
  PROVE  IInv' /\ OnlyBlind
<1> USE DEF disk
<1>1. TypeOK'
  BY RestType DEF IInv
<1>2. TypeOK /\ InstanceHasApk /\ JobKnows
  BY DEF IInv
<1>3. ApksKept
  BY <1>2, ApksStay
  DEF Finish, Viewing, OpenMenu, ListNames, ClearList, ReadArchive, ChangePackage, Die
<1>4. CASE Finish \/ Die
  BY <1>1, <1>3, <1>4 DEF IInv, ApksKept, Finish, Die, JobKnows, At, NoJob
<1>5. CASE Viewing \/ ChangePackage
  <2>1. JobKnows'
    BY <1>2, <1>5
    DEF Viewing, OpenMenu, ListNames, ClearList, ReadArchive, ChangePackage, JobKnows, At,
        IsWhole, HasApk
  <2> QED
    BY <1>1, <1>3, <2>1 DEF IInv, ApksKept
<1> QED
  BY <1>4, <1>5

\* The invariant holds at first and every step keeps it.
LEMMA InitInv ==
  ASSUME Init
  PROVE  IInv
<1>1. \A n \in Names : ~IsWhole(n)
  BY DEF Init, IsWhole, Gone
<1>2. InstanceHasApk
  BY DEF Init, InstanceHasApk, NoSlot
<1>3. JobKnows
  BY DEF Init, JobKnows, NoJob, At
<1> QED
  BY <1>2, <1>3, InitType DEF IInv

LEMMA NextInv ==
  ASSUME IInv, [Next]_vars
  PROVE  IInv' /\ (OnlyBlind \/ UNCHANGED vars)
<1>1. CASE UNCHANGED vars
  BY <1>1 DEF vars, IInv, TypeOK, InstanceHasApk, HasApk, IsWhole, JobKnows, At
<1> QED
  BY <1>1, BackupInv, DeletionInv, RestInv DEF Next

\* An instance always has the APKs it names, also while its slot is being
\* replaced: no deletion, by the retention, by the user or by clearing a card,
\* takes one, whatever fails, whenever the app dies and whatever a reload makes of
\* the list meanwhile.
THEOREM InstanceKept == Spec => []InstanceHasApk
<1>1. IInv /\ [Next]_vars => IInv'
  BY NextInv
<1>2. IInv => InstanceHasApk
  BY DEF IInv
<1> QED
  BY InitInv, <1>1, <1>2, PTL DEF Spec

\* A whole archive nobody asked to delete has its APK from the start, and loses it
\* only to a cleanup that looks at a list without it, as a reload beside the job,
\* or one that failed, can leave it: nothing else that fails, no death and no
\* other step, of a backup, of the retention, of clearing or of the user, takes
\* it.
THEOREM ArchiveLossIsBlind == Spec => LossIsBlind
<1>1. IInv /\ [Next]_vars => IInv'
  BY NextInv
<1>2. IInv /\ [Next]_vars => [OnlyBlind]_vars
  BY NextInv
<1> QED
  BY InitInv, <1>1, <1>2, PTL DEF Spec, LossIsBlind

-----------------------------------------------------------------------------
(* What a backup leaves.                                                   *)

Clean == ~fault.messy /\ fault.deaths = 0

\* A staging directory belongs to a job, and an archive whose manifest is still
\* pending to the job that is about to rename it.
Owned ==
  /\ job = NoJob => staged = Nothing
  /\ \A n \in Names :
       \/ archives[n].state \in {"none", "whole"}
       \/ At("rename") /\ job.kind = "snapshot" /\ job.name = n

OwnedInv == TypeOK /\ (Clean => Owned)

\* What went wrong is not forgotten.
LEMMA CleanWasClean ==
  ASSUME TypeOK, [Next]_vars, Clean'
  PROVE  Clean /\ ~Messy
<1>1. fault \in Faults
  BY DEF TypeOK
<1>2. ~Messy
  BY <1>1 DEF Messy, Faults, Clean
<1>3. fault' = fault \/ Faulty \/ Die
  BY <1>2 DEF Next, vars, disk, Backup, BeginBackup, BeginInstance, Make, CompressApk,
              WriteDescriptor, CompressData, WriteMetadata, Validate, Publish, Rename,
              RenameInstance, CommitInstance, AfterCommit, Abort, Deletion, ReloadInJob,
              Reload, Retain, BeginDelete, DeleteArchive, CleanupApks, DeletedAll,
              BeginClear, ClearEntry, ClearedAll, DeleteInstance, Viewing, OpenMenu,
              ListNames, ClearList, ReadArchive, ChangePackage, Finish
<1>4. CASE Die
  BY <1>1, <1>4, BoundsAssumption DEF Die, Clean, Faults
<1>5. CASE fault' = fault \/ Faulty
  <2>1. fault'.messy = fault.messy /\ fault'.deaths = fault.deaths
    BY <1>1, <1>5 DEF Faulty, Faults
  <2> QED
    BY <2>1, <1>2 DEF Clean
<1> QED
  BY <1>2, <1>3, <1>4, <1>5

\* Steps of a job that change no archive.
LEMMA OwnedStays ==
  ASSUME Owned, archives' = archives, job.pc # "rename" \/ job.kind # "snapshot",
         job'.pc # "none"
  PROVE  Owned'
BY DEF Owned, At, NoJob

\* The steps of a backup keep what is there owned.
LEMMA BackupOwned ==
  ASSUME OwnedInv, Backup, Clean, ~Messy
  PROVE  Owned'
<1>1. TypeOK /\ Owned
  BY DEF OwnedInv
<1> USE DEF disk, At
<1>2. CASE BeginBackup
  <2>1. job'.pc = "make" /\ archives' = archives /\ job.pc = "none"
    BY <1>2 DEF BeginBackup, Free, NoJob
  <2> QED
    BY <1>1, <2>1, OwnedStays
<1>3. CASE BeginInstance
  <2>1. job'.pc = "make" /\ archives' = archives /\ job.pc = "none"
    BY <1>3 DEF BeginInstance, Free, NoJob
  <2> QED
    BY <1>1, <2>1, OwnedStays
<1>4. CASE Make
  <2>1. job'.pc \in {"data", "apk", "finish"} /\ archives' = archives /\ job.pc = "make"
    BY <1>1, <1>4, GotoIs DEF Make, TypeOK, JobRecords
  <2> QED
    BY <1>1, <2>1, OwnedStays
<1>5. CASE CompressApk \/ WriteDescriptor \/ CompressData \/ WriteMetadata \/ Validate
           \/ AfterCommit \/ Abort
  <2>1. job'.pc # "none" /\ archives' = archives /\ job.pc # "rename"
    BY <1>1, <1>5, GotoIs
    DEF CompressApk, WriteDescriptor, CompressData, WriteMetadata, Validate, AfterCommit,
        Abort, Failed
  <2> QED
    BY <1>1, <2>1, OwnedStays
<1>6. CASE RenameInstance \/ CommitInstance
  <2>1. job'.pc # "none" /\ archives' = archives
        /\ (job.pc # "rename" \/ job.kind # "snapshot")
    BY <1>1, <1>6, GotoIs DEF RenameInstance, CommitInstance
  <2> QED
    BY <1>1, <2>1, OwnedStays
<1>7. CASE Publish
  <2>1. CASE Goto(Failed) /\ archives' = archives
    <3>1. job'.pc # "none" /\ job.pc = "publish"
      BY <1>1, <1>7, <2>1, GotoIs DEF Publish, Failed
    <3> QED
      BY <1>1, <2>1, <3>1, OwnedStays
  <2>2. CASE /\ Goto("rename")
             /\ \/ job.kind = "instance" /\ archives' = archives
                \/ /\ job.kind = "snapshot"
                   /\ archives' = [archives EXCEPT
                        ![job.name] = [Gone EXCEPT !.state = "moved", !.version = staged.apk]]
    <3>1. job'.pc = "rename" /\ job'.kind = job.kind /\ job'.name = job.name
          /\ job.pc = "publish"
      BY <1>1, <1>7, <2>2, GotoIs DEF Publish
    <3>2. \A n \in Names : n # job.name \/ job.kind = "instance" => archives'[n] = archives[n]
      BY <1>1, <2>2 DEF TypeOK
    <3> QED
      BY <1>1, <2>2, <3>1, <3>2 DEF Owned, NoJob
  <2> QED
    BY <1>7, <2>1, <2>2 DEF Publish
<1>8. CASE Rename
  <2>1. job'.pc \in {"after", "finish"}
    BY <1>1, <1>8, GotoIs DEF Rename
  <2>2. \A n \in Names : archives'[n].state \in {"none", "whole"}
    <3>1. \A n \in Names : n # job.name => archives'[n] = archives[n]
      BY <1>1, <1>8 DEF Rename, TypeOK
    <3>2. job.name \in Names => archives'[job.name].state \in {"none", "whole"}
      BY <1>1, <1>8 DEF Rename, TypeOK, Archives, Gone
    <3> QED
      BY <1>1, <3>1, <3>2 DEF Owned
  <2> QED
    BY <2>1, <2>2 DEF Owned, NoJob
<1> QED
  BY <1>2, <1>3, <1>4, <1>5, <1>6, <1>7, <1>8 DEF Backup

\* Every step does.
LEMMA NextOwned ==
  ASSUME OwnedInv, [Next]_vars
  PROVE  OwnedInv'
<1> SUFFICES ASSUME Clean' PROVE Owned'
  BY NextType DEF OwnedInv
<1>1. TypeOK /\ Owned /\ Clean /\ ~Messy
  BY CleanWasClean DEF OwnedInv
<1> USE DEF disk, At
<1>2. CASE Backup
  BY <1>1, <1>2, BackupOwned
<1>3. CASE ReloadInJob \/ Retain \/ CleanupApks \/ DeletedAll \/ ClearedAll
  <2>1. job'.pc # "none" /\ archives' = archives /\ job.pc # "rename"
    <3>1. CASE ReloadInJob \/ DeletedAll \/ ClearedAll
      <4>1. archives' = archives /\ job.pc \in {"reload", "reload again", "delete", "clear"}
        BY <3>1 DEF ReloadInJob, DeletedAll, ClearedAll
      <4>2. \E pc \in {"retain", "finish", "reload again"} : Goto(pc)
        BY <3>1 DEF ReloadInJob, DeletedAll, ClearedAll
      <4> QED
        BY <1>1, <4>1, <4>2, GotoIs
    <3>2. CASE Retain
      <4>1. archives' = archives /\ job.pc = "retain"
        BY <3>2 DEF Retain
      <4>2. \/ Goto("finish")
            \/ \E todo \in ToDelete : job' = [job EXCEPT !.pc = "delete", !.todo = todo]
        BY <3>2 DEF Retain
      <4>3. job'.pc \in {"finish", "delete"}
        BY <1>1, <4>2, GotoIs DEF TypeOK, JobRecords
      <4> QED
        BY <4>1, <4>3
    <3>3. CASE CleanupApks
      BY <1>1, <3>3 DEF CleanupApks, TypeOK, JobRecords
    <3> QED
      BY <1>3, <3>1, <3>2, <3>3
  <2> QED
    BY <1>1, <2>1, OwnedStays
<1>4. CASE BeginDelete
  <2>1. job.pc = "none" /\ job'.pc = "delete"
    BY <1>4 DEF BeginDelete, Free, NoJob
  <2>2. \A n \in Names : archives'[n].state = archives[n].state
    BY <1>1, <1>4 DEF BeginDelete, TypeOK, Archives
  <2> QED
    BY <1>1, <2>1, <2>2 DEF Owned, NoJob
<1>5. CASE BeginClear
  <2>1. job.pc = "none" /\ job'.pc = "clear"
    BY <1>5 DEF BeginClear, Free, NoJob
  <2>2. \A n \in Names : archives'[n].state = archives[n].state
    BY <1>1, <1>5 DEF BeginClear, TypeOK, Archives
  <2> QED
    BY <1>1, <2>1, <2>2 DEF Owned, NoJob
<1>6. CASE DeleteArchive
  <2>1. PICK e \in job.todo :
          /\ archives' = [archives EXCEPT ![e.name] = Gone]
          /\ job' = [job EXCEPT !.pc = "cleanup", !.todo = @ \ {e}, !.victim = e]
    BY <1>1, <1>6 DEF DeleteArchive
  <2>2. job.pc = "delete" /\ job'.pc = "cleanup"
    BY <1>1, <1>6, <2>1 DEF DeleteArchive, TypeOK, JobRecords
  <2>3. \A n \in Names : archives'[n] \in {Gone, archives[n]}
    BY <1>1, <2>1 DEF TypeOK
  <2> QED
    BY <1>1, <2>2, <2>3 DEF Owned, NoJob, Gone
<1>7. CASE ClearEntry
  <2>1. PICK e \in job.todo :
          /\ archives' = [archives EXCEPT ![e.name] = Gone] \/ archives' = archives
          /\ job' = [job EXCEPT !.todo = @ \ {e}]
    BY <1>1, <1>7 DEF ClearEntry
  <2>2. job.pc = "clear" /\ job'.pc = "clear"
    BY <1>1, <1>7, <2>1 DEF ClearEntry, TypeOK, JobRecords
  <2>3. \A n \in Names : archives'[n] \in {Gone, archives[n]}
    BY <1>1, <2>1 DEF TypeOK
  <2> QED
    BY <1>1, <2>2, <2>3 DEF Owned, NoJob, Gone
<1>8. CASE Finish
  BY <1>1, <1>8 DEF Finish, Owned
<1>9. CASE Die
  BY <1>1, <1>9, BoundsAssumption DEF Die, Clean, TypeOK, Faults
<1>10. CASE DeleteInstance \/ Viewing \/ ChangePackage \/ UNCHANGED vars
  <2>1. archives' = archives /\ job' = job /\ staged' = staged
    BY <1>10 DEF DeleteInstance, Viewing, OpenMenu, ListNames, ClearList, ReadArchive,
                 ChangePackage, vars
  <2> QED
    BY <1>1, <2>1 DEF Owned
<1> QED
  BY <1>2, <1>3, <1>4, <1>5, <1>6, <1>7, <1>8, <1>9, <1>10 DEF Next, Deletion

\* Unless a deletion failed or the app died, a backup that failed or was
\* cancelled has left nothing when no job runs.
THEOREM NothingLeft == Spec => []NothingLeftBehind
<1>1. Init => OwnedInv
  <2>1. ASSUME Init PROVE Owned
    BY <2>1 DEF Init, Owned, Gone
  <2> QED
    BY <2>1, InitType DEF OwnedInv
<1>2. OwnedInv /\ [Next]_vars => OwnedInv'
  BY NextOwned
<1>3. OwnedInv => NothingLeftBehind
  BY DEF OwnedInv, Owned, Clean, NothingLeftBehind, NoJob, At
<1> QED
  BY <1>1, <1>2, <1>3, PTL DEF Spec

-----------------------------------------------------------------------------
(* What the retention leaves.                                              *)

\* A set of naturals has a least element.
LEMMA Least ==
  ASSUME NEW S \in SUBSET Nat, S # {}
  PROVE  \E x \in S : \A y \in S : x <= y
<1>1. PICK x \in S : \A y \in S : ~(<<y, x>> \in OpToRel(<, Nat))
  BY NatLessThanWellFounded, WFMin, Zenon
<1>2. \A y \in S : y < x => <<y, x>> \in OpToRel(<, Nat)
  BY DEF OpToRel
<1>3. \A y \in S : ~(y < x)
  BY <1>1, <1>2, Zenon
<1>. QED BY <1>3

\* A finite set of entries has a newest.
LEMMA Newest ==
  ASSUME BoundsAssumption, NEW S \in SUBSET Entries, S # {}
  PROVE  \E f \in S : \A g \in S : g.name <= f.name
<1>1. \A f \in S : f.name \in Nat /\ f.name <= MaxArchives
  BY BoundsAssumption DEF Entries, Names
<1> DEFINE D == {MaxArchives - f.name : f \in S}
<1>2. D \in SUBSET Nat /\ D # {}
  BY <1>1, BoundsAssumption
<1>3. PICK x \in D : \A y \in D : x <= y
  <2> HIDE DEF D
  <2> QED BY <1>2, Least
<1>4. PICK f \in S : x = MaxArchives - f.name
  BY <1>3
<1>5. \A g \in S : MaxArchives - f.name <= MaxArchives - g.name
  BY <1>3, <1>4
<1>. QED BY <1>1, <1>5, BoundsAssumption

\* Of a finite set of entries, the k newest, those with fewer than k newer ones,
\* are k if there are so many.
LEMMA TopOf ==
  ASSUME BoundsAssumption, NEW S \in SUBSET Entries, IsFiniteSet(S),
         NEW k \in Nat, Cardinality(S) >= k
  PROVE  Cardinality({f \in S : Cardinality(Newer(f, S)) < k}) >= k
<1> DEFINE T == {f \in S : Cardinality(Newer(f, S)) < k}
<1>1. IsFiniteSet(T) /\ Cardinality(T) \in Nat /\ Cardinality(S) \in Nat
  BY FS_Subset, FS_CardinalityType
<1>2. SUFFICES ASSUME Cardinality(T) < k
                PROVE  FALSE
  BY <1>1
<1>3. S \ T # {}
  BY <1>1, <1>2
<1>4. PICK f \in S \ T : \A g \in S \ T : g.name <= f.name
  <2>1. S \ T \in SUBSET Entries
    OBVIOUS
  <2> HIDE DEF T
  <2> QED BY <1>3, <2>1, Newest
<1>5. \A g \in S : g.name \in Nat
  BY DEF Entries, Names
<1>6. Newer(f, S) \subseteq T
  BY <1>4, <1>5 DEF Newer
<1>7. Cardinality(Newer(f, S)) <= Cardinality(T) /\ Cardinality(Newer(f, S)) \in Nat
  BY <1>1, <1>6, FS_Subset, FS_CardinalityType
<1>8. Cardinality(Newer(f, S)) < k
  BY <1>1, <1>2, <1>7
<1>. QED BY <1>4, <1>8

\* So of the k or more entries newer than e, the k newest are k.
LEMMA TopNewer ==
  ASSUME BoundsAssumption, NEW S \in SUBSET Entries, IsFiniteSet(S),
         NEW e \in S, NEW k \in Nat, Cardinality(Newer(e, S)) >= k
  PROVE  Cardinality({f \in Newer(e, S) : Cardinality(Newer(f, S)) < k}) >= k
<1>1. Newer(e, S) \in SUBSET S
  BY DEF Newer
<1>2. \A f \in S : f.name \in Nat
  BY DEF Entries, Names
<1>3. \A f \in Newer(e, S) : Newer(f, Newer(e, S)) = Newer(f, S)
  BY <1>1, <1>2 DEF Newer
<1>4. {f \in Newer(e, S) : Cardinality(Newer(f, Newer(e, S))) < k}
        = {f \in Newer(e, S) : Cardinality(Newer(f, S)) < k}
  BY <1>3
<1>5. IsFiniteSet(Newer(e, S)) /\ Newer(e, S) \in SUBSET Entries
  BY <1>1, FS_Subset
<1> DEFINE N == Newer(e, S)
<1>6. Cardinality({f \in N : Cardinality(Newer(f, N)) < k}) >= k
  <2> HIDE DEF N
  <2> QED BY <1>5, TopOf DEF N
<1>. QED BY <1>4, <1>6


\* A part of a finite list has fewer entries newer than one.
LEMMA FewerNewer ==
  ASSUME NEW S, IsFiniteSet(S), NEW R \in SUBSET S, NEW e
  PROVE  /\ Cardinality(Newer(e, R)) <= Cardinality(Newer(e, S))
         /\ Cardinality(Newer(e, R)) \in Nat /\ Cardinality(Newer(e, S)) \in Nat
<1>1. Newer(e, R) \in SUBSET Newer(e, S) /\ Newer(e, S) \in SUBSET S
  BY DEF Newer
<1>. QED BY <1>1, FS_Subset, FS_CardinalityType

Survivors(e, todo) == {f \in list \ todo : f.name > e.name}

\* A set of survivors counts.
LEMMA SurvivorsCount ==
  ASSUME IsFiniteSet(list), NEW e, NEW todo, NEW k \in Nat,
         NEW U \in SUBSET Survivors(e, todo), Cardinality(U) >= k
  PROVE  Cardinality(Survivors(e, todo)) >= k
<1>1. Survivors(e, todo) \in SUBSET list
  BY DEF Survivors
<1>2. /\ IsFiniteSet(Survivors(e, todo)) /\ IsFiniteSet(U)
      /\ Cardinality(U) <= Cardinality(Survivors(e, todo))
      /\ Cardinality(U) \in Nat /\ Cardinality(Survivors(e, todo)) \in Nat
  BY <1>1, FS_Subset, FS_CardinalityType
<1>. QED BY <1>2

\* An entry that goes because there are too many of its version leaves the least
\* number of them, newer than itself.
LEMMA SameLeaves ==
  ASSUME BoundsAssumption, list \in SUBSET Entries, IsFiniteSet(list),
         NEW todo \in ToDelete, NEW e \in TooManySame
  PROVE  Cardinality(Survivors(e, todo)) >= minSameVersionCount
<1> DEFINE S == Same(e, Kept)
           U == {f \in Newer(e, S) : Cardinality(Newer(f, S)) < minSameVersionCount}
<1>1. Total \in Nat /\ minSameVersionCount \in Nat /\ minSameVersionCount <= Total
  BY BoundsAssumption DEF Total
<1>2. e \in Kept /\ Cardinality(Newer(e, S)) >= Total /\ Total # 0
  BY DEF TooManySame
<1>3. S \in SUBSET list /\ e \in S
  BY <1>2, PartsType DEF Same
<1>4. IsFiniteSet(S) /\ S \in SUBSET Entries
  BY <1>3, FS_Subset
<1>5. Cardinality(Newer(e, S)) \in Nat
  BY <1>4, FewerNewer
<1>6. Cardinality(U) >= minSameVersionCount
  <2>1. Cardinality(Newer(e, S)) >= minSameVersionCount
    BY <1>1, <1>2, <1>5
  <2> HIDE DEF S
  <2> QED BY <1>1, <1>3, <1>4, <2>1, TopNewer
<1>7. ASSUME NEW f \in U
      PROVE  f \in Survivors(e, todo)
  <2>1. f \in Kept /\ f.version = e.version /\ f.name > e.name
    BY DEF Newer, Same
  <2>2. Same(f, Kept) = S
    BY <2>1 DEF Same
  <2>3. Cardinality(Newer(f, S)) \in Nat /\ Cardinality(Newer(f, S)) < minSameVersionCount
    BY <1>4, FewerNewer
  <2>4. f \notin TooManySame
    BY <1>1, <2>2, <2>3 DEF TooManySame
  <2>5. f \notin Extra
    <3>1. Same(f, Rest) \in SUBSET S
      BY <2>2, PartsType DEF Same
    <3>2. Cardinality(Newer(f, Same(f, Rest))) <= Cardinality(Newer(f, S))
          /\ Cardinality(Newer(f, Same(f, Rest))) \in Nat
      <4> HIDE DEF S
      <4> QED BY <1>4, <3>1, FewerNewer
    <3>. QED BY <1>1, <2>3, <3>2 DEF Extra
  <2>6. f \notin Many
    BY <2>1 DEF Kept
  <2>. QED BY <2>1, <2>4, <2>5, <2>6, ToDeleteIs, PartsType DEF Survivors
<1>8. U \in SUBSET Survivors(e, todo)
  BY <1>7
<1> HIDE DEF U
<1>. QED BY <1>1, <1>6, <1>8, SurvivorsCount

\* So does one that goes because it expired.
LEMMA ExtraLeaves ==
  ASSUME BoundsAssumption, list \in SUBSET Entries, IsFiniteSet(list),
         NEW todo \in ToDelete, NEW e \in Extra
  PROVE  Cardinality(Survivors(e, todo)) >= minSameVersionCount
<1> DEFINE S == Same(e, Rest)
           U == {f \in Newer(e, S) : Cardinality(Newer(f, S)) < minSameVersionCount}
<1>1. minSameVersionCount \in Nat
  BY BoundsAssumption
<1>2. e \in Rest /\ Cardinality(Newer(e, S)) >= minSameVersionCount
  BY DEF Extra
<1>3. S \in SUBSET list /\ e \in S
  BY <1>2, PartsType DEF Same
<1>4. IsFiniteSet(S) /\ S \in SUBSET Entries
  BY <1>3, FS_Subset
<1>5. Cardinality(U) >= minSameVersionCount
  <2> HIDE DEF S
  <2> QED BY <1>1, <1>2, <1>3, <1>4, TopNewer DEF S
<1>6. ASSUME NEW f \in U
      PROVE  f \in Survivors(e, todo)
  <2>1. f \in Rest /\ f.version = e.version /\ f.name > e.name
    BY DEF Newer, Same
  <2>2. Same(f, Rest) = S
    BY <2>1 DEF Same
  <2>3. Cardinality(Newer(f, S)) \in Nat /\ Cardinality(Newer(f, S)) < minSameVersionCount
    BY <1>4, FewerNewer
  <2>4. f \notin Extra
    BY <1>1, <2>2, <2>3 DEF Extra
  <2>5. f \notin Many /\ f \notin TooManySame
    BY <2>1 DEF Kept, Rest
  <2>. QED BY <2>1, <2>4, <2>5, ToDeleteIs, PartsType DEF Survivors
<1>7. U \in SUBSET Survivors(e, todo)
  BY <1>6
<1> HIDE DEF U
<1>. QED BY <1>1, <1>5, <1>7, SurvivorsCount

\* One that goes because there are too many at all leaves as many newer ones as
\* the policy keeps at all, or, if one of these goes, what that one leaves.
LEMMA RetentionLeaves ==
  ASSUME BoundsAssumption, list \in SUBSET Entries, IsFiniteSet(list),
         NEW todo \in ToDelete, NEW e \in todo
  PROVE  \/ Cardinality(Survivors(e, todo)) >= maxVersionCount
         \/ Cardinality(Survivors(e, todo)) >= minSameVersionCount
<1>1. CASE e \in TooManySame \cup Extra
  BY <1>1, SameLeaves, ExtraLeaves
<1>2. ASSUME e \in Many, NEW g \in Kept, g \in todo
      PROVE  Cardinality(Survivors(e, todo)) >= minSameVersionCount
  <2>1. g \in TooManySame \cup Extra
    BY <1>2, ToDeleteIs DEF Kept
  <2>2. Cardinality(Survivors(g, todo)) >= minSameVersionCount
    BY <2>1, SameLeaves, ExtraLeaves
  <2>3. e \in list /\ g \in list /\ g \notin Many /\ g \in Unlocked
    BY <1>2, PartsType DEF Kept
  <2>4. \A f \in list : f.name \in Nat
    BY DEF Entries, Names
  <2>5. IsFiniteSet(Unlocked)
    BY PartsType, FS_Subset
  <2>6. g.name > e.name
    <3>1. SUFFICES ASSUME g.name <= e.name
                   PROVE  FALSE
      BY <2>3, <2>4
    <3>2. Newer(e, Unlocked) \in SUBSET Newer(g, Unlocked)
      BY <2>3, <2>4, <3>1, PartsType DEF Newer
    <3>3. Newer(g, Unlocked) \in SUBSET Unlocked
      BY DEF Newer
    <3>4. /\ Cardinality(Newer(e, Unlocked)) <= Cardinality(Newer(g, Unlocked))
          /\ Cardinality(Newer(e, Unlocked)) \in Nat
          /\ Cardinality(Newer(g, Unlocked)) \in Nat
      BY <2>5, <3>2, <3>3, FS_Subset, FS_CardinalityType
    <3>. QED BY <1>2, <2>3, <3>4, BoundsAssumption DEF Many
  <2>7. Survivors(g, todo) \in SUBSET Survivors(e, todo)
    BY <2>3, <2>4, <2>6 DEF Survivors
  <2>. QED BY <2>2, <2>7, SurvivorsCount, BoundsAssumption
<1>3. ASSUME e \in Many, \A g \in Kept : g \notin todo
      PROVE  Cardinality(Survivors(e, todo)) >= maxVersionCount
  <2> DEFINE U == {f \in Newer(e, Unlocked) :
                     Cardinality(Newer(f, Unlocked)) < maxVersionCount}
  <2>1. Unlocked \in SUBSET list /\ e \in Unlocked
    BY <1>3, PartsType
  <2>2. IsFiniteSet(Unlocked) /\ Unlocked \in SUBSET Entries
    BY <2>1, FS_Subset
  <2>3. Cardinality(Newer(e, Unlocked)) >= maxVersionCount /\ maxVersionCount \in Nat
    BY <1>3, BoundsAssumption DEF Many
  <2>4. Cardinality(U) >= maxVersionCount
    BY <2>1, <2>2, <2>3, TopNewer
  <2>5. ASSUME NEW f \in U
        PROVE  f \in Survivors(e, todo)
    <3>1. f \in Unlocked /\ f.name > e.name
      BY DEF Newer
    <3>2. Cardinality(Newer(f, Unlocked)) \in Nat
          /\ Cardinality(Newer(f, Unlocked)) < maxVersionCount
      BY <2>2, FewerNewer
    <3>3. f \in Kept
      BY <2>3, <3>1, <3>2 DEF Kept, Many
    <3>. QED BY <1>3, <2>1, <3>1, <3>3 DEF Survivors
  <2>6. U \in SUBSET Survivors(e, todo)
    BY <2>5
  <2> HIDE DEF U
  <2>. QED BY <2>3, <2>4, <2>6, SurvivorsCount
<1>4. CASE e \in Many
  BY <1>2, <1>3, <1>4
<1>. QED BY <1>1, <1>4, ToDeleteIs

\* The newest entry is spared, unless the number of days wrapped and there is no
\* least number.
LEMMA NewestSpared ==
  ASSUME BoundsAssumption, \A f \in list : f.name \in Nat /\ f.name <= job.name,
         job.name \in Nat, ~ExpiryWraps \/ minSameVersionCount > 0,
         NEW todo \in ToDelete, NEW e \in todo
  PROVE  e.name # job.name
<1>1. SUFFICES ASSUME e.name = job.name
               PROVE  FALSE
  OBVIOUS
<1>2. \A S \in SUBSET list : Cardinality(Newer(e, S)) = 0
  <2>1. \A S \in SUBSET list : Newer(e, S) = {}
    BY <1>1 DEF Newer
  <2>. QED BY <2>1, FS_EmptySet
<1>3. e \notin Many
  BY <1>2, PartsType, BoundsAssumption DEF Many
<1>4. e \notin TooManySame
  <2>1. Same(e, Kept) \in SUBSET list
    BY PartsType DEF Same
  <2>. QED BY <1>2, <2>1, BoundsAssumption DEF TooManySame, Total
<1>5. e \notin Extra
  <2>1. Same(e, Rest) \in SUBSET list
    BY PartsType DEF Same
  <2>. QED BY <1>1, <1>2, <2>1, BoundsAssumption DEF Extra
<1>. QED BY <1>3, <1>4, <1>5, ToDeleteIs

-----------------------------------------------------------------------------
(* Committed backups.                                                      *)

Preparing == {"make", "apk", "descriptor", "data", "meta", "validate", "publish"}
Committed == {"after", "reload", "retain", "delete", "cleanup", "reload again"}
Readable == {"whole", "hollow"}

\* Readable archives newer than e that no deletion of the job will take.
Spared(e) ==
  {m \in Names : /\ m > e.name /\ archives[m].state \in Readable
                 /\ \A f \in job.todo : f.name # m}
Leaves(e) ==
  \/ Cardinality(Spared(e)) >= maxVersionCount
  \/ Cardinality(Spared(e)) >= minSameVersionCount

Asked(n) == archives[n].asked \/ archives[n].state # "whole"

\* Whose labels these are.
KindOK ==
  /\ job.pc \in {"after", "reload", "retain", "reload again"} => job.kind = "snapshot"
  /\ job.pc \in {"delete", "cleanup"} => job.kind \in {"snapshot", "delete"}
  /\ job.pc = "clear" => job.kind = "clear"

\* A backup works on the newest name, and its archive is what the label says.
NameOK ==
  /\ \A n \in Names : n > clock => archives[n].state = "none"
  /\ job.kind = "snapshot" => job.name = clock /\ job.name \in Names
  /\ job.kind = "snapshot" /\ job.pc \in Preparing => archives[job.name].state = "none"
  /\ job.kind = "snapshot" /\ job.pc = "rename" => archives[job.name].state = "moved"
  /\ job.kind = "snapshot" /\ job.pc \in Committed => archives[job.name].state = "whole"

\* What the user's deletions will take was asked for, or is taken.
AskedOK ==
  /\ job.pc \in {"delete", "cleanup"} /\ job.kind = "delete" =>
       \A e \in job.todo : Asked(e.name)
  /\ job.pc = "clear" => \A e \in job.todo \ {NoEntry} : Asked(e.name) /\ e.name <= clock

\* The retention works from a list of what is there, and what it will take leaves
\* enough.
SparedOK ==
  /\ job.pc = "retain" => list \subseteq Listable \cup Doubtful
  /\ job.pc \in {"delete", "cleanup"} => NoEntry \notin job.todo
  /\ job.pc \in {"delete", "cleanup"} /\ job.kind = "snapshot" =>
       \A e \in job.todo : e.name < job.name /\ Leaves(e)

KeepInv == TypeOK /\ KindOK /\ NameOK /\ AskedOK /\ SparedOK

\* A step to where a job relies on no more than before.
LEMMA QuietStep ==
  ASSUME KeepInv, TypeOK', archives' = archives, clock' = clock,
         job'.kind = job.kind, job'.name = job.name,
         job'.pc \notin Committed \cup {"rename", "clear"},
         job'.pc \in Preparing => job.pc \in Preparing
  PROVE  KeepInv'
<1>1. KindOK' /\ AskedOK' /\ SparedOK'
  BY DEF KindOK, AskedOK, SparedOK, Committed
<1>2. NameOK'
  BY DEF KeepInv, NameOK
<1>. QED BY <1>1, <1>2 DEF KeepInv

\* So does a step of nobody.
LEMMA NoStep ==
  ASSUME KeepInv, TypeOK', archives' = archives, clock' = clock, job' = job,
         job.pc = "retain" => list' \subseteq list \cup Listable \cup Doubtful
  PROVE  KeepInv'
<1>1. Listable' = Listable /\ Doubtful' = Doubtful
  BY DEF Listable, Doubtful, Entry
<1>2. \A e : Leaves(e)' = Leaves(e)
  BY DEF Leaves, Spared
<1>3. KindOK' /\ NameOK' /\ AskedOK'
  BY DEF KeepInv, KindOK, NameOK, AskedOK, Asked
<1>4. SparedOK'
  BY <1>1, <1>2 DEF KeepInv, SparedOK
<1>. QED BY <1>3, <1>4 DEF KeepInv

\* A job that ends relies on nothing.
LEMMA EndStep ==
  ASSUME KeepInv, TypeOK', archives' = archives, clock' = clock, job' = NoJob
  PROVE  KeepInv'
<1>1. job'.kind = "none" /\ job'.pc = "none"
  BY DEF NoJob
<1>2. KindOK' /\ NameOK' /\ AskedOK' /\ SparedOK'
  BY <1>1 DEF KeepInv, KindOK, NameOK, AskedOK, SparedOK
<1>. QED BY <1>2 DEF KeepInv

\* The steps of a backup keep the invariant.
LEMMA BackupKeeps ==
  ASSUME KeepInv, Backup
  PROVE  KeepInv'
<1>. TypeOK /\ KindOK /\ NameOK /\ AskedOK /\ SparedOK
  BY DEF KeepInv
<1>1. TypeOK'
  BY BackupType
<1> USE DEF disk
<1>2. CASE BeginBackup
  <2>1. job'.pc = "make" /\ job'.kind = "snapshot" /\ job'.name = clock'
        /\ clock' = clock + 1 /\ clock < MaxArchives /\ archives' = archives
    BY <1>2 DEF BeginBackup, NoJob
  <2>2. clock' \in Names /\ clock \in Nat
    BY <2>1, BoundsAssumption DEF TypeOK, Names
  <2>3. \A n \in Names : n \in Nat
    BY BoundsAssumption DEF Names
  <2>4. \A n \in Names : n > clock => archives[n].state = "none"
    BY DEF NameOK
  <2>5. archives'[job'.name].state = "none"
        /\ \A n \in Names : n > clock' => archives'[n].state = "none"
    BY <2>1, <2>2, <2>3, <2>4
  <2>6. NameOK'
    BY <2>1, <2>2, <2>5 DEF NameOK, Committed
  <2>7. KindOK' /\ AskedOK' /\ SparedOK'
    BY <2>1 DEF KindOK, AskedOK, SparedOK
  <2>. QED BY <1>1, <2>6, <2>7 DEF KeepInv
<1>3. CASE BeginInstance
  <2>1. job'.pc = "make" /\ job'.kind = "instance" /\ archives' = archives /\ clock' = clock
    BY <1>3 DEF BeginInstance, NoJob
  <2>2. KindOK' /\ AskedOK' /\ SparedOK' /\ NameOK'
    BY <2>1 DEF KindOK, AskedOK, SparedOK, NameOK
  <2>. QED BY <1>1, <2>2 DEF KeepInv
<1>4. CASE Make \/ CompressApk \/ WriteDescriptor \/ CompressData \/ WriteMetadata
           \/ Validate
  <2>1. archives' = archives /\ clock' = clock /\ job.pc \in Preparing
    BY <1>4 DEF Make, CompressApk, WriteDescriptor, CompressData, WriteMetadata,
                Validate, At, Preparing
  <2>2. job'.kind = job.kind /\ job'.name = job.name
        /\ job'.pc \in Preparing \cup {"abort", "finish"}
    <3>1. job \in JobRecords
      BY DEF TypeOK
    <3>2. CASE Make
      BY <3>1, <3>2 DEF Make, Goto, JobRecords, Preparing
    <3>3. CASE CompressApk \/ WriteDescriptor \/ CompressData \/ WriteMetadata \/ Validate
      BY <3>1, <3>3 DEF CompressApk, WriteDescriptor, CompressData, WriteMetadata,
                        Validate, Goto, Failed, JobRecords, Preparing
    <3>. QED BY <1>4, <3>2, <3>3
  <2>. QED BY <1>1, <2>1, <2>2, QuietStep DEF Committed, Preparing
<1>5. CASE Publish
  <2>1. job.pc = "publish" /\ clock' = clock
    BY <1>5 DEF Publish, At
  <2>2. CASE Goto(Failed) /\ archives' = archives
    <3>1. job'.kind = job.kind /\ job'.name = job.name /\ job'.pc \in {"abort", "finish"}
      BY <2>2, GotoIs DEF Failed
    <3>. QED BY <1>1, <2>1, <2>2, <3>1, QuietStep DEF Committed, Preparing
  <2>3. ASSUME Goto("rename"), job.kind = "instance", archives' = archives
        PROVE  KeepInv'
    <3>1. job'.kind = "instance" /\ job'.pc = "rename"
      BY <2>3, GotoIs
    <3>2. KindOK' /\ AskedOK' /\ SparedOK' /\ NameOK'
      BY <2>1, <2>3, <3>1 DEF KindOK, AskedOK, SparedOK, NameOK
    <3>. QED BY <1>1, <3>2 DEF KeepInv
  <2>4. ASSUME Goto("rename"), job.kind = "snapshot",
               archives' = [archives EXCEPT ![job.name] =
                              [Gone EXCEPT !.state = "moved", !.version = staged.apk]]
        PROVE  KeepInv'
    <3>1. job'.kind = "snapshot" /\ job'.pc = "rename" /\ job'.name = job.name
      BY <2>4, GotoIs
    <3>2. job.name \in Names /\ job.name = clock
      BY <2>4 DEF NameOK
    <3>3. /\ archives'[job.name].state = "moved"
          /\ \A n \in Names : n # job.name => archives'[n] = archives[n]
      BY <2>4, <3>2 DEF TypeOK, Gone
    <3>4. \A n \in Names : n > clock => n # job.name
      BY <3>2, BoundsAssumption DEF Names
    <3>5. NameOK'
      BY <2>1, <3>1, <3>2, <3>3, <3>4 DEF NameOK, Preparing, Committed
    <3>6. KindOK' /\ AskedOK' /\ SparedOK'
      BY <3>1 DEF KindOK, AskedOK, SparedOK
    <3>. QED BY <1>1, <3>5, <3>6 DEF KeepInv
  <2>. QED BY <1>5, <2>2, <2>3, <2>4 DEF Publish
<1>6. CASE Rename
  <2>1. job.pc = "rename" /\ job.kind = "snapshot" /\ clock' = clock
        /\ job.name \in Names /\ job.name = clock
    BY <1>6 DEF Rename, At, NameOK
  <2>2. \A n \in Names : n > clock => n # job.name
    BY <2>1, BoundsAssumption DEF Names
  <2>3. \A n \in Names : n # job.name => archives'[n] = archives[n]
    BY <1>6, <2>1 DEF Rename, TypeOK
  <2>4. ASSUME Goto("after"), archives' = [archives EXCEPT ![job.name].state = "whole"]
        PROVE  KeepInv'
    <3>1. job'.kind = "snapshot" /\ job'.pc = "after" /\ job'.name = job.name
      BY <2>1, <2>4, GotoIs
    <3>2. archives'[job.name].state = "whole"
      BY <2>1, <2>4 DEF TypeOK, Archives
    <3>3. NameOK'
      BY <2>1, <2>2, <2>3, <3>1, <3>2 DEF NameOK, Preparing, Committed
    <3>4. KindOK' /\ AskedOK' /\ SparedOK'
      BY <3>1 DEF KindOK, AskedOK, SparedOK
    <3>. QED BY <1>1, <3>3, <3>4 DEF KeepInv
  <2>5. ASSUME Goto("finish")
        PROVE  KeepInv'
    <3>1. job'.kind = "snapshot" /\ job'.pc = "finish" /\ job'.name = job.name
      BY <2>1, <2>5, GotoIs
    <3>2. NameOK'
      BY <2>1, <2>2, <2>3, <3>1 DEF NameOK, Preparing, Committed
    <3>3. KindOK' /\ AskedOK' /\ SparedOK'
      BY <3>1 DEF KindOK, AskedOK, SparedOK
    <3>. QED BY <1>1, <3>2, <3>3 DEF KeepInv
  <2>. QED BY <1>6, <2>4, <2>5 DEF Rename
<1>7. CASE RenameInstance \/ CommitInstance \/ Abort
  <2>1. archives' = archives /\ clock' = clock
        /\ (Goto("commit") \/ Goto("finish"))
    BY <1>7 DEF RenameInstance, CommitInstance, Abort
  <2>2. job'.kind = job.kind /\ job'.name = job.name /\ job'.pc \in {"commit", "finish"}
    BY <2>1, GotoIs
  <2>. QED BY <1>1, <2>1, <2>2, QuietStep DEF Committed, Preparing
<1>8. CASE AfterCommit
  <2>1. archives' = archives /\ clock' = clock /\ job.pc = "after"
    BY <1>8 DEF AfterCommit, At
  <2>2. ASSUME Goto("reload")
        PROVE  KeepInv'
    <3>1. job'.kind = job.kind /\ job'.name = job.name /\ job'.pc = "reload"
      BY <2>2, GotoIs
    <3>2. KindOK' /\ NameOK'
      BY <2>1, <3>1 DEF KindOK, NameOK, Committed, Preparing
    <3>3. AskedOK' /\ SparedOK'
      BY <3>1 DEF AskedOK, SparedOK
    <3>. QED BY <1>1, <3>2, <3>3 DEF KeepInv
  <2>3. ASSUME Goto("finish")
        PROVE  KeepInv'
    <3>1. job'.kind = job.kind /\ job'.name = job.name /\ job'.pc = "finish"
      BY <2>3, GotoIs
    <3>. QED BY <1>1, <2>1, <3>1, QuietStep DEF Committed, Preparing
  <2>. QED BY <1>8, <2>2, <2>3 DEF AfterCommit
<1>. QED BY <1>2, <1>3, <1>4, <1>5, <1>6, <1>7, <1>8 DEF Backup

\* A name is listed once.
LEMMA OncePerName ==
  ASSUME TypeOK, NEW f \in Listable \cup Doubtful
  PROVE  f.name \in Names /\ f = Entry(f.name) /\ archives[f.name].state \in Readable
BY EntryType DEF Listable, Doubtful, Readable

\* What is there is finite.
LEMMA ListFinite ==
  ASSUME TypeOK, list \subseteq Listable \cup Doubtful
  PROVE  IsFiniteSet(list)
<1> DEFINE E == {Entry(n) : n \in Names}
           g == [n \in Names |-> Entry(n)]
<1>1. g \in Surjection(Names, E)
  BY DEF Surjection
<1>2. IsFiniteSet(Names)
  BY FS_Interval, BoundsAssumption DEF Names
<1>3. IsFiniteSet(E)
  <2> HIDE DEF E, g
  <2> QED BY <1>1, <1>2, FS_Surjection
<1>4. list \in SUBSET E
  BY DEF Listable, Doubtful
<1> HIDE DEF E
<1>. QED BY <1>3, <1>4, FS_Subset

\* The entries that survive are archives that do.
LEMMA SurvivorsAreSpared ==
  ASSUME TypeOK, list \subseteq Listable \cup Doubtful, IsFiniteSet(list),
         NEW e \in list, NEW todo \in SUBSET list,
         NEW S, S = {m \in Names : /\ m > e.name /\ archives[m].state \in Readable
                                   /\ \A f \in todo : f.name # m}
  PROVE  /\ Cardinality(Survivors(e, todo)) <= Cardinality(S)
         /\ Cardinality(Survivors(e, todo)) \in Nat /\ Cardinality(S) \in Nat
<1> DEFINE g == [f \in Survivors(e, todo) |-> f.name]
<1>1. \A f \in list : f.name \in Names /\ f = Entry(f.name)
                      /\ archives[f.name].state \in Readable
  BY OncePerName
<1>2. \A f \in Survivors(e, todo) : f.name \in S
  BY <1>1 DEF Survivors
<1>3. \A f, h \in Survivors(e, todo) : f.name = h.name => f = h
  BY <1>1 DEF Survivors
<1>4. g \in Injection(Survivors(e, todo), S)
  BY <1>2, <1>3 DEF Injection, IsInjective
<1>5. IsFiniteSet(S) /\ IsFiniteSet(Survivors(e, todo))
  <2>1. IsFiniteSet(Names)
    BY FS_Interval, BoundsAssumption DEF Names
  <2>2. S \in SUBSET Names /\ Survivors(e, todo) \in SUBSET list
    BY DEF Survivors
  <2>. QED BY <2>1, <2>2, FS_Subset
<1> HIDE DEF g
<1>. QED BY <1>4, <1>5, FS_Injection, FS_CardinalityType

\* What the retention will take leaves enough, and is not what the job made.
LEMMA RetainLeaves ==
  ASSUME KeepInv, job.pc = "retain", ~ExpiryWraps \/ minSameVersionCount > 0,
         NEW todo \in ToDelete, archives' = archives,
         job' = [job EXCEPT !.pc = "delete", !.todo = todo], NEW e \in todo
  PROVE  e.name < job.name /\ Leaves(e)'
<1>1. /\ TypeOK /\ list \subseteq Listable \cup Doubtful
      /\ job.kind = "snapshot" /\ job.name = clock /\ job.name \in Names
      /\ \A n \in Names : n > clock => archives[n].state = "none"
  BY DEF KeepInv, KindOK, NameOK, SparedOK
<1>2. IsFiniteSet(list) /\ todo \in SUBSET list /\ list \in SUBSET Entries
  BY <1>1, ListFinite, ToDeleteType DEF TypeOK
<1>3. \A f \in list : f.name \in Nat /\ f.name <= job.name
  <2>1. \A f \in list : f.name \in Names /\ archives[f.name].state \in Readable
    BY <1>1, OncePerName
  <2>. QED BY <1>1, <2>1, BoundsAssumption DEF Readable, Names
<1>4. e.name # job.name
  <2>1. job.name \in Nat
    BY <1>1, BoundsAssumption DEF Names
  <2>. QED BY <1>3, <2>1, BoundsAssumption, NewestSpared
<1>5. job'.todo = todo
  BY <1>1 DEF TypeOK, JobRecords
<1> DEFINE S == {m \in Names : /\ m > e.name /\ archives[m].state \in Readable
                               /\ \A f \in todo : f.name # m}
<1>6. Spared(e)' = S
  BY <1>5 DEF Spared
<1>7. /\ Cardinality(Survivors(e, todo)) <= Cardinality(S)
      /\ Cardinality(Survivors(e, todo)) \in Nat /\ Cardinality(S) \in Nat
  BY <1>1, <1>2, SurvivorsAreSpared
<1>8. \/ Cardinality(Survivors(e, todo)) >= maxVersionCount
      \/ Cardinality(Survivors(e, todo)) >= minSameVersionCount
  BY <1>2, BoundsAssumption, RetentionLeaves
<1>9. Leaves(e)'
  <2>1. Cardinality(S) >= maxVersionCount \/ Cardinality(S) >= minSameVersionCount
    <3> HIDE DEF S
    <3> QED BY <1>7, <1>8, BoundsAssumption
  <2>. QED BY <1>6, <2>1 DEF Leaves
<1>. QED BY <1>1, <1>2, <1>3, <1>4, <1>9, BoundsAssumption DEF Names

\* What leaves enough goes on to do so when what the job will take is taken.
LEMMA LeavesOn ==
  ASSUME TypeOK, NEW e, Leaves(e), job'.todo \subseteq job.todo,
         \A m \in Names : archives[m].state \in Readable
                          /\ (\A f \in job.todo : f.name # m)
                            => archives'[m].state \in Readable
  PROVE  Leaves(e)'
<1>1. Spared(e) \in SUBSET Spared(e)'
  BY DEF Spared
<1>2. IsFiniteSet(Spared(e)')
  <2>1. IsFiniteSet(Names) /\ Spared(e)' \in SUBSET Names
    BY FS_Interval, BoundsAssumption DEF Names, Spared
  <2>. QED BY <2>1, FS_Subset
<1>3. /\ Cardinality(Spared(e)) <= Cardinality(Spared(e)')
      /\ Cardinality(Spared(e)) \in Nat /\ Cardinality(Spared(e)') \in Nat
  BY <1>1, <1>2, FS_Subset, FS_CardinalityType
<1>4. Leaves(e)' <=> \/ Cardinality(Spared(e)') >= maxVersionCount
                     \/ Cardinality(Spared(e)') >= minSameVersionCount
  BY DEF Leaves
<1>. QED BY <1>3, <1>4, BoundsAssumption DEF Leaves

\* A deletion makes no archive whole, and changes none but its own.
Takes(n) ==
  /\ \A m \in Names : m # n => archives'[m] = archives[m]
  /\ \A m \in Names : Asked(m) => Asked(m)'

LEMMA TakesOne ==
  ASSUME TypeOK, NEW n \in Names,
         \/ archives' = [archives EXCEPT ![n] = Gone]
         \/ \E s \in Torn(n) \cup {archives[n].state} :
              archives' = [archives EXCEPT ![n].state = s]
  PROVE  Takes(n)
<1>1. \A m \in Names : m # n => archives'[m] = archives[m]
  BY DEF TypeOK
<1>2. \A m \in Names : archives'[m].state = "whole" =>
                         /\ archives[m].state = "whole"
                         /\ archives'[m].asked = archives[m].asked
  BY DeletedIs
<1>. QED BY <1>1, <1>2 DEF Takes, Asked

\* The steps of a deletion keep the invariant.
LEMMA DeletionKeeps ==
  ASSUME KeepInv, Deletion, ~ExpiryWraps \/ minSameVersionCount > 0
  PROVE  KeepInv'
<1>. TypeOK /\ KindOK /\ NameOK /\ AskedOK /\ SparedOK
  BY DEF KeepInv
<1>1. TypeOK'
  BY DeletionType
<1> USE DEF disk
<1>2. CASE ReloadInJob
  <2>1. archives' = archives /\ clock' = clock
    BY <1>2 DEF ReloadInJob
  <2>2. ASSUME job.pc = "reload again", Goto("finish")
        PROVE  KeepInv'
    <3>1. job'.kind = job.kind /\ job'.name = job.name /\ job'.pc = "finish"
      BY <2>2, GotoIs
    <3>. QED BY <1>1, <2>1, <3>1, QuietStep DEF Committed, Preparing
  <2>3. ASSUME job.pc = "reload", Goto("retain")
        PROVE  KeepInv'
    <3>1. job'.kind = job.kind /\ job'.name = job.name /\ job'.pc = "retain"
      BY <2>3, GotoIs
    <3>2. KindOK' /\ NameOK' /\ AskedOK'
      BY <2>1, <2>3, <3>1 DEF KindOK, NameOK, AskedOK, Committed, Preparing
    <3>3. list' \subseteq Listable \cup Doubtful
      BY <1>2 DEF ReloadInJob, Reload
    <3>4. Listable' = Listable /\ Doubtful' = Doubtful
      BY <2>1 DEF Listable, Doubtful, Entry
    <3>5. SparedOK'
      BY <3>1, <3>3, <3>4 DEF SparedOK
    <3>. QED BY <1>1, <3>2, <3>5 DEF KeepInv
  <2>. QED BY <1>2, <2>2, <2>3 DEF ReloadInJob, At
<1>3. CASE Retain
  <2>1. archives' = archives /\ clock' = clock /\ job.pc = "retain" /\ job.kind = "snapshot"
    BY <1>3 DEF Retain, At, KindOK
  <2>2. ASSUME Goto("finish")
        PROVE  KeepInv'
    <3>1. job'.kind = job.kind /\ job'.name = job.name /\ job'.pc = "finish"
      BY <2>2, GotoIs
    <3>. QED BY <1>1, <2>1, <3>1, QuietStep DEF Committed, Preparing
  <2>3. ASSUME NEW todo \in ToDelete, job' = [job EXCEPT !.pc = "delete", !.todo = todo]
        PROVE  KeepInv'
    <3>1. job'.kind = "snapshot" /\ job'.name = job.name /\ job'.pc = "delete"
          /\ job'.todo = todo
      BY <2>1, <2>3 DEF TypeOK, JobRecords
    <3>2. KindOK' /\ NameOK' /\ AskedOK'
      BY <2>1, <3>1 DEF KindOK, NameOK, AskedOK, Committed, Preparing
    <3>3. \A e \in todo : e.name < job.name /\ Leaves(e)'
      BY <2>1, <2>3, RetainLeaves
    <3>4. NoEntry \notin todo
      BY ToDeleteType, NoEntryType DEF TypeOK
    <3>5. SparedOK'
      BY <3>1, <3>3, <3>4 DEF SparedOK
    <3>. QED BY <1>1, <3>2, <3>5 DEF KeepInv
  <2>. QED BY <1>3, <2>2, <2>3 DEF Retain
<1>4. CASE BeginDelete
  <2>1. PICK e \in list :
           /\ job' = [NoJob EXCEPT !.kind = "delete", !.pc = "delete", !.todo = {e}]
           /\ archives' = [archives EXCEPT ![e.name].asked = TRUE]
    BY <1>4 DEF BeginDelete
  <2>2. e \in Entries /\ e.name \in Names
    BY DEF TypeOK, Entries
  <2>3. job'.kind = "delete" /\ job'.pc = "delete" /\ job'.todo = {e} /\ clock' = clock
    BY <1>4, <2>1 DEF BeginDelete, NoJob
  <2>4. archives'[e.name].asked /\ \A n \in Names : archives'[n].state = archives[n].state
    BY <2>1, <2>2 DEF TypeOK, Archives
  <2>5. KindOK' /\ NameOK' /\ AskedOK' /\ SparedOK'
    BY <2>2, <2>3, <2>4, NoEntryType DEF KindOK, NameOK, AskedOK, Asked, SparedOK
  <2>. QED BY <1>1, <2>5 DEF KeepInv
<1>5. CASE DeleteArchive
  <2>1. PICK e \in job.todo :
           \/ /\ archives' = [archives EXCEPT ![e.name] = Gone]
              /\ job' = [job EXCEPT !.pc = "cleanup", !.todo = @ \ {e}, !.victim = e]
           \/ /\ archives[e.name].state # "none"
              /\ \E s \in Torn(e.name) \cup {archives[e.name].state} :
                   archives' = [archives EXCEPT ![e.name].state = s]
              /\ job' = [job EXCEPT !.todo = @ \ {e}]
    BY <1>5 DEF DeleteArchive
  <2>2. job.pc = "delete" /\ clock' = clock
    BY <1>5 DEF DeleteArchive, At
  <2>3. e \in Entries /\ e.name \in Names /\ NoEntry \notin job.todo
        /\ job.todo \subseteq Entries
    BY <2>2 DEF TypeOK, JobRecords, Entries, SparedOK
  <2>4. Takes(e.name)
    BY <2>1, <2>3, TakesOne
  <2>5. job'.kind = job.kind /\ job'.name = job.name /\ job'.pc \in {"delete", "cleanup"}
        /\ job'.todo = job.todo \ {e}
    BY <2>1, <2>2 DEF TypeOK, JobRecords
  <2>6. archives[e.name].state = "none" => archives'[e.name].state = "none"
    BY <2>1, <2>3 DEF TypeOK, Gone
  <2>7. KindOK'
    BY <2>2, <2>5 DEF KindOK
  <2>8. NameOK'
    <3>1. \A n \in Names : n > clock' => archives'[n].state = "none"
      BY <2>2, <2>4, <2>6 DEF NameOK, Takes
    <3>2. job.kind = "snapshot" => e.name # job.name
      BY <2>2, <2>3, BoundsAssumption DEF SparedOK, NameOK, Names
    <3>. QED BY <2>2, <2>4, <2>5, <3>1, <3>2 DEF NameOK, Takes, Committed, Preparing
  <2>9. AskedOK'
    <3>1. \A f \in job.todo : f.name \in Names
      BY <2>3 DEF Entries
    <3>. QED BY <2>2, <2>4, <2>5, <3>1 DEF AskedOK, Takes
  <2>10. SparedOK'
    <3>1. ASSUME job.kind = "snapshot", NEW f \in job.todo
          PROVE  f.name < job.name /\ Leaves(f)'
      <4>1. f.name < job.name /\ Leaves(f)
        BY <2>2, <3>1 DEF SparedOK
      <4>2. \A m \in Names : (\A h \in job.todo : h.name # m) => archives'[m] = archives[m]
        BY <2>4 DEF Takes
      <4>. QED BY <2>5, <4>1, <4>2, LeavesOn
    <3>. QED BY <2>2, <2>3, <2>5, <3>1 DEF SparedOK
  <2>. QED BY <1>1, <2>7, <2>8, <2>9, <2>10 DEF KeepInv
<1>6. CASE CleanupApks
  <2>1. job.pc = "cleanup" /\ archives' = archives /\ clock' = clock
    BY <1>6 DEF CleanupApks, At
  <2>2. job'.kind = job.kind /\ job'.name = job.name /\ job'.pc = "delete"
        /\ job'.todo = job.todo
    BY <1>6 DEF CleanupApks, TypeOK, JobRecords
  <2>3. KindOK' /\ NameOK' /\ AskedOK'
    BY <2>1, <2>2 DEF KindOK, NameOK, AskedOK, Asked, Committed, Preparing
  <2>4. \A f : Leaves(f)' = Leaves(f)
    BY <2>1, <2>2 DEF Leaves, Spared
  <2>5. SparedOK'
    BY <2>1, <2>2, <2>4 DEF SparedOK
  <2>. QED BY <1>1, <2>3, <2>5 DEF KeepInv
<1>7. CASE DeletedAll
  <2>1. job.pc = "delete" /\ archives' = archives /\ clock' = clock
    BY <1>7 DEF DeletedAll, At
  <2>2. job'.kind = job.kind /\ job'.name = job.name
        /\ job'.pc = (IF job.kind = "snapshot" THEN "reload again" ELSE "finish")
    BY <1>7, GotoIs DEF DeletedAll
  <2>3. KindOK' /\ NameOK' /\ AskedOK' /\ SparedOK'
    BY <2>1, <2>2 DEF KindOK, NameOK, AskedOK, SparedOK, Committed, Preparing
  <2>. QED BY <1>1, <2>3 DEF KeepInv
<1>8. CASE BeginClear
  <2> DEFINE there == {n \in Names : archives[n].state # "none"}
  <2>1. /\ job' = [NoJob EXCEPT !.kind = "clear", !.pc = "clear",
                     !.todo = {Entry(n) : n \in there}
                              \cup (IF slot = NoSlot THEN {NoEntry} ELSE {})]
        /\ archives' = [n \in Names |-> [archives[n] EXCEPT !.asked = n \in there]]
        /\ clock' = clock
    BY <1>8 DEF BeginClear
  <2>2. job'.kind = "clear" /\ job'.pc = "clear"
        /\ job'.todo \subseteq {Entry(n) : n \in there} \cup {NoEntry}
    BY <2>1 DEF NoJob
  <2>3. \A n \in Names : archives'[n].state = archives[n].state
                         /\ (n \in there => archives'[n].asked)
    BY <2>1 DEF TypeOK, Archives
  <2>4. \A e \in job'.todo \ {NoEntry} : e.name \in there
    BY <2>2, EntryType
  <2>5. \A n \in there : n <= clock
    BY BoundsAssumption DEF NameOK, TypeOK, Names
  <2>6. KindOK' /\ NameOK' /\ SparedOK'
    BY <2>1, <2>2, <2>3 DEF KindOK, NameOK, SparedOK
  <2>7. AskedOK'
    BY <2>1, <2>2, <2>3, <2>4, <2>5 DEF AskedOK, Asked
  <2>. QED BY <1>1, <2>6, <2>7 DEF KeepInv
<1>9. CASE ClearEntry
  <2>1. PICK e \in job.todo :
           /\ job' = [job EXCEPT !.todo = @ \ {e}]
           /\ \/ /\ e # NoEntry
                 /\ \/ archives' = [archives EXCEPT ![e.name] = Gone]
                    \/ \E s \in Torn(e.name) :
                         archives' = [archives EXCEPT ![e.name].state = s]
              \/ e = NoEntry /\ archives' = archives
    BY <1>9 DEF ClearEntry
  <2>2. job.pc = "clear" /\ clock' = clock
    BY <1>9 DEF ClearEntry, At
  <2>3. job'.kind = job.kind /\ job'.name = job.name /\ job'.pc = "clear"
        /\ job'.todo = job.todo \ {e}
    BY <2>1, <2>2 DEF TypeOK, JobRecords
  <2>4. \A f \in job.todo \ {NoEntry} : f.name \in Names
    BY DEF TypeOK, JobRecords, Entries
  <2>5. \A n \in Names : Asked(n) => Asked(n)'
    <3>1. CASE archives' = archives
      BY <3>1 DEF Asked
    <3>2. CASE e # NoEntry
      BY <2>1, <2>4, <3>2, TakesOne DEF Takes
    <3>. QED BY <2>1, <3>1, <3>2
  <2>6. \A n \in Names : n > clock => archives'[n] = archives[n]
    <3>1. CASE archives' = archives
      BY <3>1
    <3>2. CASE e # NoEntry
      <4>1. Takes(e.name) /\ e.name \in Names /\ e.name <= clock
        BY <2>1, <2>2, <2>4, <3>2, TakesOne DEF AskedOK
      <4>. QED BY <4>1, BoundsAssumption DEF Takes, TypeOK, Names
    <3>. QED BY <2>1, <3>1, <3>2
  <2>7. job.kind # "snapshot"
    BY <2>2 DEF KindOK
  <2>8. KindOK' /\ NameOK' /\ SparedOK'
    BY <2>2, <2>3, <2>6, <2>7 DEF KindOK, NameOK, SparedOK
  <2>9. AskedOK'
    BY <2>2, <2>3, <2>4, <2>5 DEF AskedOK
  <2>. QED BY <1>1, <2>8, <2>9 DEF KeepInv
<1>10. CASE ClearedAll
  <2>1. archives' = archives /\ clock' = clock /\ Goto("finish")
    BY <1>10 DEF ClearedAll
  <2>2. job'.kind = job.kind /\ job'.name = job.name /\ job'.pc = "finish"
    BY <2>1, GotoIs
  <2>. QED BY <1>1, <2>1, <2>2, QuietStep DEF Committed, Preparing
<1>11. CASE DeleteInstance
  BY <1>1, <1>11, NoStep DEF DeleteInstance
<1>. QED BY <1>2, <1>3, <1>4, <1>5, <1>6, <1>7, <1>8, <1>9, <1>10, <1>11 DEF Deletion

\* So do the other steps.
LEMMA RestKeeps ==
  ASSUME KeepInv, Finish \/ Viewing \/ ChangePackage \/ Die \/ UNCHANGED vars
  PROVE  KeepInv'
<1>1. TypeOK'
  <2>1. TypeOK
    BY DEF KeepInv
  <2>. QED BY <2>1, NextType DEF Next
<1> USE DEF disk
<1>2. CASE Finish \/ Die
  BY <1>1, <1>2, EndStep DEF Finish, Die
<1>3. CASE OpenMenu \/ ListNames \/ ChangePackage \/ UNCHANGED vars
  BY <1>1, <1>3, NoStep DEF OpenMenu, ListNames, ChangePackage, vars
<1>4. CASE ClearList
  BY <1>1, <1>4, NoStep DEF ClearList
<1>5. CASE ReadArchive
  <2>1. list' \subseteq list \cup Listable \cup Doubtful
    BY <1>5 DEF ReadArchive
  <2>. QED BY <1>1, <1>5, <2>1, NoStep DEF ReadArchive
<1>. QED BY <1>2, <1>3, <1>4, <1>5 DEF Viewing

\* It holds at first.
LEMMA KeepInit ==
  ASSUME Init
  PROVE  KeepInv
<1>1. job.kind = "none" /\ job.pc = "none" /\ \A n \in Names : archives[n].state = "none"
  BY DEF Init, NoJob, Gone
<1>2. KindOK /\ NameOK /\ AskedOK /\ SparedOK
  BY <1>1 DEF KindOK, NameOK, AskedOK, SparedOK
<1>. QED BY <1>2, InitType DEF KeepInv

\* Every step keeps the invariant, if the retention never takes the backup it
\* follows for an expired one.
LEMMA KeepNext ==
  ASSUME KeepInv, [Next]_vars, ~ExpiryWraps \/ minSameVersionCount > 0
  PROVE  KeepInv'
BY BackupKeeps, DeletionKeeps, RestKeeps DEF Next

\* What a step may do to a whole archive nobody asked to delete.
LEMMA OnlyTheRetention ==
  ASSUME KeepInv, [Next]_vars, NEW n \in Names,
         archives[n].state = "whole", archives'[n].state # "whole", ~archives[n].asked
  PROVE  /\ job.pc = "delete" /\ job.kind = "snapshot"
         /\ \E e \in job.todo : e.name = n
<1>. TypeOK /\ KindOK /\ NameOK /\ AskedOK /\ SparedOK
  BY DEF KeepInv
<1>1. archives' # archives
  OBVIOUS
<1>2. CASE Publish \/ Rename
  <2>1. \A m \in Names : m # job.name => archives'[m] = archives[m]
    BY <1>1, <1>2 DEF Publish, Rename, disk, TypeOK
  <2>2. job.kind = "snapshot" /\ job.pc \in {"publish", "rename"}
    BY <1>1, <1>2 DEF Publish, Rename, At
  <2>3. archives[job.name].state # "whole"
    BY <2>2 DEF NameOK, Preparing
  <2>. QED BY <2>1, <2>3
<1>3. CASE BeginDelete \/ BeginClear
  <2>1. CASE BeginClear
    BY <2>1 DEF BeginClear, TypeOK, Archives
  <2>2. ASSUME NEW e \in list, archives' = [archives EXCEPT ![e.name].asked = TRUE]
        PROVE  FALSE
    <3>1. e.name \in Names
      BY DEF TypeOK, Entries
    <3>. QED BY <2>2, <3>1 DEF TypeOK, Archives
  <2>. QED BY <1>3, <2>1, <2>2 DEF BeginDelete
<1>4. CASE ClearEntry
  <2>1. PICK e \in job.todo \ {NoEntry} :
           \/ archives' = [archives EXCEPT ![e.name] = Gone]
           \/ \E s \in Torn(e.name) : archives' = [archives EXCEPT ![e.name].state = s]
    BY <1>1, <1>4 DEF ClearEntry
  <2>2. e.name = n
    BY <2>1 DEF TypeOK
  <2>. QED BY <1>4, <2>1, <2>2 DEF ClearEntry, At, AskedOK, Asked
<1>5. CASE DeleteArchive
  <2>1. job.pc = "delete"
    BY <1>5 DEF DeleteArchive, At
  <2>2. PICK e \in job.todo :
           \/ archives' = [archives EXCEPT ![e.name] = Gone]
           \/ \E s \in Torn(e.name) \cup {archives[e.name].state} :
                archives' = [archives EXCEPT ![e.name].state = s]
    BY <1>5 DEF DeleteArchive
  <2>3. e.name = n
    BY <2>2 DEF TypeOK
  <2>. QED BY <2>1, <2>2, <2>3 DEF KindOK, AskedOK, Asked
<1>. QED BY <1>1, <1>2, <1>3, <1>4, <1>5
  DEF Next, Backup, Deletion, Viewing, BeginBackup, BeginInstance, Make, CompressApk,
      WriteDescriptor, CompressData, WriteMetadata, Validate, RenameInstance,
      CommitInstance, AfterCommit, Abort, ReloadInJob, Retain, CleanupApks, DeletedAll,
      ClearedAll, DeleteInstance, Finish, OpenMenu, ListNames, ClearList, ReadArchive,
      ChangePackage, Die, vars, disk

\* The retention takes an archive only if it leaves the one it follows and as many
\* newer ones as the policy keeps.
LEMMA EnoughIsLeft ==
  ASSUME KeepInv, NEW n \in Names, job.pc = "delete", job.kind = "snapshot",
         NEW e \in job.todo, e.name = n,
         NEW newer,
         newer = {m \in Names : m > n /\ archives[m].state \in {"whole", "hollow"}}
  PROVE  /\ job.name \in newer /\ archives[job.name].state = "whole"
         /\ \/ Cardinality(newer) >= maxVersionCount
            \/ Cardinality(newer) >= minSameVersionCount
<1>1. job.name \in Names /\ archives[job.name].state = "whole"
  BY DEF KeepInv, NameOK, Committed
<1>2. e.name < job.name /\ Leaves(e)
  BY DEF KeepInv, SparedOK
<1>3. job.name \in newer
  BY <1>1, <1>2, BoundsAssumption DEF Names
<1>4. Spared(e) \in SUBSET newer
  BY DEF Spared, Readable
<1>5. IsFiniteSet(newer)
  <2>1. IsFiniteSet(Names) /\ newer \in SUBSET Names
    BY FS_Interval, BoundsAssumption DEF Names
  <2>. QED BY <2>1, FS_Subset
<1>6. /\ Cardinality(Spared(e)) <= Cardinality(newer)
      /\ Cardinality(Spared(e)) \in Nat /\ Cardinality(newer) \in Nat
  BY <1>4, <1>5, FS_Subset, FS_CardinalityType
<1>. QED BY <1>1, <1>2, <1>3, <1>6, BoundsAssumption DEF Leaves

\* A committed backup is lost only to the user's deletion, or to a retention that
\* leaves the backup it follows and as many newer ones as the policy keeps;
\* whatever fails, dies or reloads meanwhile.  The retention must not take the
\* backup it follows for an expired one: the days do not wrap, or the policy has a
\* least number per version.
THEOREM CommittedKept ==
  ~ExpiryWraps \/ minSameVersionCount > 0 => (Spec => CommittedSurvives)
<1>. SUFFICES ASSUME ~ExpiryWraps \/ minSameVersionCount > 0
              PROVE  Spec => CommittedSurvives
  OBVIOUS
<1>1. Spec => []KeepInv
  <2>1. KeepInv /\ [Next]_vars => KeepInv'
    BY KeepNext
  <2>. QED BY <2>1, KeepInit, PTL DEF Spec
<1>2. ASSUME KeepInv, [Next]_vars
      PROVE  [\A n \in Names :
                archives[n].state = "whole" /\ archives'[n].state # "whole" =>
                  \/ archives[n].asked
                  \/ LET newer == {m \in Names : m > n /\ archives[m].state \in {"whole", "hollow"}}
                     IN /\ job.kind = "snapshot" /\ job.name \in newer
                        /\ archives[job.name].state = "whole"
                        /\ \/ Cardinality(newer) >= maxVersionCount
                           \/ Cardinality(newer) >= minSameVersionCount]_vars
  <2>1. SUFFICES ASSUME NEW n \in Names, archives[n].state = "whole",
                        archives'[n].state # "whole", ~archives[n].asked,
                        NEW newer,
                        newer = {m \in Names : /\ m > n
                                               /\ archives[m].state \in {"whole", "hollow"}}
                 PROVE  /\ job.kind = "snapshot" /\ job.name \in newer
                        /\ archives[job.name].state = "whole"
                        /\ \/ Cardinality(newer) >= maxVersionCount
                           \/ Cardinality(newer) >= minSameVersionCount
    OBVIOUS
  <2>2. job.pc = "delete" /\ job.kind = "snapshot" /\ \E e \in job.todo : e.name = n
    BY <1>2, <2>1, OnlyTheRetention
  <2>. QED BY <1>2, <2>1, <2>2, EnoughIsLeft
<1>. QED BY <1>1, <1>2, PTL DEF Spec, CommittedSurvives
==============================================================================
