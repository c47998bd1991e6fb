---------------------------- MODULE SuspendTracker ----------------------------
(***************************************************************************)
(* Packages are suspended while they are saved.  AppStatusHelper suspends  *)
(* and releases, AppSuspendTracker keeps a record that outlives the        *)
(* process, and a thread started with the app releases what the record     *)
(* still holds.  The guard of a card is returned before its package is     *)
(* released, and the record is changed by a read and a later write, so     *)
(* that operations and the recovery overlap; torn names the packages whose *)
(* record such an overlap may have cost.                                   *)
(***************************************************************************)
EXTENDS Naturals, FiniteSets

CONSTANTS
  Packages,
  Jobs,       \* operations on cards: a snapshot, or one of InstanceStore
  Recovery,   \* the thread of SnapshotApp
  PackageOf,  \* the package of a job
  CardOf,     \* the card of a job; a package has one in each of its groups
  MaxFaults,  \* bound on failing calls
  MaxDeaths   \* bound on deaths of the app

ASSUME JobsAssumption ==
  /\ Recovery \notin Jobs /\ PackageOf \in [Jobs -> Packages]
  /\ MaxFaults \in Nat /\ MaxDeaths \in Nat

Actors == Jobs \cup {Recovery}

VARIABLES
  installed,  \* the packages that are installed
  suspended,  \* the packages suspended by the app
  marks,      \* the record
  running,    \* whether the app runs
  at,         \* where an actor is
  copy,       \* the record as an actor read it
  current,    \* the package the recovery releases
  todo,       \* those it releases later
  refused,    \* packages whose release failed since the app was started
  excused,    \* packages suspended without record by a failing call or a death
  torn,       \* packages suspended or recorded while another change was under way
  fault       \* failing calls, deaths

vars == <<installed, suspended, marks, running, at, copy, current, todo, refused,
          excused, torn, fault>>

Guarded == {"prepare", "suspend", "mark", "record", "work"}
Releasing == {"tracked", "check", "unsuspend", "drop", "erase"}

Pkg(a) == IF a = Recovery THEN current ELSE PackageOf[a]

\* Those between their read of the record and their write.
Changing == {a \in Actors : at[a] \in {"record", "erase"}}

\* Somebody has released p and goes to strike it off.
Striking(p) == \E a \in Actors : Pkg(a) = p /\ at[a] \in {"drop", "erase"}
Tear(p, when) == torn' = IF when THEN torn \cup {p} ELSE torn

\* A package that is not suspended needs no record.
Unsuspended(p) ==
  /\ suspended' = suspended \ {p} /\ excused' = excused \ {p} /\ torn' = torn \ {p}

MayFail == fault.calls < MaxFaults
Faulty == fault' = [fault EXCEPT !.calls = @ + 1]
Goto(a, label) == at' = [at EXCEPT ![a] = label]
Over(a) == Goto(a, IF a = Recovery THEN "next" ELSE "idle")

-----------------------------------------------------------------------------
(* An operation: preparePackageForSnapshot, its work, its release.         *)

\* The operations of InstanceStore that save nothing suspend nothing.
Begin(j) ==
  /\ running /\ at[j] = "idle"
  /\ \A k \in Jobs : CardOf[k] = CardOf[j] => at[k] \notin Guarded
  /\ \E label \in {"prepare", "work"} : Goto(j, label)
  /\ UNCHANGED <<installed, suspended, marks, running, copy, current, todo, refused,
                 excused, torn, fault>>

\* isInstalledSafe answers FALSE when the call fails.
Prepare(j) ==
  /\ at[j] = "prepare"
  /\ \/ PackageOf[j] \in installed /\ Goto(j, "suspend") /\ UNCHANGED fault
     \/ PackageOf[j] \notin installed /\ Goto(j, "work") /\ UNCHANGED fault
     \/ MayFail /\ Faulty /\ Goto(j, "work")
  /\ UNCHANGED <<installed, suspended, marks, running, copy, current, todo, refused,
                 excused, torn>>

\* A call that fails may have suspended the package nevertheless.
Suspend(j) ==
  /\ at[j] = "suspend"
  /\ LET p == PackageOf[j] IN
     \/ /\ p \in installed /\ suspended' = suspended \cup {p}
        /\ \/ /\ Goto(j, "mark") /\ Tear(p, Striking(p))
              /\ UNCHANGED <<excused, fault>>
           \/ /\ MayFail /\ Faulty /\ Goto(j, "work") /\ excused' = excused \cup {p}
              /\ UNCHANGED torn
     \/ /\ p \notin installed /\ Goto(j, "work") /\ UNCHANGED <<suspended, excused, torn, fault>>
     \/ MayFail /\ Faulty /\ Goto(j, "work") /\ UNCHANGED <<suspended, excused, torn>>
  /\ UNCHANGED <<installed, marks, running, copy, current, todo, refused>>

\* markSuspended reads the set ...
Mark(j) ==
  /\ at[j] = "mark" /\ Goto(j, "record") /\ copy' = [copy EXCEPT ![j] = marks]
  /\ UNCHANGED <<installed, suspended, marks, running, current, todo, refused, excused,
                 torn, fault>>

\* ... and writes it back.
Record(j) ==
  /\ at[j] = "record" /\ Goto(j, "work")
  /\ marks' = copy[j] \cup {PackageOf[j]} /\ excused' = excused \ {PackageOf[j]}
  /\ copy' = [copy EXCEPT ![j] = {}]
  /\ Tear(PackageOf[j], Striking(PackageOf[j]) \/ Changing # {j})
  /\ UNCHANGED <<installed, suspended, running, current, todo, refused, fault>>

\* The work ends, one way or another, and the guard is returned.
EndPackageOp(j) ==
  /\ at[j] = "work" /\ Goto(j, "tracked")
  /\ UNCHANGED <<installed, suspended, marks, running, copy, current, todo, refused,
                 excused, torn, fault>>

-----------------------------------------------------------------------------
(* releasePackageAfterSnapshot, by an operation or the recovery.           *)

\* A mutant: a package that is recorded is taken for released.
TrackedInverted(a) ==
  /\ at[a] = "tracked"
  /\ IF Pkg(a) \in marks THEN Over(a) ELSE Goto(a, "check")
  /\ UNCHANGED <<installed, suspended, marks, running, copy, current, todo, refused,
                 excused, torn, fault>>

Tracked(a) ==
  /\ at[a] = "tracked"
  /\ IF Pkg(a) \in marks THEN Goto(a, "check") ELSE Over(a)
  /\ UNCHANGED <<installed, suspended, marks, running, copy, current, todo, refused,
                 excused, torn, fault>>

\* A package that seems not to be installed is struck off the record.
CheckRelease(a) ==
  /\ at[a] = "check"
  /\ \/ /\ Pkg(a) \in installed /\ Goto(a, "unsuspend") /\ UNCHANGED <<excused, torn, fault>>
     \/ /\ Pkg(a) \notin installed /\ Goto(a, "drop") /\ UNCHANGED <<excused, torn, fault>>
     \/ /\ MayFail /\ Faulty /\ Goto(a, "drop")
        /\ excused' = excused \cup ({Pkg(a)} \cap suspended) /\ UNCHANGED torn
  /\ UNCHANGED <<installed, suspended, marks, running, copy, current, todo, refused>>

\* A mutant: the answer of unsuspendPackage is not looked at.
UnsuspendUnasked(a) ==
  /\ at[a] = "unsuspend" /\ Goto(a, "drop")
  /\ \/ Unsuspended(Pkg(a)) /\ UNCHANGED fault
     \/ MayFail /\ Faulty /\ UNCHANGED <<suspended, excused, torn>>
  /\ UNCHANGED <<installed, marks, running, copy, current, todo, refused>>

Unsuspend(a) ==
  /\ at[a] = "unsuspend"
  /\ \/ /\ Pkg(a) \in installed /\ Goto(a, "drop")
        /\ Unsuspended(Pkg(a)) /\ UNCHANGED <<refused, fault>>
     \/ /\ \/ Pkg(a) \notin installed /\ UNCHANGED <<suspended, excused, torn, fault>>
           \/ MayFail /\ Faulty /\ UNCHANGED <<suspended, excused, torn>>
           \/ MayFail /\ Faulty /\ Unsuspended(Pkg(a))
        /\ Over(a) /\ refused' = refused \cup {Pkg(a)}
  /\ UNCHANGED <<installed, marks, running, copy, current, todo>>

\* markReleased reads the set ...
Drop(a) ==
  /\ at[a] = "drop"
  /\ \/ Pkg(a) \in marks /\ Goto(a, "erase") /\ copy' = [copy EXCEPT ![a] = marks]
     \/ Pkg(a) \notin marks /\ Over(a) /\ UNCHANGED copy
  /\ UNCHANGED <<installed, suspended, marks, running, current, todo, refused, excused,
                 torn, fault>>

\* ... and writes it back without the package.
Erase(a) ==
  /\ at[a] = "erase" /\ Over(a) /\ marks' = copy[a] \ {Pkg(a)}
  /\ copy' = [copy EXCEPT ![a] = {}]
  /\ UNCHANGED <<installed, suspended, running, current, todo, refused, excused,
                 torn, fault>>

-----------------------------------------------------------------------------
(* recoverOrphanedSuspensions, once after a start.                         *)

StartRecovery ==
  /\ running /\ at[Recovery] = "idle"
  /\ todo' = marks /\ Goto(Recovery, "next")
  /\ UNCHANGED <<installed, suspended, marks, running, copy, current, refused, excused,
                 torn, fault>>

NextEntry ==
  /\ at[Recovery] = "next"
  /\ \/ \E p \in todo : todo' = todo \ {p} /\ current' = p /\ Goto(Recovery, "tracked")
     \/ todo = {} /\ Goto(Recovery, "over") /\ UNCHANGED <<todo, current>>
  /\ UNCHANGED <<installed, suspended, marks, running, copy, refused, excused, torn, fault>>

-----------------------------------------------------------------------------
(* The user, and deaths of the app.                                        *)

\* By the user, by the button of this app, or as the last part of a backup.
\* With the package goes its suspension.
Uninstall(p) ==
  /\ p \in installed /\ installed' = installed \ {p}
  /\ Unsuspended(p)
  /\ UNCHANGED <<marks, running, at, copy, current, todo, refused, fault>>

Install(p) ==
  /\ p \notin installed /\ installed' = installed \cup {p}
  /\ UNCHANGED <<suspended, marks, running, at, copy, current, todo, refused, excused,
                 torn, fault>>

Die ==
  /\ running /\ fault.deaths < MaxDeaths /\ fault' = [fault EXCEPT !.deaths = @ + 1]
  /\ running' = FALSE /\ at' = [a \in Actors |-> "idle"]
  /\ copy' = [a \in Actors |-> {}] /\ todo' = {}
  /\ excused' = excused \cup (suspended \cap {PackageOf[j] : j \in
                                {k \in Jobs : at[k] \in {"mark", "record"}}})
  /\ UNCHANGED <<installed, suspended, marks, current, refused, torn>>

Start ==
  /\ ~running /\ running' = TRUE /\ refused' = {}
  /\ UNCHANGED <<installed, suspended, marks, at, copy, current, todo, excused, torn, fault>>

-----------------------------------------------------------------------------
Init ==
  /\ installed = Packages /\ suspended = {} /\ marks = {} /\ running = TRUE
  /\ at = [a \in Actors |-> "idle"] /\ copy = [a \in Actors |-> {}]
  /\ current \in Packages /\ todo = {} /\ refused = {} /\ excused = {}
  /\ torn = {}
  /\ fault = [calls |-> 0, deaths |-> 0]

Release(a) ==
  Tracked(a) \/ CheckRelease(a) \/ Unsuspend(a) \/ Drop(a) \/ Erase(a)
Operate(j) == Prepare(j) \/ Suspend(j) \/ Mark(j) \/ Record(j) \/ EndPackageOp(j)

Next ==
  \/ \E j \in Jobs : Begin(j) \/ Operate(j)
  \/ \E a \in Actors : Release(a)
  \/ StartRecovery \/ NextEntry
  \/ \E p \in Packages : Uninstall(p) \/ Install(p)
  \/ Die \/ Start

Spec == Init /\ [][Next]_vars

\* Every actor is a thread: what was begun goes on; nothing forces an operation, a
\* start or a death, and the recovery begins only once the root service answers.
FairSpec ==
  /\ Spec
  /\ \A j \in Jobs : WF_vars(Operate(j) \/ Release(j))
  /\ WF_vars(NextEntry \/ Release(Recovery))

-----------------------------------------------------------------------------
(* Properties                                                              *)

\* Every variable keeps its type.
TypeOK ==
  /\ installed \subseteq Packages /\ suspended \subseteq Packages
  /\ marks \subseteq Packages /\ running \in BOOLEAN
  /\ at \in [Actors -> Guarded \cup Releasing \cup {"idle", "next", "over"}]
  /\ copy \in [Actors -> SUBSET Packages] /\ current \in Packages
  /\ todo \subseteq Packages /\ refused \subseteq Packages /\ excused \subseteq Packages
  /\ torn \subseteq Packages
  /\ fault \in [calls : 0 .. MaxFaults, deaths : 0 .. MaxDeaths]

Recorded(p) ==
  p \in marks \cup excused \/ \E j \in Jobs : PackageOf[j] = p /\ at[j] \in {"mark", "record"}

\* A package that is suspended is recorded, or an operation is about to record
\* it, so that the next start finds it; the ways out of the record are a death
\* in between, a call that suspended the package and answered that it had not,
\* and a failing call taken for "not installed".
SuspendedIsRecorded == \A p \in suspended : Recorded(p)

\* Operations, their releases and the recovery overlap as the guards let them, and
\* a package that is suspended loses its record only in two ways: it was suspended
\* or recorded while another actor, which had released it before, went to strike it
\* off, or it was recorded while another actor had read the record to write it back.
LossIsTorn == \A p \in suspended \ torn : Recorded(p)

\* A package on which an operation or the recovery works is released in the
\* end, unless it was refused, lost its record, or the app died.
IsReleased ==
  \A a \in Actors :
    (at[a] \in Guarded \cup Releasing /\ Pkg(a) \in suspended)
      ~> (Pkg(a) \notin suspended \ (refused \cup excused \cup torn) \/ ~running)
==============================================================================
