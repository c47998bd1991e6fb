--------------------------- MODULE BackupRegister ---------------------------
(***************************************************************************)
(* What one instance id promises, without the directories: it holds one    *)
(* backup, a payload version and a metadata version, that only ever gets   *)
(* newer; what has been acknowledged to the user is never newer than what  *)
(* is held.  Asking for a deletion ends the promise.                       *)
(***************************************************************************)
EXTENDS Naturals

CONSTANT MaxVersion  \* versions are numbered up to this bound

VARIABLES
  value,   \* the backup that a restore would find
  acked,   \* the newest payload and metadata reported as saved
  doomed   \* a deletion was asked for

vars == <<value, acked, doomed>>

Version == [ver : 0 .. MaxVersion, meta : 0 .. MaxVersion]
Covers(a, b) == a.ver >= b.ver /\ a.meta >= b.meta

Init ==
  /\ value = [ver |-> 0, meta |-> 0] /\ acked = [ver |-> 0, meta |-> 0]
  /\ doomed = FALSE

\* A create, update or edit takes effect, at once and completely.
Save ==
  /\ value' \in Version /\ Covers(value', value)
  /\ UNCHANGED <<acked, doomed>>

\* The operation's success is reported, after it took effect.
Acknowledge ==
  /\ acked' \in Version /\ Covers(acked', acked) /\ Covers(value, acked')
  /\ UNCHANGED <<value, doomed>>

\* The user asks for a deletion; from here on nothing is promised.
Condemn == doomed' = TRUE /\ value' \in Version /\ UNCHANGED acked
Decay == doomed /\ value' \in Version /\ acked' \in Version /\ UNCHANGED doomed

Next == Save \/ Acknowledge \/ Condemn \/ Decay

Spec == Init /\ [][Next]_vars
=============================================================================
