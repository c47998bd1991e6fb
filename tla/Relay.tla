-------------------------------- MODULE Relay --------------------------------
(***************************************************************************)
(* What a stream copier promises: chunks come out in the order in which    *)
(* they went in, and a normal return means that all of them did.  Once the *)
(* copier was asked to stop, chunks may be missing, or come from a buffer  *)
(* filled anew, and a normal return promises nothing: the caller looks at  *)
(* its own flag.                                                           *)
(***************************************************************************)
EXTENDS Naturals, Sequences

CONSTANT N   \* chunks in the input

VARIABLES out, status, stopped

Last == IF out = <<>> THEN 0 ELSE out[Len(out)]
Whole == out = [i \in 1 .. N |-> i]

Init == out = <<>> /\ status = "running" /\ stopped = FALSE

Pass(c) ==
  /\ status = "running" /\ c \in 1 .. N
  /\ c = Last + 1 \/ stopped
  /\ out' = Append(out, c) /\ UNCHANGED <<status, stopped>>

Stop == ~stopped /\ stopped' = TRUE /\ UNCHANGED <<out, status>>

Return ==
  /\ status = "running" /\ (Whole \/ stopped)
  /\ status' = "returned" /\ UNCHANGED <<out, stopped>>

Throw == status = "running" /\ status' = "threw" /\ UNCHANGED <<out, stopped>>

\* A start that a stop broke may leave the writing thread behind; it writes
\* nothing, because nobody reads for it.
Next == (\E c \in 1 .. N : Pass(c)) \/ Stop \/ Return \/ Throw

Spec == Init /\ [][Next]_<<out, status, stopped>>
==============================================================================
