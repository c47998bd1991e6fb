-------------------------- MODULE MCGroupMembership --------------------------
(* Instances of GroupMembership for TLC: archives are interchangeable, and *)
(* so are the coroutines that move the app; the groups are visited in the  *)
(* order they are listed in.                                               *)
EXTENDS GroupMembership, TLC

CONSTANTS g1, g2

TwoGroups == <<g1, g2>>
Swaps == Permutations(Archives) \cup Permutations(Movers)
=============================================================================
