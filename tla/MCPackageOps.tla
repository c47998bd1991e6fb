---------------------------- MODULE MCPackageOps ----------------------------
(* Three cards, two of which are spellings of one path.                    *)
EXTENDS PackageOps

CONSTANTS cardA, CardA, cardB, keyA, keyB

MCCards == {cardA, CardA, cardB}
MCKeys == {keyA, keyB}
MCnormalize == [c \in MCCards |-> IF c = cardB THEN keyB ELSE keyA]
=============================================================================
