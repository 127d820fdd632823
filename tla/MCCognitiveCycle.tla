------------------------- MODULE MCCognitiveCycle -------------------------
(***************************************************************************)
(* Instances of CognitiveCycle for TLC.                                    *)
(***************************************************************************)
EXTENDS CognitiveCycle, TLC

CONSTANTS b1, b2, b3, c1, c2, k1, r1, s1, w1, w2

\* Three claims about one thing.
Claim == [b \in Beliefs |->
            [about |-> "x",
             object |-> CASE b = b1 -> 0 [] b = b2 -> 1 [] OTHER -> 2]]

\* Cycles and workers are only compared with each other.
Symmetric == Permutations(Cycles) \cup Permutations(Workers)
=============================================================================
