------------------------ MODULE MCLearningGovernance ------------------------
(***************************************************************************)
(* Instances of LearningGovernance for TLC.  Two strategy proposals carry  *)
(* the same strategy id, as the proposals of cognitive cycles do (their    *)
(* strategy is the baseline or one that is already learned).               *)
(***************************************************************************)
EXTENDS LearningGovernance, TLC

CONSTANTS w1, w2, p1, p2, p3, s1, s2, founder, other

\* A skill, a strategy, and a diagnosis that leaves no record.
MixedKinds == p1 :> "skill" @@ p2 :> "strategy" @@ p3 :> "none"
MixedIds == p1 :> s2 @@ p2 :> s1 @@ p3 :> s2

\* A single proposal that materialises as a memory.
MemoryKind == p1 :> "memory"
MemoryId == p1 :> s1

\* Two strategies under one id.
TwinKinds == p1 :> "strategy" @@ p2 :> "strategy"
TwinIds == p1 :> s1 @@ p2 :> s1

\* Workers are only compared with each other.
Symmetry == Permutations(Workers)
=============================================================================
