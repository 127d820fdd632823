-------------------------- MODULE MCExperienceLoop --------------------------
\* Instances of ExperienceLoop for TLC.
EXTENDS ExperienceLoop, TLC

CONSTANTS w1, w2, e1, e2, e3, good, bad, v1, v2, a1, a2

TwoWorkers == {w1, w2}
\* Two experiences of one kind: with the same outcome one is a duplicate.
SameKey == [e \in Experiences |-> [goal |-> "goal", input |-> "input"]]
\* No definition tells one id, worker or outcome from another.
Symmetry == Permutations(Workers) \cup Permutations(Experiences \ Private)
            \cup Permutations(Outcomes) \cup Permutations(Verifications)
            \cup Permutations(Approvals)
=============================================================================
