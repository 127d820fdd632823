-------------------------- MODULE MCAdvancedRecords --------------------------
\* Instances of AdvancedRecords for TLC.
EXTENDS AdvancedRecords, TLC

CONSTANTS w1, w2, m1, m2

\* Workers and models are only compared with each other.
Symmetry == Permutations(Workers) \cup Permutations(Models)
=============================================================================
