------------------------ MODULE MCPolicyCheckpoints ------------------------
(***************************************************************************)
(* Instances of PolicyCheckpoints for TLC.  Threads, approvals and the     *)
(* hashes other than the baseline's are interchangeable.                   *)
(***************************************************************************)
EXTENDS PolicyCheckpoints, TLC

CONSTANTS h0, h1, h2

PolicySymmetry == Permutations(Workers) \cup Permutations(Approvals)
                     \cup Permutations(Hashes \ {BaseHash})
=============================================================================
