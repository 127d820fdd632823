-------------------------- MODULE GovernedLearning --------------------------
(***************************************************************************)
(* What the governed learning lifecycle promises, without saying how:     *)
(* a proposal is evaluated, then approved by the founder, and only then   *)
(* may it leave a behavioural record (a strategy, a memory or a skill).   *)
(* A later promotion may take over the place of an earlier record, so     *)
(* the set of proposals that have a record may also shrink.               *)
(***************************************************************************)
CONSTANT Proposals

VARIABLES evaluated,    \* proposals with an evaluation on record
          approved,     \* proposals that carry a founder approval
          behavioural   \* proposals with a behavioural record

gvars == <<evaluated, approved, behavioural>>

GInit == /\ evaluated = {}
         /\ approved = {}
         /\ behavioural = {}

Evaluate(l) == /\ evaluated' = evaluated \cup {l}
               /\ UNCHANGED <<approved, behavioural>>

Approve(l) == /\ l \in evaluated
              /\ approved' = approved \cup {l}
              /\ UNCHANGED <<evaluated, behavioural>>

Promote(l, displaced) == /\ l \in approved
                         /\ behavioural' = (behavioural \ displaced) \cup {l}
                         /\ UNCHANGED <<evaluated, approved>>

GNext == \E l \in Proposals :
            \/ Evaluate(l)
            \/ Approve(l)
            \/ \E displaced \in SUBSET Proposals : Promote(l, displaced)

GSpec == GInit /\ [][GNext]_gvars
=============================================================================
