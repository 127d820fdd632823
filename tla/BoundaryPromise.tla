--------------------------- MODULE BoundaryPromise ---------------------------
(***************************************************************************)
(* What the client of Port Zero promises about its boundary: a message     *)
(* crosses at most once, never after another with its request id or its    *)
(* idempotency key, only when it was signed, and is only reported as       *)
(* answered when it crossed.                                               *)
(***************************************************************************)
EXTENDS Naturals

CONSTANTS Messages, Rivals(_, _)

VARIABLES signed,     \* messages whose authorization was ever valid
          crossings,  \* how often each message reached Port Zero
          reported    \* messages recorded as PORT_REPORTED

bvars == <<signed, crossings, reported>>

BInit == /\ signed = {}
         /\ crossings = [m \in Messages |-> 0]
         /\ reported = {}

BSign(m) == /\ signed' = signed \cup {m}
            /\ UNCHANGED <<crossings, reported>>

Cross(m) == /\ m \in signed
            /\ \A n \in Messages : n = m \/ Rivals(n, m) => crossings[n] = 0
            /\ crossings' = [crossings EXCEPT ![m] = 1]
            /\ UNCHANGED <<signed, reported>>

Report(m) == /\ crossings[m] = 1
             /\ reported' = reported \cup {m}
             /\ UNCHANGED <<signed, crossings>>

BNext == \E m \in Messages : BSign(m) \/ Cross(m) \/ Report(m)
BSpec == BInit /\ [][BNext]_bvars
=============================================================================
