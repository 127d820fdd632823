------------------------- MODULE MCPortZeroGateway -------------------------
(***************************************************************************)
(* Instances of PortZeroGateway for TLC.                                   *)
(***************************************************************************)
EXTENDS PortZeroGateway, TLC

CONSTANTS m1, m2, m3, i1, i2, k1, k2

\* m1 and m2 share the idempotency key, m2 and m3 the request id.
RivalIds == m1 :> i1 @@ m2 :> i2 @@ m3 :> i2
RivalKeys == m1 :> k1 @@ m2 :> k1 @@ m3 :> k2

=============================================================================
