--------------------------- MODULE MCGatewayBridge ---------------------------
(***************************************************************************)
(* Three points: one of type double whose second value is too long for its *)
(* line, one the OT server does not have, and one that is always readable. *)
(***************************************************************************)
EXTENDS GatewayBridge

MCFaulty == {2}
MCDoubles == {1}
MCLong == {2}
=============================================================================
