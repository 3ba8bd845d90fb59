------------------------- MODULE MCTrustPublication -------------------------
(***************************************************************************)
(* The gateway's own target, and the OT server's list, which trusts the    *)
(* gateway's certificate as well.  Only the first has an artifact yet.     *)
(***************************************************************************)
EXTENDS TrustPublication, TLC

CONSTANTS client, server, gateway

MCTargets == {client, server}
MCRank == client :> 1 @@ server :> 2
MCApps == {gateway}
MCHome == gateway :> client
MCConsumes == client :> {client} @@ server :> {client}
MCCerts == 1..2
MCOwner == 1 :> gateway @@ 2 :> gateway
MCFiled == 1 :> 2 @@ 2 :> 1
===============================================================================
