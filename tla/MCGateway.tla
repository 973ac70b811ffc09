----------------------------- MODULE MCGateway -----------------------------
(* Model checking of Gateway: three connections for two permits.           *)
EXTENDS Gateway
=============================================================================
