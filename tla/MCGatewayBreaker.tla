-------------------------- MODULE MCGatewayBreaker --------------------------
(***************************************************************************)
(* Small instances of GatewayBreaker for TLC.                              *)
(***************************************************************************)
EXTENDS GatewayBreaker

=============================================================================
