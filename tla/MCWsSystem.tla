----------------------------- MODULE MCWsSystem -----------------------------
(* Instances of WsSystem for TLC. *)
EXTENDS WsSystem
=============================================================================
