----------------------------- MODULE MCPcmQueue -----------------------------
(***************************************************************************)
(* A small instance of the PCM queue for TLC, with all its three users.    *)
(***************************************************************************)
EXTENDS PcmQueue
=============================================================================
