---------------------------- MODULE MCPiSession ----------------------------
(***************************************************************************)
(* PiSession for TLC: every parameter is a number or a Boolean.            *)
(***************************************************************************)
EXTENDS PiSession
=============================================================================
