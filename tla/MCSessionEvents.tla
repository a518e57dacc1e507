-------------------------- MODULE MCSessionEvents ---------------------------
(***************************************************************************)
(* Small instances of a session's events for TLC.                          *)
(***************************************************************************)
EXTENDS SessionEvents

CONSTANTS x1, c1
=============================================================================
