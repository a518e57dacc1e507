---------------------------- MODULE MCDispatcher ----------------------------
(***************************************************************************)
(* Small instances of the dispatcher for TLC.                              *)
(***************************************************************************)
EXTENDS Dispatcher

CONSTANTS s1, s2, r1

\* Two sessions that contend for the one resource.
OneResource == [s \in {s1, s2} |-> {r1}]

\* One session alone.
Solo == [s \in {s1} |-> {r1}]
=============================================================================
