---------------------------- MODULE MCDispatcher ----------------------------
(***************************************************************************)
(* A small instance of Dispatcher: two targets, one of them refused        *)
(* forever, and a single slot.                                             *)
(***************************************************************************)
EXTENDS Dispatcher

CONSTANTS a, b

AllFaults == FaultKinds
=============================================================================
