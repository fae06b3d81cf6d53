---------------------------- MODULE MCScheduler ----------------------------
(***************************************************************************)
(* Small instances of Scheduler: more targets than slots, one of them      *)
(* retried.                                                                *)
(***************************************************************************)
EXTENDS Scheduler

CONSTANTS a, b, c

RetryA == [t \in Targets |-> IF t = a THEN 1 ELSE 0]
=============================================================================
