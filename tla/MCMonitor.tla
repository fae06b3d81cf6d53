------------------------------ MODULE MCMonitor ------------------------------
(***************************************************************************)
(* Small instances of Monitor: a chat that takes every problem and does    *)
(* not want recoveries, and a pager from critical on that joins and leaves.*)
(***************************************************************************)
EXTENDS Monitor

CONSTANTS chat, pager

Floors       == [c \in Notifiers |-> IF c = chat THEN "warning" ELSE "critical"]
NotChat      == [c \in Notifiers |-> c # chat]
Added        == {{chat}, Notifiers}

Expired == Reading("expired", "emergency")

UpDown == {Healthy, Expired}

AllFaults == FaultKinds
=============================================================================
