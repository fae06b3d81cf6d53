------------------------------ MODULE Delivery ------------------------------
(***************************************************************************)
(* What the durable queue of one notifier promises: at-least-once          *)
(* delivery, in order per target (the comment of Dispatcher in             *)
(* internal/alert/dispatcher.go and the one on notification_outbox in the  *)
(* schema of internal/store/store.go).  The notices of a target are        *)
(* numbered in the order in which they were enqueued.                      *)
(***************************************************************************)
EXTENDS Naturals

CONSTANT Targets

VARIABLES
    enqueued,   \* target -> how many notices were committed to its queue
    outbox,     \* target -> the notices still queued
    received    \* target -> the notice the endpoint got last, 0 for none

vars == << enqueued, outbox, received >>

Oldest(rows) == CHOOSE r \in rows : \A q \in rows : r <= q

Init ==
    /\ enqueued = [t \in Targets |-> 0]
    /\ outbox = [t \in Targets |-> {}]
    /\ received = [t \in Targets |-> 0]

Enqueue(t) ==
    /\ enqueued' = [enqueued EXCEPT ![t] = @ + 1]
    /\ outbox' = [outbox EXCEPT ![t] = @ \cup {enqueued[t] + 1}]
    /\ UNCHANGED received

\* The endpoint gets the oldest queued notice, maybe not for the first time.
Receive(t) ==
    /\ outbox[t] # {}
    /\ received' = [received EXCEPT ![t] = Oldest(outbox[t])]
    /\ UNCHANGED << enqueued, outbox >>

\* A notice leaves the queue only once it was received.
Retire(t) ==
    /\ outbox[t] # {}
    /\ received[t] = Oldest(outbox[t])
    /\ outbox' = [outbox EXCEPT ![t] = @ \ {received[t]}]
    /\ UNCHANGED << enqueued, received >>

Next == \E t \in Targets : Enqueue(t) \/ Receive(t) \/ Retire(t)

Spec == Init /\ [][Next]_vars

-----------------------------------------------------------------------------
(***************************************************************************)
(* The queue of a target is what was enqueued and not yet received, plus   *)
(* at most the notice received last: nothing is lost, nothing older than   *)
(* that is queued again.                                                   *)
(***************************************************************************)
QueueIsBacklog ==
    \A t \in Targets :
        /\ received[t] <= enqueued[t]
        /\ \/ outbox[t] = received[t] + 1 .. enqueued[t]
           \/ outbox[t] = received[t] .. enqueued[t] /\ received[t] > 0

(***************************************************************************)
(* A notice is first received right after its predecessor, and an older    *)
(* one never again: duplicates never reorder what the endpoint sees.       *)
(***************************************************************************)
ReceivedInOrder ==
    [][\A t \in Targets : received'[t] \in {received[t], received[t] + 1}]_vars
=============================================================================
