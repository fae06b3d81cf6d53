----------------------------- MODULE Dispatcher -----------------------------
(***************************************************************************)
(* The dispatcher of one notifier (internal/alert/dispatcher.go) draining  *)
(* its view of notification_outbox (internal/store/store.go) through the   *)
(* webhook sender (internal/alert/sender.go), while handlers enqueue and   *)
(* wake it, the process may be killed or told to stop, and the endpoint    *)
(* and the database may fail.                                              *)
(*                                                                         *)
(* Dispatchers of different notifiers share nothing but the database, so   *)
(* one of them is modelled.  Rows of a target are numbered in the order    *)
(* in which they were inserted, which is the order of their ids: SQLite    *)
(* takes the largest id in the table plus one.                             *)
(***************************************************************************)
EXTENDS Naturals, FiniteSets

CONSTANTS
    Targets,
    Conc,       \* dispatcher concurrency, at least 1 (NewDispatcher)
    Retries,    \* extra attempts of one Send
    Faults,     \* what may go wrong in this instance
    Poisoned    \* targets whose notices the endpoint never takes

CONSTANT MaxRows    \* bound: notices enqueued per target

FaultKinds == {"crash", "cancel", "scan", "read", "delete", "refuse"}

ASSUME DispatcherAssumption ==
    /\ Conc \in Nat \ {0}
    /\ Retries \in Nat
    /\ Faults \subseteq FaultKinds
    /\ Poisoned \subseteq Targets
    /\ MaxRows \in Nat

VARIABLES
    enqueued,   \* target -> how many notices were committed so far
    outbox,     \* table: target -> its queued rows
    received,   \* target -> the row the endpoint got last, 0 for none
    owed,       \* targets whose handler committed a row and has yet to Notify
    wake,       \* the wake channel, of capacity one, is full
    ctxDone,    \* the context is cancelled
    run,        \* where Run is
    keys,       \* targets of the pass still without a goroutine
    worker,     \* target -> its drainTarget goroutine
    stalled     \* history: targets whose last drain, or scan, ended in an error

vars == << enqueued, outbox, received, owed, wake, ctxDone, run, keys, worker,
           stalled >>

\* The durable and the environment's part, as Delivery sees it.
queue == << enqueued, outbox, received >>
loop  == << run, keys, worker, stalled >>

RunStates == {"down", "scan", "pass", "select", "stopped"}

(***************************************************************************)
(* A goroutine draining a target: about to read the next row, in an        *)
(* attempt to send it, pausing before the next attempt, about to mark the  *)
(* row failed or to delete it.                                             *)
(***************************************************************************)
WorkerStates == {"none", "next", "attempt", "backoff", "fail", "delete"}
Worker == [at : WorkerStates, row : Nat, attempt : Nat]
NoWorker == [at |-> "none", row |-> 0, attempt |-> 0]

At(t, p) == worker[t].at = p
Busy == {t \in Targets : ~At(t, "none")}

TypeOK ==
    /\ enqueued \in [Targets -> Nat]
    /\ outbox \in [Targets -> SUBSET Nat]
    /\ received \in [Targets -> Nat]
    /\ owed \in SUBSET Targets
    /\ wake \in BOOLEAN
    /\ ctxDone \in BOOLEAN
    /\ run \in RunStates
    /\ keys \in SUBSET Targets
    /\ worker \in [Targets -> Worker]
    /\ stalled \in SUBSET Targets

Init ==
    /\ enqueued = [t \in Targets |-> 0]
    /\ outbox = [t \in Targets |-> {}]
    /\ received = [t \in Targets |-> 0]
    /\ owed = {}
    /\ wake = FALSE
    /\ ctxDone = FALSE
    /\ run = "down"
    /\ keys = {}
    /\ worker = [t \in Targets |-> NoWorker]
    /\ stalled = {}

-----------------------------------------------------------------------------
(***************************************************************************)
(* The process and the handlers of Manager.  The scheduler lets a cycle in *)
(* flight finish after the cancellation, so a handler may still commit     *)
(* when the dispatcher has stopped.                                        *)
(***************************************************************************)
Start ==
    /\ run = "down"
    /\ run' = "scan"
    /\ UNCHANGED << queue, owed, wake, ctxDone, keys, worker, stalled >>

\* Killed, or exited after a shutdown: only the database is left.
Crash ==
    /\ run # "down"
    /\ "crash" \in Faults \/ run = "stopped"
    /\ run' = "down"
    /\ owed' = {}
    /\ wake' = FALSE
    /\ ctxDone' = FALSE
    /\ keys' = {}
    /\ worker' = [t \in Targets |-> NoWorker]
    /\ UNCHANGED << queue, stalled >>

Cancel ==
    /\ "cancel" \in Faults
    /\ run # "down" /\ ~ctxDone
    /\ ctxDone' = TRUE
    /\ UNCHANGED << queue, owed, wake, loop >>

\* The handler of t commits one row for this notifier ...
Enqueue(t) ==
    /\ run # "down" /\ t \notin owed
    /\ enqueued[t] < MaxRows
    /\ enqueued' = [enqueued EXCEPT ![t] = @ + 1]
    /\ outbox' = [outbox EXCEPT ![t] = @ \cup {enqueued[t] + 1}]
    /\ owed' = owed \cup {t}
    /\ UNCHANGED << received, wake, ctxDone, loop >>

\* Mutant: an unbuffered channel takes a wake-up only while Run waits for it.
WakeUnbuffered(t) ==
    /\ t \in owed
    /\ owed' = owed \ {t}
    /\ wake' = (wake \/ run = "select")
    /\ UNCHANGED << queue, ctxDone, loop >>

\* ... and then wakes the dispatcher, without blocking.
Wake(t) ==
    /\ t \in owed
    /\ owed' = owed \ {t}
    /\ wake' = TRUE
    /\ UNCHANGED << queue, ctxDone, loop >>

-----------------------------------------------------------------------------
(***************************************************************************)
(* Run and dispatchOnce.  The targets of a pass are taken in key order;    *)
(* any order is allowed here.                                              *)
(***************************************************************************)
\* Mutant: one key per row, without DISTINCT.
PendingKeysPerRow == {k \in Targets \X (1 .. MaxRows) : k[2] \in outbox[k[1]]}

PendingKeys == {t \in Targets : outbox[t] # {}}

Scan ==
    /\ run = "scan"
    /\ run' = "pass"
    /\ keys' = PendingKeys
    /\ stalled' = {}
    /\ UNCHANGED << queue, owed, wake, ctxDone, worker >>

ScanFails ==
    /\ "scan" \in Faults
    /\ run = "scan"
    /\ run' = "select"
    /\ stalled' = Targets
    /\ UNCHANGED << queue, owed, wake, ctxDone, keys, worker >>

\* A slot of the semaphore is free: one more target is drained.
Spawn(t) ==
    /\ run = "pass" /\ t \in keys
    /\ Cardinality(Busy) < Conc
    /\ keys' = keys \ {t}
    /\ worker' = [worker EXCEPT ![t] = [NoWorker EXCEPT !.at = "next"]]
    /\ UNCHANGED << queue, owed, wake, ctxDone, run, stalled >>

\* The rest of the targets is given up on cancellation.
AbandonPass ==
    /\ run = "pass" /\ ctxDone /\ keys # {}
    /\ keys' = {}
    /\ UNCHANGED << queue, owed, wake, ctxDone, run, worker, stalled >>

\* wg.Wait returns: passes never overlap.
EndPass ==
    /\ run = "pass" /\ keys = {} /\ Busy = {}
    /\ run' = "select"
    /\ UNCHANGED << queue, owed, wake, ctxDone, keys, worker, stalled >>

\* Mutant: the queue is drained before Run returns.
StopWhenDrained ==
    /\ run = "select" /\ ctxDone /\ PendingKeys = {}
    /\ run' = "stopped"
    /\ UNCHANGED << queue, owed, wake, ctxDone, keys, worker, stalled >>

Stop ==
    /\ run = "select" /\ ctxDone
    /\ run' = "stopped"
    /\ UNCHANGED << queue, owed, wake, ctxDone, keys, worker, stalled >>

TakeWake ==
    /\ run = "select" /\ wake
    /\ wake' = FALSE
    /\ run' = "scan"
    /\ UNCHANGED << queue, owed, ctxDone, keys, worker, stalled >>

RetryTick ==
    /\ run = "select"
    /\ run' = "scan"
    /\ UNCHANGED << queue, owed, wake, ctxDone, keys, worker, stalled >>

-----------------------------------------------------------------------------
(***************************************************************************)
(* drainTarget and Send.                                                   *)
(***************************************************************************)
Finish(t) == worker' = [worker EXCEPT ![t] = NoWorker]
MoveTo(t, p) == worker' = [worker EXCEPT ![t].at = p]

\* ORDER BY id LIMIT 1.
Oldest(rows) == CHOOSE r \in rows : \A q \in rows : r <= q

\* The oldest row of the target, or nothing left to do.
NextPending(t) ==
    /\ At(t, "next") /\ ~ctxDone
    /\ IF outbox[t] = {}
       THEN Finish(t)
       ELSE worker' = [worker EXCEPT ![t] =
                         [at |-> "attempt", row |-> Oldest(outbox[t]), attempt |-> 0]]
    /\ UNCHANGED << queue, owed, wake, ctxDone, run, keys, stalled >>

NextPendingFails(t) ==
    /\ "read" \in Faults
    /\ At(t, "next") /\ ~ctxDone
    /\ Finish(t)
    /\ stalled' = stalled \cup {t}
    /\ UNCHANGED << queue, owed, wake, ctxDone, run, keys >>

DrainCancelled(t) ==
    /\ At(t, "next") /\ ctxDone
    /\ Finish(t)
    /\ UNCHANGED << queue, owed, wake, ctxDone, run, keys, stalled >>

\* A 2xx answer: Send returns nil.
Accepted(t) ==
    /\ At(t, "attempt") /\ t \notin Poisoned
    /\ received' = [received EXCEPT ![t] = worker[t].row]
    /\ MoveTo(t, "delete")
    /\ UNCHANGED << enqueued, outbox, owed, wake, ctxDone, run, keys, stalled >>

\* Any other outcome.  The endpoint may have acted on the request all the
\* same, when the answer was lost or came too late.
Refused(t) ==
    /\ "refuse" \in Faults \/ t \in Poisoned \/ ctxDone
    /\ At(t, "attempt")
    /\ \/ UNCHANGED received
       \/ /\ t \notin Poisoned
          /\ received' = [received EXCEPT ![t] = worker[t].row]
    /\ MoveTo(t, IF worker[t].attempt < Retries THEN "backoff" ELSE "fail")
    /\ UNCHANGED << enqueued, outbox, owed, wake, ctxDone, run, keys, stalled >>

BackoffElapsed(t) ==
    /\ At(t, "backoff")
    /\ worker' = [worker EXCEPT ![t] =
                     [@ EXCEPT !.at = "attempt", !.attempt = worker[t].attempt + 1]]
    /\ UNCHANGED << queue, owed, wake, ctxDone, run, keys, stalled >>

BackoffCancelled(t) ==
    /\ At(t, "backoff") /\ ctxDone
    /\ MoveTo(t, "fail")
    /\ UNCHANGED << queue, owed, wake, ctxDone, run, keys, stalled >>

\* Mutants: the failed row is dropped; the goroutine goes on with the queue.
FailOutboxDrops(t) ==
    /\ At(t, "fail")
    /\ outbox' = [outbox EXCEPT ![t] = @ \ {worker[t].row}]
    /\ Finish(t)
    /\ stalled' = stalled \cup {t}
    /\ UNCHANGED << enqueued, received, owed, wake, ctxDone, run, keys >>
FailOutboxContinues(t) ==
    /\ At(t, "fail")
    /\ MoveTo(t, "next")
    /\ UNCHANGED << queue, owed, wake, ctxDone, run, keys, stalled >>

\* The row stays at the head of its queue, whether or not FailOutbox manages
\* to count the attempt in it.
FailOutbox(t) ==
    /\ At(t, "fail")
    /\ Finish(t)
    /\ stalled' = stalled \cup {t}
    /\ UNCHANGED << queue, owed, wake, ctxDone, run, keys >>

\* Mutant: DELETE by target, not by row.
DeleteOutboxOfTarget(t) ==
    /\ At(t, "delete")
    /\ outbox' = [outbox EXCEPT ![t] = {}]
    /\ worker' = [worker EXCEPT ![t] = [NoWorker EXCEPT !.at = "next"]]
    /\ UNCHANGED << enqueued, received, owed, wake, ctxDone, run, keys, stalled >>

DeleteOutbox(t) ==
    /\ At(t, "delete")
    /\ outbox' = [outbox EXCEPT ![t] = @ \ {worker[t].row}]
    /\ worker' = [worker EXCEPT ![t] = [NoWorker EXCEPT !.at = "next"]]
    /\ UNCHANGED << enqueued, received, owed, wake, ctxDone, run, keys, stalled >>

DeleteOutboxFails(t) ==
    /\ "delete" \in Faults
    /\ At(t, "delete")
    /\ Finish(t)
    /\ stalled' = stalled \cup {t}
    /\ UNCHANGED << queue, owed, wake, ctxDone, run, keys >>

drainTarget(t) ==
    \/ NextPending(t) \/ NextPendingFails(t) \/ DrainCancelled(t)
    \/ Accepted(t) \/ Refused(t) \/ BackoffElapsed(t) \/ BackoffCancelled(t)
    \/ FailOutbox(t) \/ DeleteOutbox(t) \/ DeleteOutboxFails(t)

dispatchOnce ==
    \/ Scan \/ ScanFails
    \/ \E t \in Targets : Spawn(t)
    \/ AbandonPass \/ EndPass

Next ==
    \/ Start \/ Crash \/ Cancel
    \/ \E t \in Targets : Enqueue(t) \/ Wake(t)
    \/ dispatchOnce
    \/ Stop \/ TakeWake \/ RetryTick
    \/ \E t \in Targets : drainTarget(t)

Spec == Init /\ [][Next]_vars

(***************************************************************************)
(* Fairness.  Every step of the loop and of a goroutine is taken in the    *)
(* end: HTTP requests and store calls are bounded by timeouts, timers      *)
(* fire, and select picks among ready cases at random (strong fairness of  *)
(* Stop).  The strongly fair steps of the database and of the endpoint     *)
(* fail any number of times, but not forever.                              *)
(***************************************************************************)
LoopFairness ==
    /\ WF_vars(Start)
    /\ WF_vars(Scan \/ ScanFails)
    /\ WF_vars(\E t \in Targets : Spawn(t))
    /\ WF_vars(AbandonPass)
    /\ WF_vars(EndPass)
    /\ WF_vars(RetryTick)
    /\ SF_vars(Stop)

DrainFairness(t) ==
    /\ WF_vars(Wake(t))
    /\ WF_vars(NextPending(t) \/ NextPendingFails(t) \/ DrainCancelled(t))
    /\ WF_vars(Accepted(t) \/ Refused(t))
    /\ WF_vars(BackoffElapsed(t))
    /\ WF_vars(FailOutbox(t))
    /\ WF_vars(DeleteOutbox(t) \/ DeleteOutboxFails(t))

FaultsPass ==
    /\ SF_vars(Scan)
    /\ \A t \in Targets :
         /\ SF_vars(NextPending(t))
         /\ SF_vars(Accepted(t))
         /\ SF_vars(DeleteOutbox(t))

FairSpec ==
    /\ Spec
    /\ LoopFairness
    /\ \A t \in Targets : DrainFairness(t)
    /\ FaultsPass

-----------------------------------------------------------------------------
(***************************************************************************)
(* Properties.                                                             *)
(***************************************************************************)
Queue == INSTANCE Delivery
    WITH enqueued <- enqueued, outbox <- outbox, received <- received

(***************************************************************************)
(* The dispatcher implements the at-least-once, per-target FIFO queue:     *)
(* whatever fails, crashes or is cancelled, it never receives a notice out *)
(* of order and never deletes one the endpoint did not get.                *)
(***************************************************************************)
ImplementsDelivery == Queue!Spec

(***************************************************************************)
(* Nothing is lost: the table holds what the endpoint did not get, plus at *)
(* most the row it got last, so an alert survives every failed send, lost  *)
(* answer, failed delete, crash and shutdown.                              *)
(***************************************************************************)
NothingLost == Queue!QueueIsBacklog

(***************************************************************************)
(* A drainTarget goroutine that holds a row holds the oldest one of its    *)
(* target, and when it is about to delete it, it is the one last received. *)
(***************************************************************************)
RowInHand ==
    \A t \in Targets :
        ~At(t, "none") /\ ~At(t, "next")
          => /\ worker[t].row \in outbox[t]
             /\ \A q \in outbox[t] : worker[t].row <= q
             /\ At(t, "delete") => received[t] = worker[t].row

(***************************************************************************)
(* No wake-up is lost: unless cancelled, a row that is queued and whose    *)
(* handler has called Notify is about to be found by a pass, or its target *)
(* is being drained, or its last drain ended in an error and the retry     *)
(* tick owes it one.  So an idle dispatcher has no fresh work.             *)
(***************************************************************************)
NoLostWakeup ==
    \A t \in Targets :
        /\ run \in {"pass", "select"} /\ ~ctxDone
        /\ outbox[t] # {} /\ t \notin owed /\ ~wake
        => t \in keys \/ t \in Busy \/ t \in stalled

(***************************************************************************)
(* Every notice reaches the endpoint if the process stays up in the end,   *)
(* although requests, scans, reads and deletes fail now and then, and      *)
(* although another target's notices are refused forever: a failing target *)
(* blocks only its own queue, even with a single slot.                     *)
(***************************************************************************)
StaysUp == <>[](run # "down" /\ ~ctxDone)

EventuallyReceived ==
    StaysUp =>
        \A t \in Targets \ Poisoned : \A i \in 1 .. MaxRows :
            enqueued[t] >= i ~> received[t] >= i

(***************************************************************************)
(* Run returns after a cancellation, so the shutdown of monitor.go, which  *)
(* waits for it, ends: no goroutine, slot or retry holds it up.            *)
(***************************************************************************)
ShutdownEnds == ctxDone ~> run \in {"stopped", "down"}
=============================================================================
