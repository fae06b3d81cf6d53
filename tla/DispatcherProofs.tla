-------------------------- MODULE DispatcherProofs --------------------------
(***************************************************************************)
(* Theorems about Dispatcher, for any targets, any number of slots and     *)
(* retries and any combination of faults, and about the queue it           *)
(* implements.                                                             *)
(***************************************************************************)
EXTENDS Dispatcher, TLAPS

-----------------------------------------------------------------------------
LEMMA NoWorkerType == NoWorker \in Worker
  BY DEF NoWorker, Worker, WorkerStates

\* An interval of row numbers has its lower end as oldest row.
LEMMA OldestOfInterval ==
    ASSUME NEW lo \in Nat, NEW hi \in Nat, lo <= hi
    PROVE  Oldest(lo .. hi) = lo /\ Queue!Oldest(lo .. hi) = lo
<1>1. /\ lo \in lo .. hi
      /\ \A q \in lo .. hi : lo <= q
      /\ \A r \in lo .. hi : (\A q \in lo .. hi : r <= q) => r = lo
  OBVIOUS
<1> QED
  BY <1>1 DEF Oldest, Queue!Oldest

\* A goroutine that moves on keeps well-formed locals.
LEMMA MoveType ==
    ASSUME TypeOK, NEW t \in Targets, NEW p \in WorkerStates,
           MoveTo(t, p) \/ Finish(t)
    PROVE  worker' \in [Targets -> Worker]
  BY NoWorkerType DEF TypeOK, MoveTo, Finish, Worker

(***************************************************************************)
(* The invariant.  NothingLost carries the order: as the queue of a target *)
(* is an interval of row numbers, the oldest row exists and is the only    *)
(* one a goroutine can hold.                                               *)
(***************************************************************************)
DispatcherInv == TypeOK /\ NothingLost /\ RowInHand /\ NoLostWakeup

LEMMA DispatcherInit == Init => DispatcherInv
<1> SUFFICES ASSUME Init PROVE DispatcherInv
  OBVIOUS
<1>1. TypeOK
  BY NoWorkerType DEF Init, TypeOK, RunStates
<1>2. NothingLost
  BY DEF Init, NothingLost, Queue!QueueIsBacklog
<1>3. RowInHand
  BY DEF Init, RowInHand, At, NoWorker
<1>4. NoLostWakeup
  BY DEF Init, NoLostWakeup
<1> QED
  BY <1>1, <1>2, <1>3, <1>4 DEF DispatcherInv

LEMMA TypeStep ==
    ASSUME TypeOK, NothingLost, [Next]_vars
    PROVE  TypeOK'
<1> USE DEF TypeOK, RunStates, queue, loop
<1>1. CASE Start
  BY <1>1 DEF Start
<1>2. CASE Crash
  BY <1>2, NoWorkerType DEF Crash
<1>3. CASE Cancel
  BY <1>3 DEF Cancel
<1>4. ASSUME NEW t \in Targets, Enqueue(t) PROVE TypeOK'
  <2>1. enqueued[t] + 1 \in Nat
    OBVIOUS
  <2> QED
    BY <1>4, <2>1 DEF Enqueue
<1>5. ASSUME NEW t \in Targets, Wake(t) PROVE TypeOK'
  BY <1>5 DEF Wake
<1>6. CASE Scan
  BY <1>6 DEF Scan, PendingKeys
<1>7. CASE ScanFails
  BY <1>7 DEF ScanFails
<1>8. ASSUME NEW t \in Targets, Spawn(t) PROVE TypeOK'
  BY <1>8 DEF Spawn, NoWorker, Worker, WorkerStates
<1>9. CASE AbandonPass \/ EndPass \/ Stop \/ TakeWake \/ RetryTick
  BY <1>9 DEF AbandonPass, EndPass, Stop, TakeWake, RetryTick
<1>10. ASSUME NEW t \in Targets, NextPending(t) PROVE TypeOK'
  <2>1. CASE outbox[t] = {}
    <3>1. Finish(t)
      BY <1>10, <2>1 DEF NextPending
    <3> QED
      BY <1>10, <3>1, MoveType DEF NextPending, WorkerStates
  <2>2. CASE outbox[t] # {}
    <3>1. Oldest(outbox[t]) \in Nat
      <4>1. PICK lo \in Nat : outbox[t] = lo .. enqueued[t]
        BY DEF NothingLost, Queue!QueueIsBacklog
      <4> QED
        BY <2>2, <4>1, OldestOfInterval
    <3>2. [at |-> "attempt", row |-> Oldest(outbox[t]), attempt |-> 0] \in Worker
      BY <3>1 DEF Worker, WorkerStates
    <3> QED
      BY <1>10, <2>2, <3>2 DEF NextPending
  <2> QED
    BY <2>1, <2>2
<1>11. ASSUME NEW t \in Targets, NextPendingFails(t) \/ DrainCancelled(t)
       PROVE  TypeOK'
  <2>1. worker' \in [Targets -> Worker]
    BY <1>11, MoveType DEF NextPendingFails, DrainCancelled, WorkerStates
  <2> QED
    BY <1>11, <2>1 DEF NextPendingFails, DrainCancelled
<1>12. ASSUME NEW t \in Targets, Accepted(t) \/ Refused(t) PROVE TypeOK'
  <2>1. worker' \in [Targets -> Worker]
    BY <1>12, MoveType DEF Accepted, Refused, WorkerStates
  <2>2. worker[t].row \in Nat
    BY DEF Worker
  <2> QED
    BY <1>12, <2>1, <2>2 DEF Accepted, Refused
<1>13. ASSUME NEW t \in Targets, BackoffElapsed(t) PROVE TypeOK'
  <2>1. [worker[t] EXCEPT !.at = "attempt", !.attempt = worker[t].attempt + 1]
           \in Worker
    <3>1. worker[t] \in Worker /\ worker[t].attempt + 1 \in Nat
      BY DEF Worker
    <3> QED
      BY <3>1 DEF Worker, WorkerStates
  <2> QED
    BY <1>13, <2>1 DEF BackoffElapsed
<1>14. ASSUME NEW t \in Targets, BackoffCancelled(t) PROVE TypeOK'
  <2>1. worker' \in [Targets -> Worker]
    BY <1>14, MoveType DEF BackoffCancelled, WorkerStates
  <2> QED
    BY <1>14, <2>1 DEF BackoffCancelled
<1>15. ASSUME NEW t \in Targets, FailOutbox(t) \/ DeleteOutboxFails(t) PROVE TypeOK'
  <2>1. worker' \in [Targets -> Worker]
    BY <1>15, MoveType DEF FailOutbox, DeleteOutboxFails, WorkerStates
  <2> QED
    BY <1>15, <2>1 DEF FailOutbox, DeleteOutboxFails
<1>16. ASSUME NEW t \in Targets, DeleteOutbox(t) PROVE TypeOK'
  BY <1>16 DEF DeleteOutbox, NoWorker, Worker, WorkerStates
<1>17. CASE UNCHANGED vars
  BY <1>17 DEF vars
<1> QED
  BY <1>1, <1>2, <1>3, <1>4, <1>5, <1>6, <1>7, <1>8, <1>9, <1>10, <1>11, <1>12,
     <1>13, <1>14, <1>15, <1>16, <1>17
     DEF Next, dispatchOnce, drainTarget

-----------------------------------------------------------------------------
(***************************************************************************)
(* Every step is a step of the queue or leaves it alone.                   *)
(***************************************************************************)

\* The oldest row of a queue that is an interval.
LEMMA OldestRow ==
    ASSUME TypeOK, NothingLost, NEW t \in Targets, outbox[t] # {}
    PROVE  /\ Oldest(outbox[t]) = Queue!Oldest(outbox[t])
           /\ Oldest(outbox[t]) \in outbox[t]
           /\ \A q \in outbox[t] : Oldest(outbox[t]) <= q
           /\ \A r \in outbox[t] :
                (\A q \in outbox[t] : r <= q) => r = Oldest(outbox[t])
<1>1. PICK lo \in Nat : outbox[t] = lo .. enqueued[t] /\ lo <= enqueued[t]
  BY DEF NothingLost, Queue!QueueIsBacklog, TypeOK
<1>2. enqueued[t] \in Nat
  BY DEF TypeOK
<1>3. Oldest(outbox[t]) = lo /\ Queue!Oldest(outbox[t]) = lo
  BY <1>1, <1>2, OldestOfInterval
<1> QED
  BY <1>1, <1>2, <1>3

\* The row in a goroutine's hand is the one the queue would hand out.
LEMMA InHandIsOldest ==
    ASSUME TypeOK, NothingLost, RowInHand, NEW t \in Targets,
           ~At(t, "none"), ~At(t, "next")
    PROVE  outbox[t] # {} /\ worker[t].row = Queue!Oldest(outbox[t])
  BY OldestRow DEF RowInHand

LEMMA QueueStep ==
    ASSUME TypeOK, NothingLost, RowInHand, [Next]_vars
    PROVE  [Queue!Next]_(Queue!vars)
<1> USE DEF Queue!vars
<1>1. ASSUME NEW t \in Targets, Enqueue(t) PROVE Queue!Next
  BY <1>1 DEF Enqueue, Queue!Enqueue, Queue!Next
<1>2. ASSUME NEW t \in Targets, Accepted(t) PROVE Queue!Next
  <2>1. outbox[t] # {} /\ worker[t].row = Queue!Oldest(outbox[t])
    BY <1>2, InHandIsOldest DEF Accepted, At
  <2>2. Queue!Receive(t)
    BY <1>2, <2>1 DEF Accepted, Queue!Receive
  <2> QED
    BY <2>2 DEF Queue!Next
<1>3. ASSUME NEW t \in Targets, Refused(t) PROVE [Queue!Next]_(Queue!vars)
  <2>1. outbox[t] # {} /\ worker[t].row = Queue!Oldest(outbox[t])
    BY <1>3, InHandIsOldest DEF Refused, At
  <2>2. UNCHANGED << enqueued, outbox, received >> \/ Queue!Receive(t)
    BY <1>3, <2>1 DEF Refused, Queue!Receive
  <2> QED
    BY <2>2 DEF Queue!Next
<1>4. ASSUME NEW t \in Targets, DeleteOutbox(t) PROVE Queue!Next
  <2>1. outbox[t] # {} /\ worker[t].row = Queue!Oldest(outbox[t])
    BY <1>4, InHandIsOldest DEF DeleteOutbox, At
  <2>2. received[t] = worker[t].row
    BY <1>4 DEF DeleteOutbox, RowInHand, At
  <2>3. Queue!Retire(t)
    BY <1>4, <2>1, <2>2 DEF DeleteOutbox, Queue!Retire
  <2> QED
    BY <2>3 DEF Queue!Next
<1>5. CASE Start \/ Crash \/ Cancel
  BY <1>5 DEF Start, Crash, Cancel, queue
<1>6. ASSUME NEW t \in Targets, Wake(t) PROVE UNCHANGED Queue!vars
  BY <1>6 DEF Wake, queue
<1>7. CASE Scan \/ ScanFails \/ AbandonPass \/ EndPass
  BY <1>7 DEF Scan, ScanFails, AbandonPass, EndPass, queue
<1>8. CASE Stop \/ TakeWake \/ RetryTick
  BY <1>8 DEF Stop, TakeWake, RetryTick, queue
<1>9. ASSUME NEW t \in Targets, Spawn(t) PROVE UNCHANGED Queue!vars
  BY <1>9 DEF Spawn, queue
<1>10. ASSUME NEW t \in Targets,
              \/ NextPending(t) \/ NextPendingFails(t) \/ DrainCancelled(t)
              \/ BackoffElapsed(t) \/ BackoffCancelled(t)
              \/ FailOutbox(t) \/ DeleteOutboxFails(t)
       PROVE  UNCHANGED Queue!vars
  BY <1>10 DEF NextPending, NextPendingFails, DrainCancelled, BackoffElapsed,
     BackoffCancelled, FailOutbox, DeleteOutboxFails, queue
<1>11. CASE UNCHANGED vars
  BY <1>11 DEF vars
<1> QED
  BY <1>1, <1>2, <1>3, <1>4, <1>5, <1>6, <1>7, <1>8, <1>9, <1>10, <1>11
     DEF Next, dispatchOnce, drainTarget

\* The queue itself loses nothing and hands out rows in order.
LEMMA BacklogStep ==
    ASSUME TypeOK, NothingLost, [Queue!Next]_(Queue!vars)
    PROVE  /\ NothingLost'
           /\ \A t \in Targets : received'[t] \in {received[t], received[t] + 1}
<1> SUFFICES ASSUME NEW t \in Targets
             PROVE  /\ received'[t] \in {received[t], received[t] + 1}
                    /\ received'[t] <= enqueued'[t]
                    /\ \/ outbox'[t] = received'[t] + 1 .. enqueued'[t]
                       \/ outbox'[t] = received'[t] .. enqueued'[t] /\ received'[t] > 0
  BY DEF NothingLost, Queue!QueueIsBacklog
<1>1. /\ enqueued[t] \in Nat /\ received[t] \in Nat
      /\ received[t] <= enqueued[t]
      /\ \/ outbox[t] = received[t] + 1 .. enqueued[t]
         \/ outbox[t] = received[t] .. enqueued[t] /\ received[t] > 0
  BY DEF TypeOK, NothingLost, Queue!QueueIsBacklog
<1>2. CASE /\ enqueued'[t] = enqueued[t]
           /\ outbox'[t] = outbox[t]
           /\ received'[t] = received[t]
  BY <1>1, <1>2
<1>3. CASE Queue!Enqueue(t)
  <2>1. /\ enqueued'[t] = enqueued[t] + 1
        /\ outbox'[t] = outbox[t] \cup {enqueued[t] + 1}
        /\ received'[t] = received[t]
    BY <1>3 DEF Queue!Enqueue, TypeOK
  <2> QED
    BY <1>1, <2>1
<1>4. CASE Queue!Receive(t)
  <2>1. /\ enqueued'[t] = enqueued[t] /\ outbox'[t] = outbox[t]
        /\ received'[t] = Oldest(outbox[t]) /\ outbox[t] # {}
    BY <1>4, OldestRow DEF Queue!Receive, TypeOK
  <2>2. Oldest(outbox[t]) \in {received[t], received[t] + 1}
    <3>1. CASE outbox[t] = received[t] + 1 .. enqueued[t]
      <4>1. received[t] + 1 \in Nat /\ received[t] + 1 <= enqueued[t]
        BY <1>1, <2>1, <3>1
      <4> QED
        BY <1>1, <3>1, <4>1, OldestOfInterval
    <3>2. CASE outbox[t] = received[t] .. enqueued[t]
      BY <1>1, <3>2, OldestOfInterval
    <3> QED
      BY <1>1, <3>1, <3>2
  <2>3. Oldest(outbox[t]) \in outbox[t]
    BY <2>1, OldestRow
  <2>4. received'[t] \in {received[t], received[t] + 1}
        /\ received'[t] \in outbox[t]
    BY <2>1, <2>2, <2>3
  <2>5. CASE outbox[t] = received[t] + 1 .. enqueued[t]
    <3>1. received'[t] = received[t] + 1
      BY <1>1, <2>4, <2>5
    <3> QED
      BY <1>1, <2>1, <2>4, <2>5, <3>1
  <2>6. CASE outbox[t] = received[t] .. enqueued[t] /\ received[t] > 0
    <3>1. received'[t] = received[t]
      BY <1>1, <2>1, <2>3, <2>6, OldestOfInterval
    <3> QED
      BY <1>1, <2>1, <2>6, <3>1
  <2> QED
    BY <1>1, <2>5, <2>6
<1>5. CASE Queue!Retire(t)
  <2>1. /\ enqueued'[t] = enqueued[t] /\ received'[t] = received[t]
        /\ outbox'[t] = outbox[t] \ {received[t]}
        /\ received[t] = Oldest(outbox[t]) /\ outbox[t] # {}
    BY <1>5, OldestRow DEF Queue!Retire, TypeOK
  <2>2. received[t] \in outbox[t]
    BY <2>1, OldestRow
  <2> QED
    BY <1>1, <2>1, <2>2
<1> QED
  BY <1>2, <1>3, <1>4, <1>5
     DEF Queue!Next, Queue!vars, Queue!Enqueue, Queue!Receive, Queue!Retire, TypeOK

-----------------------------------------------------------------------------
(***************************************************************************)
(* A goroutine keeps holding the oldest row: only it removes rows of its   *)
(* target, and new rows are younger.                                       *)
(***************************************************************************)

\* What RowInHand says of one target.
Holding(t) ==
    ~At(t, "none") /\ ~At(t, "next")
      => /\ worker[t].row \in outbox[t]
         /\ \A q \in outbox[t] : worker[t].row <= q
         /\ At(t, "delete") => received[t] = worker[t].row

LEMMA RowStep ==
    ASSUME TypeOK, NothingLost, RowInHand, [Next]_vars
    PROVE  RowInHand'
<1> SUFFICES ASSUME NEW t \in Targets PROVE Holding(t)'
  BY DEF RowInHand, Holding, At
<1>1. Holding(t)
  BY DEF RowInHand, Holding
<1>2. worker \in [Targets -> Worker]
  BY DEF TypeOK
\* Steps that touch neither the goroutine nor the rows of t.
<1>3. ASSUME worker'[t] = worker[t], outbox'[t] = outbox[t],
             received'[t] = received[t]
      PROVE  Holding(t)'
  BY <1>1, <1>3 DEF Holding, At
\* Steps after which the goroutine holds no row.
<1>4. ASSUME worker'[t].at \in {"none", "next"} PROVE Holding(t)'
  BY <1>4 DEF Holding, At
\* Steps of the goroutine that keep its row and do not enter deletion.
<1>5. ASSUME worker'[t].row = worker[t].row, outbox'[t] = outbox[t],
             ~At(t, "none"), ~At(t, "next"), worker'[t].at # "delete"
      PROVE  Holding(t)'
  BY <1>1, <1>5 DEF Holding, At
<1>6. CASE Start \/ Cancel \/ Scan \/ ScanFails \/ AbandonPass \/ EndPass
  BY <1>3, <1>6 DEF Start, Cancel, Scan, ScanFails, AbandonPass, EndPass,
     queue, loop
<1>7. CASE Stop \/ TakeWake \/ RetryTick
  BY <1>3, <1>7 DEF Stop, TakeWake, RetryTick, queue
<1>8. CASE Crash
  BY <1>4, <1>8 DEF Crash, NoWorker
<1>9. ASSUME NEW u \in Targets, Enqueue(u) PROVE Holding(t)'
  <2>1. worker'[t] = worker[t] /\ received'[t] = received[t]
    BY <1>9 DEF Enqueue, loop
  <2>2. \/ outbox'[t] = outbox[t]
        \/ outbox'[t] = outbox[t] \cup {enqueued[t] + 1}
    BY <1>9 DEF Enqueue, TypeOK
  <2>3. \A q \in outbox[t] : q < enqueued[t] + 1
    BY DEF TypeOK, NothingLost, Queue!QueueIsBacklog
  <2>4. enqueued[t] + 1 \in Nat /\ worker[t].row \in Nat
    BY <1>2 DEF TypeOK, Worker
  <2> QED
    BY <1>1, <2>1, <2>2, <2>3, <2>4 DEF Holding, At
<1>10. ASSUME NEW u \in Targets, Wake(u) PROVE Holding(t)'
  BY <1>3, <1>10 DEF Wake, queue, loop
<1>11. ASSUME NEW u \in Targets, Spawn(u) PROVE Holding(t)'
  <2>1. CASE u = t
    BY <1>2, <1>4, <1>11, <2>1 DEF Spawn, NoWorker
  <2>2. CASE u # t
    BY <1>2, <1>3, <1>11, <2>2 DEF Spawn, queue
  <2> QED
    BY <2>1, <2>2
<1>12. ASSUME NEW u \in Targets, drainTarget(u) PROVE Holding(t)'
  <2>1. CASE u # t
    <3>1. worker'[t] = worker[t] /\ outbox'[t] = outbox[t]
          /\ received'[t] = received[t]
      BY <1>2, <1>12, <2>1 DEF drainTarget, NextPending, NextPendingFails,
         DrainCancelled, Accepted, Refused, BackoffElapsed, BackoffCancelled,
         FailOutbox, DeleteOutbox, DeleteOutboxFails, Finish, MoveTo, queue,
         TypeOK
    <3> QED
      BY <1>3, <3>1
  <2>2. CASE u = t
    <3>1. CASE NextPending(t)
      <4>1. CASE outbox[t] = {}
        BY <1>2, <1>4, <3>1, <4>1 DEF NextPending, Finish, NoWorker
      <4>2. CASE outbox[t] # {}
        <5>1. /\ worker'[t].row = Oldest(outbox[t])
              /\ worker'[t].at = "attempt"
              /\ outbox'[t] = outbox[t]
          BY <1>2, <3>1, <4>2 DEF NextPending, queue
        <5> QED
          BY <4>2, <5>1, OldestRow DEF Holding, At
      <4> QED
        BY <4>1, <4>2
    <3>2. CASE \/ NextPendingFails(t) \/ DrainCancelled(t)
              \/ FailOutbox(t) \/ DeleteOutboxFails(t) \/ DeleteOutbox(t)
      BY <1>2, <1>4, <3>2 DEF NextPendingFails, DrainCancelled, FailOutbox,
         DeleteOutboxFails, DeleteOutbox, Finish, NoWorker
    <3>3. CASE Accepted(t)
      <4>1. /\ worker'[t].row = worker[t].row
            /\ received'[t] = worker[t].row
            /\ outbox'[t] = outbox[t]
            /\ ~At(t, "none") /\ ~At(t, "next")
        BY <1>2, <3>3 DEF Accepted, MoveTo, At, Worker, TypeOK
      <4> QED
        BY <1>1, <4>1 DEF Holding, At
    <3>4. CASE Refused(t)
      <4>1. /\ worker'[t].row = worker[t].row /\ worker'[t].at # "delete"
            /\ outbox'[t] = outbox[t]
            /\ ~At(t, "none") /\ ~At(t, "next")
        BY <1>2, <3>4 DEF Refused, MoveTo, At, Worker
      <4> QED
        BY <1>5, <4>1
    <3>5. CASE BackoffElapsed(t) \/ BackoffCancelled(t)
      <4>1. /\ worker'[t].row = worker[t].row /\ worker'[t].at # "delete"
            /\ outbox'[t] = outbox[t]
            /\ ~At(t, "none") /\ ~At(t, "next")
        BY <1>2, <3>5 DEF BackoffElapsed, BackoffCancelled, MoveTo, At, Worker,
           queue
      <4> QED
        BY <1>5, <4>1
    <3> QED
      BY <1>12, <2>2, <3>1, <3>2, <3>3, <3>4, <3>5 DEF drainTarget
  <2> QED
    BY <2>1, <2>2
<1>13. CASE UNCHANGED vars
  BY <1>3, <1>13 DEF vars
<1> QED
  BY <1>6, <1>7, <1>8, <1>9, <1>10, <1>11, <1>12, <1>13 DEF Next, dispatchOnce

(***************************************************************************)
(* No step takes the last reason away from a queued row.                   *)
(***************************************************************************)
LEMMA WakeupStep ==
    ASSUME TypeOK, NoLostWakeup, [Next]_vars
    PROVE  NoLostWakeup'
<1> SUFFICES ASSUME NEW t \in Targets,
                    run' \in {"pass", "select"}, ~ctxDone',
                    outbox'[t] # {}, t \notin owed', ~wake'
             PROVE  t \in keys' \/ worker'[t].at # "none" \/ t \in stalled'
  BY DEF NoLostWakeup, Busy, At
<1>1. /\ run \in {"pass", "select"} /\ ~ctxDone
      /\ outbox[t] # {} /\ t \notin owed /\ ~wake
      => t \in keys \/ worker[t].at # "none" \/ t \in stalled
  BY DEF NoLostWakeup, Busy, At
<1>2. worker \in [Targets -> Worker] /\ outbox \in [Targets -> SUBSET Nat]
  BY DEF TypeOK
<1>3. CASE Start \/ Crash \/ Cancel \/ TakeWake \/ RetryTick \/ Stop
  BY <1>3 DEF Start, Crash, Cancel, TakeWake, RetryTick, Stop
<1>4. ASSUME NEW u \in Targets, Enqueue(u) PROVE t \in keys' \/ worker'[t].at # "none" \/ t \in stalled'
  BY <1>1, <1>2, <1>4 DEF Enqueue, loop
<1>5. ASSUME NEW u \in Targets, Wake(u) PROVE FALSE
  BY <1>5 DEF Wake
<1>6. CASE Scan
  BY <1>6 DEF Scan, PendingKeys, queue
<1>7. CASE ScanFails
  BY <1>7 DEF ScanFails
<1>8. ASSUME NEW u \in Targets, Spawn(u) PROVE t \in keys' \/ worker'[t].at # "none" \/ t \in stalled'
  BY <1>1, <1>2, <1>8 DEF Spawn, NoWorker, queue
<1>9. CASE AbandonPass \/ EndPass
  BY <1>1, <1>9 DEF AbandonPass, EndPass, Busy, At, queue
<1>10. ASSUME NEW u \in Targets, drainTarget(u)
       PROVE  t \in keys' \/ worker'[t].at # "none" \/ t \in stalled'
  <2>1. /\ run' = run /\ keys' = keys /\ ctxDone' = ctxDone
        /\ owed' = owed /\ wake' = wake /\ stalled \subseteq stalled'
        /\ outbox'[t] \subseteq outbox[t]
    BY <1>2, <1>10 DEF drainTarget, NextPending, NextPendingFails,
       DrainCancelled, Accepted, Refused, BackoffElapsed, BackoffCancelled,
       FailOutbox, DeleteOutbox, DeleteOutboxFails, queue
  <2>2. t \in keys \/ worker[t].at # "none" \/ t \in stalled
    BY <1>1, <2>1
  <2>3. worker'[t] = worker[t] \/ worker'[t].at # "none" \/ t \in stalled'
    <3>1. CASE u # t
      BY <1>2, <1>10, <3>1 DEF drainTarget, NextPending, NextPendingFails,
         DrainCancelled, Accepted, Refused, BackoffElapsed, BackoffCancelled,
         FailOutbox, DeleteOutbox, DeleteOutboxFails, Finish, MoveTo
    <3>2. CASE NextPending(t)
      BY <1>2, <2>1, <3>2 DEF NextPending, queue
    <3>3. CASE DrainCancelled(t)
      BY <2>1, <3>3 DEF DrainCancelled
    <3>4. CASE NextPendingFails(t) \/ FailOutbox(t) \/ DeleteOutboxFails(t)
      BY <3>4 DEF NextPendingFails, FailOutbox, DeleteOutboxFails
    <3>5. CASE Accepted(t) \/ Refused(t) \/ BackoffCancelled(t)
      BY <1>2, <3>5 DEF Accepted, Refused, BackoffCancelled, MoveTo, Worker
    <3>6. CASE BackoffElapsed(t)
      BY <1>2, <3>6 DEF BackoffElapsed, Worker
    <3>7. CASE DeleteOutbox(t)
      BY <1>2, <3>7 DEF DeleteOutbox, NoWorker
    <3> QED
      BY <1>10, <3>1, <3>2, <3>3, <3>4, <3>5, <3>6, <3>7 DEF drainTarget
  <2> QED
    BY <2>1, <2>2, <2>3
<1>11. CASE UNCHANGED vars
  BY <1>1, <1>11 DEF vars
<1> QED
  BY <1>3, <1>4, <1>5, <1>6, <1>7, <1>8, <1>9, <1>10, <1>11
     DEF Next, dispatchOnce

LEMMA DispatcherStep ==
    ASSUME DispatcherInv, [Next]_vars
    PROVE  DispatcherInv'
<1> USE DEF DispatcherInv
<1>1. TypeOK'
  BY TypeStep
<1>2. NothingLost'
  BY QueueStep, BacklogStep
<1>3. RowInHand'
  BY RowStep
<1>4. NoLostWakeup'
  BY WakeupStep
<1> QED
  BY <1>1, <1>2, <1>3, <1>4

-----------------------------------------------------------------------------
(***************************************************************************)
(* The invariant holds in every reachable state.  Its conjuncts are the    *)
(* type correctness of the dispatcher and the three safety properties its  *)
(* runs check.                                                             *)
(***************************************************************************)
THEOREM Safe == Spec => []DispatcherInv
  BY DispatcherInit, DispatcherStep, PTL DEF Spec

(***************************************************************************)
(* The queue, the channels and the goroutines keep their shape.            *)
(***************************************************************************)
THEOREM TypeCorrect == Spec => []TypeOK
<1>1. DispatcherInv => TypeOK
  BY DEF DispatcherInv
<1> QED
  BY <1>1, Safe, PTL

(***************************************************************************)
(* What a goroutine of drainTarget has read stays the oldest row of its    *)
(* target, however long its retries take: it deletes what it sent.         *)
(***************************************************************************)
THEOREM HoldsTheOldest == Spec => []RowInHand
<1>1. DispatcherInv => RowInHand
  BY DEF DispatcherInv
<1> QED
  BY <1>1, Safe, PTL

(***************************************************************************)
(* Neither a failed send, a lost answer, a failed delete, a crash nor a    *)
(* shutdown loses a queued notice (drainTarget deletes only what Send got  *)
(* through).                                                               *)
(***************************************************************************)
THEOREM NothingIsLost == Spec => []NothingLost
<1>1. DispatcherInv => NothingLost
  BY DEF DispatcherInv
<1> QED
  BY <1>1, Safe, PTL

(***************************************************************************)
(* An idle dispatcher has no fresh work: Wake's one-slot channel loses no  *)
(* wake-up, whenever Notify is called relative to a pass.                  *)
(***************************************************************************)
THEOREM NoWakeupIsLost == Spec => []NoLostWakeup
<1>1. DispatcherInv => NoLostWakeup
  BY DEF DispatcherInv
<1> QED
  BY <1>1, Safe, PTL

(***************************************************************************)
(* The dispatcher implements the abstract at-least-once FIFO queue.        *)
(***************************************************************************)
THEOREM Implements == Spec => ImplementsDelivery
<1>1. Init => Queue!Init
  BY DEF Init, Queue!Init
<1>2. DispatcherInv /\ [Next]_vars => [Queue!Next]_(Queue!vars)
  BY QueueStep DEF DispatcherInv
<1> QED
  BY <1>1, <1>2, Safe, PTL DEF Spec, Queue!Spec, ImplementsDelivery

(***************************************************************************)
(* The endpoint first gets each notice of a target right after the one     *)
(* before it, and never an older one again: per-target FIFO, with          *)
(* duplicates of the newest only.                                          *)
(***************************************************************************)
THEOREM DeliveredInOrder == Spec => Queue!ReceivedInOrder
<1>1. DispatcherInv /\ [Next]_vars
        => [\A t \in Targets : received'[t] \in {received[t], received[t] + 1}]_(Queue!vars)
  BY QueueStep, BacklogStep DEF DispatcherInv
<1> QED
  BY <1>1, Safe, PTL DEF Spec, Queue!ReceivedInOrder
=============================================================================
