----------------------------- MODULE Scheduler -----------------------------
(***************************************************************************)
(* The probe scheduler (internal/scheduler/scheduler.go) with the retry    *)
(* loop of Prober.Check (internal/probe/probe.go), from the start of Run   *)
(* to its return after a cancellation.  What a check finds, and how long   *)
(* anything takes, is left open; CycleTiming has the clock.                *)
(*                                                                         *)
(* A cycle starts one goroutine per target.  Cycles are numbered modulo    *)
(* two, which tells a goroutine of the last cycle from one of the current. *)
(***************************************************************************)
EXTENDS Naturals, FiniteSets

CONSTANTS
    Targets,         \* cfg.Targets, whose keys config.validate keeps distinct
    Concurrency,     \* probe.concurrency
    ConnectRetries   \* target -> connect_retries

ASSUME SchedulerAssumption ==
    /\ IsFiniteSet(Targets)
    /\ Concurrency \in Nat \ {0}
    /\ ConnectRetries \in [Targets -> Nat]

VARIABLES
    ctxDone,      \* the context is cancelled
    run,          \* where Run is
    cycle,        \* the current cycle, modulo two
    unlaunched,   \* its targets whose goroutine is not started yet
    goroutines    \* the goroutines that were started and are not done

vars == << ctxDone, run, cycle, unlaunched, goroutines >>

RunStates == {"cycle", "select", "returned"}

(***************************************************************************)
(* A goroutine sleeps its jitter, waits for a slot, makes its attempts     *)
(* with a pause after each failed one, and handles the result it got.      *)
(* failed tells whether an attempt failed on its own, not on cancellation. *)
(* There is a result when, and only when, the handler gets it.             *)
(***************************************************************************)
Places == {"jitter", "slot", "attempt", "pause", "handle"}
Results == {"none", "unreachable", "answered"}

Goroutines ==
    {g \in [target : Targets, cycle : {0, 1}, at : Places, attempt : Nat,
            failed : BOOLEAN, result : Results] :
        g.at = "handle" <=> g.result # "none"}

Launched(t) ==
    [target |-> t, cycle |-> cycle, at |-> "jitter", attempt |-> 0,
     failed |-> FALSE, result |-> "none"]

TypeOK ==
    /\ ctxDone \in BOOLEAN
    /\ run \in RunStates
    /\ cycle \in {0, 1}
    /\ unlaunched \in SUBSET Targets
    /\ goroutines \in SUBSET Goroutines

Init ==
    /\ ctxDone = FALSE
    /\ run = "cycle"
    /\ cycle = 0
    /\ unlaunched = Targets
    /\ goroutines = {}

\* g becomes h, or is done.
Replace(g, h) == goroutines' = (goroutines \ {g}) \cup {h}
Done(g) == goroutines' = goroutines \ {g}

\* The goroutines that hold a slot of the semaphore of cycle c.
Holding(c) ==
    {g \in goroutines : g.cycle = c /\ g.at \in {"attempt", "pause", "handle"}}

-----------------------------------------------------------------------------
(***************************************************************************)
(* Run and the main loop of cycle.  Targets are launched in any order.     *)
(***************************************************************************)
Cancel ==
    /\ ~ctxDone
    /\ ctxDone' = TRUE
    /\ UNCHANGED << run, cycle, unlaunched, goroutines >>

Launch(t) ==
    /\ run = "cycle" /\ ~ctxDone
    /\ t \in unlaunched
    /\ unlaunched' = unlaunched \ {t}
    /\ goroutines' = goroutines \cup {Launched(t)}
    /\ UNCHANGED << ctxDone, run, cycle >>

BreakLaunch ==
    /\ run = "cycle" /\ ctxDone
    /\ unlaunched # {}
    /\ unlaunched' = {}
    /\ UNCHANGED << ctxDone, run, cycle, goroutines >>

\* Mutant: no wg.Wait at the end of a cycle.
EndCycleEarly ==
    /\ run = "cycle" /\ unlaunched = {}
    /\ run' = "select"
    /\ UNCHANGED << ctxDone, cycle, unlaunched, goroutines >>

\* wg.Wait returns once every goroutine of the cycle is done.
EndCycle ==
    /\ run = "cycle" /\ unlaunched = {}
    /\ \A g \in goroutines : g.cycle # cycle
    /\ run' = "select"
    /\ UNCHANGED << ctxDone, cycle, unlaunched, goroutines >>

NextCycle ==
    /\ run = "select"
    /\ run' = "cycle"
    /\ cycle' = 1 - cycle
    /\ unlaunched' = Targets
    /\ UNCHANGED << ctxDone, goroutines >>

\* Mutant: Run returns as soon as the context is done.
ReturnAtOnce ==
    /\ run # "returned" /\ ctxDone
    /\ run' = "returned"
    /\ UNCHANGED << ctxDone, cycle, unlaunched, goroutines >>

Return ==
    /\ run = "select" /\ ctxDone
    /\ run' = "returned"
    /\ UNCHANGED << ctxDone, cycle, unlaunched, goroutines >>

-----------------------------------------------------------------------------
(***************************************************************************)
(* A goroutine.                                                            *)
(***************************************************************************)
JitterOver(g) ==
    /\ g.at = "jitter"
    /\ Replace(g, [g EXCEPT !.at = "slot"])
    /\ UNCHANGED << ctxDone, run, cycle, unlaunched >>

\* Mutant: a check that starts after the cancellation makes no attempt.
TakeSlotUnlessDone(g) ==
    /\ g.at = "slot"
    /\ Cardinality(Holding(g.cycle)) < Concurrency
    /\ Replace(g, IF ctxDone THEN [g EXCEPT !.at = "handle"]
                  ELSE [g EXCEPT !.at = "attempt", !.attempt = 1])
    /\ UNCHANGED << ctxDone, run, cycle, unlaunched >>

TakeSlot(g) ==
    /\ g.at = "slot"
    /\ Cardinality(Holding(g.cycle)) < Concurrency
    /\ Replace(g, [g EXCEPT !.at = "attempt", !.attempt = 1])
    /\ UNCHANGED << ctxDone, run, cycle, unlaunched >>

\* Both selects also wait for the context; nothing is checked then.
GiveUp(g) ==
    /\ g.at \in {"jitter", "slot"} /\ ctxDone
    /\ Done(g)
    /\ UNCHANGED << ctxDone, run, cycle, unlaunched >>

\* Any status but unreachable ends the check, and is never retried.
Answered(g) ==
    /\ g.at = "attempt"
    /\ Replace(g, [g EXCEPT !.at = "handle", !.result = "answered"])
    /\ UNCHANGED << ctxDone, run, cycle, unlaunched >>

\* The attempt fails, on its own or because the context, from which its
\* timeout derives, is cancelled.  After a cancellation it is the last one.
Fails(g) ==
    /\ g.at = "attempt"
    /\ \E own \in (IF ctxDone THEN BOOLEAN ELSE {TRUE}) :
         LET h == [g EXCEPT !.failed = @ \/ own]
         IN  Replace(g, IF ctxDone
                        THEN [h EXCEPT !.at = "handle", !.result = "unreachable"]
                        ELSE [h EXCEPT !.at = "pause"])
    /\ UNCHANGED << ctxDone, run, cycle, unlaunched >>

\* Mutants: one attempt too few; a dead target is retried until it answers.
PauseOverEarly(g) ==
    /\ g.at = "pause"
    /\ Replace(g, IF g.attempt < ConnectRetries[g.target]
                  THEN [g EXCEPT !.at = "attempt", !.attempt = @ + 1]
                  ELSE [g EXCEPT !.at = "handle", !.result = "unreachable"])
    /\ UNCHANGED << ctxDone, run, cycle, unlaunched >>
PauseOverForever(g) ==
    /\ g.at = "pause"
    /\ Replace(g, [g EXCEPT !.at = "attempt"])
    /\ UNCHANGED << ctxDone, run, cycle, unlaunched >>

\* The pause follows the last attempt too.
PauseOver(g) ==
    /\ g.at = "pause"
    /\ Replace(g, IF g.attempt <= ConnectRetries[g.target]
                  THEN [g EXCEPT !.at = "attempt", !.attempt = @ + 1]
                  ELSE [g EXCEPT !.at = "handle", !.result = "unreachable"])
    /\ UNCHANGED << ctxDone, run, cycle, unlaunched >>

\* The result handler of monitor.go runs and the slot is given back.
Handle(g) ==
    /\ g.at = "handle"
    /\ Done(g)
    /\ UNCHANGED << ctxDone, run, cycle, unlaunched >>

Check(g) == Answered(g) \/ Fails(g) \/ PauseOver(g)

Goroutine(g) ==
    JitterOver(g) \/ TakeSlot(g) \/ GiveUp(g) \/ Check(g) \/ Handle(g)

Next ==
    \/ Cancel
    \/ \E t \in Targets : Launch(t)
    \/ BreakLaunch \/ EndCycle \/ NextCycle \/ Return
    \/ \E g \in goroutines : Goroutine(g)

Spec == Init /\ [][Next]_vars

(***************************************************************************)
(* Fairness.  The loop runs on, the ticker ticks, timers fire, an attempt  *)
(* ends within its timeout, a handler returns, and some waiting goroutine  *)
(* gets a free slot.  Nothing says that an attempt ever succeeds.          *)
(***************************************************************************)
Of(t, A(_)) == \E g \in goroutines : g.target = t /\ A(g)

Fairness ==
    /\ WF_vars(\E t \in Targets : Launch(t))
    /\ WF_vars(BreakLaunch)
    /\ WF_vars(EndCycle)
    /\ WF_vars(NextCycle)
    /\ WF_vars(\E g \in goroutines : TakeSlot(g))
    /\ \A t \in Targets :
         /\ WF_vars(Of(t, JitterOver))
         /\ WF_vars(Of(t, Check))
         /\ WF_vars(Of(t, Handle))

FairSpec == Spec /\ Fairness

-----------------------------------------------------------------------------
(***************************************************************************)
(* Properties.                                                             *)
(***************************************************************************)

(***************************************************************************)
(* Manager.Process "is called sequentially per target": no target has two  *)
(* goroutines, not even of different cycles, so its results reach the      *)
(* manager and the probe log in the order of the checks.                   *)
(***************************************************************************)
OneGoroutinePerTarget ==
    \A g, h \in goroutines : g.target = h.target => g = h

(***************************************************************************)
(* At most probe.concurrency targets are being checked or handled at once, *)
(* though every cycle makes a semaphore of its own.                        *)
(***************************************************************************)
ConcurrencyBounded == Cardinality(Holding(0) \cup Holding(1)) <= Concurrency

(***************************************************************************)
(* When Run has returned nothing of it is left running, so no handler      *)
(* writes to the store after runMonitor closed it.                         *)
(***************************************************************************)
NothingAfterReturn == run = "returned" => goroutines = {} /\ unlaunched = {}

(***************************************************************************)
(* A target is reported unreachable only after connect_retries + 1 failed  *)
(* attempts, unless the program is being stopped; and an answer, even a    *)
(* late one, is never followed by another attempt.                         *)
(***************************************************************************)
RetriedBeforeUnreachable ==
    \A g \in goroutines :
        g.at = "handle" =>
            /\ g.result = "unreachable" /\ ~ctxDone
                 => g.attempt = ConnectRetries[g.target] + 1 /\ g.failed
            /\ g.attempt \in 1 .. ConnectRetries[g.target] + 1

(***************************************************************************)
(* Every target is handled again and again until the program is stopped,   *)
(* though others never answer and hold the slots for all their attempts.   *)
(***************************************************************************)
KeepsBeingChecked ==
    \A t \in Targets : <>ctxDone \/ []<><<Of(t, Handle)>>_vars
=============================================================================
