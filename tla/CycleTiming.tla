---------------------------- MODULE CycleTiming ----------------------------
(***************************************************************************)
(* The time a probe cycle takes and the bound /healthz puts on it:         *)
(* Scheduler.Run and cycle (internal/scheduler/scheduler.go), the attempts *)
(* of Prober.Check (internal/probe/probe.go), livenessThreshold and the    *)
(* health handler (cmd/certel/monitor.go).                                 *)
(*                                                                         *)
(* Time is in whole seconds and only attempts, pauses, jitter and the      *)
(* ticker take any: what the code does in between is what the threshold's  *)
(* slack is for.  Targets are alike, so goroutines are counted.            *)
(***************************************************************************)
EXTENDS Naturals

CONSTANTS
    TargetCount,
    Concurrency,
    CheckInterval,
    Jitter,
    Timeout,         \* of every target
    ConnectRetries,  \* of every target
    Slack            \* 30 in the source

ASSUME CycleTimingAssumption ==
    /\ {TargetCount, Concurrency, CheckInterval, Timeout} \subseteq Nat \ {0}
    /\ {Jitter, ConnectRetries, Slack} \subseteq Nat

VARIABLES
    run,       \* Run is in a cycle, or waits for the next tick
    elapsed,   \* seconds since the cycle started; 0 between cycles
    jittering, \* goroutines sleeping their jitter
    waiting,   \* goroutines waiting for a slot
    slot,      \* slot -> the check that holds it
    ticker,    \* seconds to the next tick, 0 before the ticker is made
    tick,      \* a tick waits in the ticker's channel
    age        \* seconds since the last cycle ended or, in the first, since
               \* startedAt

vars == << run, elapsed, jittering, waiting, slot, ticker, tick, age >>

Slots == 1 .. Concurrency

\* A check: in an attempt or the pause after it, which one, and the seconds left.
Free == [at |-> "free", attempt |-> 0, left |-> 0]
Attempt(n) == [at |-> "attempt", attempt |-> n, left |-> Timeout]
Pause(n) == [at |-> "pause", attempt |-> n, left |-> 1]

Init ==
    /\ run = "cycle"
    /\ elapsed = 0
    /\ jittering = TargetCount
    /\ waiting = 0
    /\ slot = [s \in Slots |-> Free]
    /\ ticker = 0
    /\ tick = FALSE
    /\ age = 0

\* Mutant: waves rounded down.
ThresholdRoundedDown ==
    LET perTarget == (ConnectRetries + 1) * Timeout + ConnectRetries
        waves     == TargetCount \div Concurrency
    IN  CheckInterval + Jitter + waves * perTarget + Slack

livenessThreshold ==
    LET perTarget == (ConnectRetries + 1) * Timeout + ConnectRetries
        waves     == (TargetCount + Concurrency - 1) \div Concurrency
    IN  CheckInterval + Jitter + waves * perTarget + Slack

-----------------------------------------------------------------------------
JitterOver ==
    /\ jittering > 0
    /\ jittering' = jittering - 1
    /\ waiting' = waiting + 1
    /\ UNCHANGED << run, elapsed, slot, ticker, tick, age >>

TakeSlot(s) ==
    /\ waiting > 0 /\ slot[s].at = "free"
    /\ waiting' = waiting - 1
    /\ slot' = [slot EXCEPT ![s] = Attempt(1)]
    /\ UNCHANGED << run, elapsed, jittering, ticker, tick, age >>

\* Any status but unreachable: handled at once.
Answered(s) ==
    /\ slot[s].at = "attempt"
    /\ slot' = [slot EXCEPT ![s] = Free]
    /\ UNCHANGED << run, elapsed, jittering, waiting, ticker, tick, age >>

\* The attempt fails, at the latest when its timeout is over, and one second
\* of pause follows.
Fails(s) ==
    /\ slot[s].at = "attempt"
    /\ slot' = [slot EXCEPT ![s] = Pause(@.attempt)]
    /\ UNCHANGED << run, elapsed, jittering, waiting, ticker, tick, age >>

\* The pause follows the last attempt too.
PauseOver(s) ==
    /\ slot[s].at = "pause" /\ slot[s].left = 0
    /\ slot' = [slot EXCEPT ![s] = IF @.attempt <= ConnectRetries
                                   THEN Attempt(@.attempt + 1) ELSE Free]
    /\ UNCHANGED << run, elapsed, jittering, waiting, ticker, tick, age >>

CycleOver ==
    /\ run = "cycle"
    /\ jittering = 0 /\ waiting = 0
    /\ \A s \in Slots : slot[s].at = "free"

\* The cycle is complete and lastCycle stored; the first one makes the ticker.
EndCycle ==
    /\ CycleOver
    /\ run' = "select"
    /\ elapsed' = 0
    /\ age' = 0
    /\ ticker' = IF ticker = 0 THEN CheckInterval ELSE ticker
    /\ UNCHANGED << jittering, waiting, slot, tick >>

\* The tick may have come while the cycle overran the interval.
NextCycle ==
    /\ run = "select" /\ tick
    /\ tick' = FALSE
    /\ run' = "cycle"
    /\ jittering' = TargetCount
    /\ UNCHANGED << elapsed, waiting, slot, ticker, age >>

-----------------------------------------------------------------------------
\* Nothing is due now: what the code does between two waits takes no time.
Quiet ==
    /\ ~(jittering > 0 /\ elapsed >= Jitter)
    /\ \A s \in Slots : IF slot[s].at = "free" THEN waiting = 0 ELSE slot[s].left > 0
    /\ ~CycleOver
    /\ ~(run = "select" /\ tick)

\* A tick that finds the channel full is dropped.
Tick ==
    /\ Quiet
    /\ elapsed' = IF run = "cycle" THEN elapsed + 1 ELSE 0
    /\ slot' = [s \in Slots |-> IF slot[s].at = "free" THEN Free
                                ELSE [slot[s] EXCEPT !.left = @ - 1]]
    /\ ticker' = IF ticker > 1 THEN ticker - 1
                 ELSE IF ticker = 1 THEN CheckInterval ELSE 0
    /\ tick' = (tick \/ ticker = 1)
    /\ age' = age + 1
    /\ UNCHANGED << run, jittering, waiting >>

Next ==
    \/ JitterOver
    \/ \E s \in Slots : TakeSlot(s) \/ Answered(s) \/ Fails(s) \/ PauseOver(s)
    \/ EndCycle \/ NextCycle
    \/ Tick

Spec == Init /\ [][Next]_vars

-----------------------------------------------------------------------------
(***************************************************************************)
(* The health handler's cycleFresh: false means a 503, and a restart by    *)
(* whatever watches it.                                                    *)
(***************************************************************************)
cycleFresh == age < livenessThreshold

(***************************************************************************)
(* The doc of livenessThreshold: it is "derived from the worst legal       *)
(* cycle", so that "a healthy-but-slow cycle does not flap the probe".     *)
(* Every behaviour of this module is legal, so /healthz never fails.       *)
(***************************************************************************)
NeverOverdue == cycleFresh

(***************************************************************************)
(* The threshold allows for what the code does, beyond the last pause of   *)
(* every wave, which it leaves out: with a slack of one second more than   *)
(* there are waves it holds, whatever fails and however ticks fall.        *)
(***************************************************************************)
SlackForPauses ==
    Slack > (TargetCount + Concurrency - 1) \div Concurrency => cycleFresh
=============================================================================
