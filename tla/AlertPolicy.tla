---------------------------- MODULE AlertPolicy ----------------------------
(***************************************************************************)
(* The pure part of internal/alert/manager.go: what a reading of a target  *)
(* is, how a notifier's min_severity floor clamps it, how the flap         *)
(* debounce counts towards a confirmation, when a problem is due for a     *)
(* reminder, and which notifiers a decision reaches.  Nothing here has     *)
(* state; Manager applies these operators to its own.                      *)
(***************************************************************************)
EXTENDS Naturals, FiniteSets, Sequences

Severities == {"ok", "warning", "critical", "emergency"}

Statuses == {"ok", "expiring_soon", "expired", "invalid",
             "weak_signature", "tls_unavailable", "unreachable"}

(***************************************************************************)
(* A reading is the (status, severity) pair of a probe result.  Readings   *)
(* is the type; ProbeReadings are the pairs the prober really produces.    *)
(***************************************************************************)
Readings == [status : Statuses, severity : Severities]

Reading(status, severity) == [status |-> status, severity |-> severity]

Healthy == Reading("ok", "ok")

ProbeReadings ==
    {Healthy,
     Reading("expiring_soon", "warning"), Reading("expiring_soon", "critical"),
     Reading("expired", "emergency"), Reading("invalid", "emergency"),
     Reading("weak_signature", "critical"),
     Reading("tls_unavailable", "critical"), Reading("unreachable", "critical")}

Bad(r) == r.severity # "ok"

severityRank(s) ==
    CASE s = "warning"   -> 1
      [] s = "critical"  -> 2
      [] s = "emergency" -> 3
      [] OTHER           -> 0

\* What a notifier with this floor sees of a reading.
clampView(r, floor) ==
    IF severityRank(r.severity) >= severityRank(floor) THEN r ELSE Healthy

unreliableStatus(s) == s \in {"unreachable", "tls_unavailable"}

-----------------------------------------------------------------------------
(***************************************************************************)
(* Flap debounce.  A candidate is a reading that differs from the          *)
(* confirmed one and the number of consecutive cycles that showed it;      *)
(* count 0 means there is none, and its reading is then never read.        *)
(***************************************************************************)
Candidates == [reading : Readings, count : Nat]

NoCandidate == [reading |-> Healthy, count |-> 0]

\* The transition needs flap_streak = n agreeing cycles before it is trusted.
NeedsConfirmation(n, confirmed, new) ==
    /\ n > 1
    /\ new # confirmed
    /\ unreliableStatus(new.status) \/ unreliableStatus(confirmed.status)

Counted(candidate, new) ==
    IF candidate.count > 0 /\ candidate.reading = new
    THEN [candidate EXCEPT !.count = @ + 1]
    ELSE [reading |-> new, count |-> 1]

\* Length of the run of readings equal to the newest, log newest first.
TrailingRun(log) ==
    Cardinality({k \in 1 .. Len(log) : \A i \in 1 .. k : log[i] = log[1]})

AtMost(n, k) == IF k > n THEN n ELSE k

\* The candidate Restore rebuilds from the newest n rows of the probe log.
reconstructPending(n, confirmed, log) ==
    IF log # << >> /\ NeedsConfirmation(n, confirmed, log[1])
    THEN [reading |-> log[1], count |-> AtMost(n - 1, TrailingRun(log))]
    ELSE NoCandidate

-----------------------------------------------------------------------------
(***************************************************************************)
(* Reminders and fan-out.  Time is in whole seconds and 0 is the zero      *)
(* time.Time; MaxDuration is the largest time.Duration, which time.Sub     *)
(* saturates to and which also encodes alert_repeat_interval "never".      *)
(***************************************************************************)
Since(now, last, MaxDuration) == IF last = 0 THEN MaxDuration ELSE now - last

shapeChange(confirmed, new) == Bad(new) /\ new # confirmed

\* Mutants of Fires: no reminders, recoveries only of the whole target, and
\* recoveries to notifiers whose floor was never reached.
FiresWithoutReminder(confirmed, new, floor, due, sendRecovery) ==
    LET was == clampView(confirmed, floor)
        is  == clampView(new, floor)
    IN  \/ Bad(is) /\ is # was
        \/ ~Bad(is) /\ Bad(was) /\ sendRecovery

FiresFullRecoveryOnly(confirmed, new, floor, due, sendRecovery) ==
    LET was == clampView(confirmed, floor)
        is  == clampView(new, floor)
    IN  \/ Bad(is) /\ (is # was \/ due)
        \/ ~Bad(new) /\ Bad(was) /\ sendRecovery

FiresUnclampedRecovery(confirmed, new, floor, due, sendRecovery) ==
    LET was == clampView(confirmed, floor)
        is  == clampView(new, floor)
    IN  \/ Bad(is) /\ (is # was \/ due)
        \/ ~Bad(is) /\ Bad(confirmed) /\ sendRecovery

\* The switch of Process on one notifier's clamped (previous, new) view.
Fires(confirmed, new, floor, due, sendRecovery) ==
    LET was == clampView(confirmed, floor)
        is  == clampView(new, floor)
    IN  \/ Bad(is) /\ is # was
        \/ Bad(is) /\ due
        \/ ~Bad(is) /\ Bad(was) /\ sendRecovery
=============================================================================
