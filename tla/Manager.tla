------------------------------ MODULE Manager ------------------------------
(***************************************************************************)
(* The alert manager (internal/alert/manager.go) over the alert tables of  *)
(* the store (internal/store/store.go), driven by the result handler and   *)
(* the startup sequence of cmd/certel/monitor.go.                          *)
(*                                                                         *)
(* Each target has one handler at a time; handlers of different targets    *)
(* interleave, and the process may die between any two of their steps.     *)
(* Store calls named in StoreFaults may fail, any number of times.         *)
(***************************************************************************)
EXTENDS AlertPolicy

CONSTANTS
    Targets,          \* target keys that some configuration may list
    Configs,          \* the target lists the process may be started with
    Notifiers,
    TargetNotifiers,  \* target   -> the notifiers it fans out to
    MinSeverity,      \* notifier -> min_severity, its delivery floor
    SendRecovery,     \* notifier -> send_recovery
    FlapStreak,       \* target   -> flap_streak
    RepeatInterval,   \* target   -> severity -> alert_repeat_interval
    MaxDuration,      \* the largest time.Duration, also the "never" interval
    Observed,         \* the readings the prober may return
    StoreFaults,      \* which store calls may fail
    RenderFaults      \* notifiers whose body may fail to render at run time

CONSTANT MaxTime      \* bound: the clock stops here

FaultKinds ==
    {"probe_log", "alert_state", "enqueue", "prune", "read", "retention"}

(***************************************************************************)
(* What config.Validate guarantees of a configuration, and the relation    *)
(* between the clock and the representable durations that makes a "never"  *)
(* interval unreachable.                                                   *)
(***************************************************************************)
ASSUME ManagerAssumption ==
    /\ Configs \subseteq SUBSET Targets /\ Configs # {}
    /\ TargetNotifiers \in [Targets -> (SUBSET Notifiers) \ {{}}]
    /\ MinSeverity \in [Notifiers -> Severities \ {"ok"}]
    /\ SendRecovery \in [Notifiers -> BOOLEAN]
    /\ FlapStreak \in [Targets -> Nat \ {0}]
    /\ RepeatInterval \in [Targets -> [Severities \ {"ok"} -> Nat \ {0}]]
    /\ Observed \subseteq Readings
    /\ StoreFaults \subseteq FaultKinds
    /\ RenderFaults \subseteq Notifiers
    /\ MaxTime \in Nat /\ MaxDuration \in Nat /\ MaxTime < MaxDuration

VARIABLES
    now,          \* the wall clock in seconds; 0 is the zero time
    up,           \* the process runs
    configured,   \* the targets of the running (or last) configuration
    states,       \* Manager.states: target -> targetState
    handler,      \* target -> the handler's position and locals
    alert_state,  \* table: target -> the persisted StateRecord
    probe_log,    \* table: target -> its newest readings, newest first
    alerts,       \* tables: target -> notifier -> the view last enqueued for it
    wake          \* notifiers whose dispatcher has a wake-up pending

vars == << now, up, configured, states, handler, alert_state, probe_log,
           alerts, wake >>

(***************************************************************************)
(* A state record is what is persisted; in memory it also carries the      *)
(* candidate of the debounce.  A target without a row, or unknown to the   *)
(* manager, behaves as a healthy one that never alerted.                   *)
(***************************************************************************)
StateRecord == [reading : Readings, last : Nat]
TargetState == [reading : Readings, last : Nat, pending : Candidates]

CleanRecord == [reading |-> Healthy, last |-> 0]
InMemory(rec, candidate) ==
    [reading |-> rec.reading, last |-> rec.last, pending |-> candidate]
CleanState == InMemory(CleanRecord, NoCandidate)

(***************************************************************************)
(* A handler's locals: the result in hand, and after the decision the      *)
(* record and the notifiers that fire.  The body a notifier gets is the    *)
(* clamped view of the record's reading, so the set stands for the rows.   *)
(***************************************************************************)
Positions == {"idle", "process", "persist", "enqueue", "notify"}
Handler == [at : Positions, rec : StateRecord, fired : SUBSET Notifiers]
Idle == [at |-> "idle", rec |-> CleanRecord, fired |-> {}]

TypeOK ==
    /\ now \in 1 .. MaxTime + 1
    /\ up \in BOOLEAN
    /\ configured \in SUBSET Targets
    /\ states \in [Targets -> TargetState]
    /\ handler \in [Targets -> Handler]
    /\ alert_state \in [Targets -> StateRecord]
    /\ probe_log \in [Targets -> Seq(Readings)]
    /\ alerts \in [Targets -> [Notifiers -> Readings]]
    /\ wake \in SUBSET Notifiers

Init ==
    /\ now = 1
    /\ up = FALSE
    /\ configured = {}
    /\ states = [t \in Targets |-> CleanState]
    /\ handler = [t \in Targets |-> Idle]
    /\ alert_state = [t \in Targets |-> CleanRecord]
    /\ probe_log = [t \in Targets |-> << >>]
    /\ alerts = [t \in Targets |-> [c \in Notifiers |-> Healthy]]
    /\ wake = {}

\* alerts stands for the newest row per target and notifier that Enqueue
\* committed to alert_log, which nothing in the program reads back, and for
\* its twin in notification_outbox, which the dispatcher of Dispatcher drains.

-----------------------------------------------------------------------------
(***************************************************************************)
(* Startup: load the records of the configured targets, prune the rows of  *)
(* the others (a failure is only logged), and Restore, which rebuilds each *)
(* candidate from the probe log.                                           *)
(***************************************************************************)
\* At most the newest flap_streak rows are ever read, so the model keeps those.
Newest(t, log) == SubSeq(log, 1, AtMost(FlapStreak[t], Len(log)))

(***************************************************************************)
(* How many of the newest rows of t a restart can read.  PruneLogs deletes *)
(* the oldest ones, any number when the retention is shorter than the      *)
(* streak takes; a failing query reads none.  Nothing else reads the log,  *)
(* so probe_log itself keeps what RecordProbe wrote.                       *)
(***************************************************************************)
Legible(t) ==
    LET all == Len(probe_log[t])
    IN  {n \in 0 .. all : \/ n = all
                          \/ n = 0 /\ "read" \in StoreFaults
                          \/ "retention" \in StoreFaults}

\* Mutants of Restored: the row alone, no reminder clock, no streak, nothing,
\* and a streak taken for complete.
RestoredRow(t, n) == alert_state[t]
RestoredWithoutClock(t, n) == InMemory([alert_state[t] EXCEPT !.last = 0], NoCandidate)
RestoredWithoutStreak(t, n) == InMemory(alert_state[t], NoCandidate)
RestoredFromNothing(t, n) == CleanState
RestoredConfirmed(t, n) ==
    InMemory(alert_state[t],
             IF n = 0 THEN NoCandidate
             ELSE [reading |-> probe_log[t][1], count |-> FlapStreak[t] - 1])

Restored(t, n) ==
    InMemory(alert_state[t],
             reconstructPending(FlapStreak[t], alert_state[t].reading,
                                Newest(t, SubSeq(probe_log[t], 1, n))))

\* Mutant: the rows of removed targets are kept.
PruneNothing(valid) == UNCHANGED alert_state

\* The rows are deleted one by one: a failure leaves any of them behind.
PruneAlertStates(valid) ==
    \E left \in (IF "prune" \in StoreFaults THEN SUBSET (Targets \ valid) ELSE {{}}) :
        alert_state' = [t \in Targets |->
                          IF t \in valid \cup left THEN alert_state[t] ELSE CleanRecord]

Start ==
    /\ ~up
    /\ \E cfg \in Configs :
         /\ configured' = cfg
         /\ PruneAlertStates(cfg)
         /\ \E rows \in [cfg -> UNION {Legible(t) : t \in cfg}] :
              /\ \A t \in cfg : rows[t] \in Legible(t)
              /\ states' = [t \in Targets |->
                              IF t \in cfg THEN Restored(t, rows[t]) ELSE CleanState]
    /\ up' = TRUE
    /\ UNCHANGED << now, handler, probe_log, alerts, wake >>

\* The process dies, killed or at the end of a shutdown: memory is lost.
Crash ==
    /\ up
    /\ up' = FALSE
    /\ states' = [t \in Targets |-> CleanState]
    /\ handler' = [t \in Targets |-> Idle]
    /\ wake' = {}
    /\ UNCHANGED << now, configured, alert_state, probe_log, alerts >>

Tick ==
    /\ now <= MaxTime
    /\ now' = now + 1
    /\ UNCHANGED << up, configured, states, handler, alert_state, probe_log,
                    alerts, wake >>

-----------------------------------------------------------------------------
\* A handler moves to position p; back at idle its locals are gone.
Goto(t, p) ==
    handler' = [handler EXCEPT ![t] = IF p = "idle" THEN Idle
                                                     ELSE [@ EXCEPT !.at = p]]

(***************************************************************************)
(* A check of t returned r: RecordProbe, whose failure is only logged,     *)
(* then Process with the same result.                                      *)
(***************************************************************************)
RecordProbe(t, r) ==
    /\ up /\ t \in configured
    /\ handler[t].at = "idle"
    /\ handler' = [handler EXCEPT ![t] =
                     [at |-> "process", rec |-> [CleanRecord EXCEPT !.reading = r],
                      fired |-> {}]]
    /\ \/ probe_log' = [probe_log EXCEPT ![t] = Newest(t, << r >> \o @)]
       \/ "probe_log" \in StoreFaults /\ UNCHANGED probe_log
    /\ UNCHANGED << now, up, configured, states, alert_state, alerts, wake >>

\* The reading starts or continues a transition that is not confirmed yet.
Holds(t, r) ==
    /\ NeedsConfirmation(FlapStreak[t], states[t].reading, r)
    /\ Counted(states[t].pending, r).count < FlapStreak[t]

\* Process up to the early return of the debounce: nothing else changes.
Hold(t) ==
    LET r == handler[t].rec.reading
    IN  /\ handler[t].at = "process"
        /\ Holds(t, r)
        /\ states' = [states EXCEPT ![t].pending = Counted(@, r)]
        /\ Goto(t, "idle")
        /\ UNCHANGED << now, up, configured, alert_state, probe_log, alerts,
                        wake >>

repeatDue(t, r) ==
    /\ Bad(r)
    /\ Since(now, states[t].last, MaxDuration) >= RepeatInterval[t][r.severity]

targetProblemFired(t, r) == shapeChange(states[t].reading, r) \/ repeatDue(t, r)

Fired(t, r) ==
    {c \in TargetNotifiers[t] :
        Fires(states[t].reading, r, MinSeverity[c], repeatDue(t, r), SendRecovery[c])}

(***************************************************************************)
(* The rest of Process up to its first store call: the state is decided    *)
(* and unlocked, then each notifier's switch runs on the decided values.   *)
(* A body that fails to render drops its notifier from the fan-out.        *)
(***************************************************************************)
Adopt(t) ==
    LET r == handler[t].rec.reading
        rec == [reading |-> r,
                last |-> IF targetProblemFired(t, r) THEN now ELSE states[t].last]
        changed == r # states[t].reading \/ targetProblemFired(t, r)
    IN  /\ handler[t].at = "process"
        /\ ~Holds(t, r)
        /\ states' = [states EXCEPT ![t] = InMemory(rec, NoCandidate)]
        /\ \E unrendered \in SUBSET RenderFaults :
             LET fired == Fired(t, r) \ unrendered
             IN  handler' = [handler EXCEPT ![t] =
                   IF fired # {} THEN [at |-> "enqueue", rec |-> rec, fired |-> fired]
                   ELSE IF changed THEN [at |-> "persist", rec |-> rec, fired |-> {}]
                   ELSE Idle]
        /\ UNCHANGED << now, up, configured, alert_state, probe_log, alerts,
                        wake >>

\* Nobody is told: the state alone is saved, and a failure is only logged.
PersistState(t) ==
    /\ handler[t].at = "persist"
    /\ \/ alert_state' = [alert_state EXCEPT ![t] = handler[t].rec]
       \/ "alert_state" \in StoreFaults /\ UNCHANGED alert_state
    /\ Goto(t, "idle")
    /\ UNCHANGED << now, up, configured, states, probe_log, alerts, wake >>

\* One transaction: the state row and a row per fired notifier.
Enqueue(t) ==
    LET rec == handler[t].rec
    IN  /\ handler[t].at = "enqueue"
        /\ alert_state' = [alert_state EXCEPT ![t] = rec]
        /\ alerts' = [alerts EXCEPT ![t] = [c \in Notifiers |->
                        IF c \in handler[t].fired
                        THEN clampView(rec.reading, MinSeverity[c])
                        ELSE @[c]]]
        /\ Goto(t, "notify")
        /\ UNCHANGED << now, up, configured, states, probe_log, wake >>

\* Mutant: the state row is written outside the transaction.
EnqueueFailsHalfway(t) ==
    /\ "enqueue" \in StoreFaults
    /\ handler[t].at = "enqueue"
    /\ alert_state' = [alert_state EXCEPT ![t] = handler[t].rec]
    /\ Goto(t, "idle")
    /\ UNCHANGED << now, up, configured, states, probe_log, alerts, wake >>

\* The transaction rolls back and Process returns: nobody is woken, and the
\* state in memory stays as decided.
EnqueueFails(t) ==
    /\ "enqueue" \in StoreFaults
    /\ handler[t].at = "enqueue"
    /\ Goto(t, "idle")
    /\ UNCHANGED << now, up, configured, states, alert_state, probe_log,
                    alerts, wake >>

\* Each fired notifier's dispatcher is woken; a wake-up already pending
\* absorbs the new one.
Notify(t) ==
    /\ handler[t].at = "notify"
    /\ wake' = wake \cup handler[t].fired
    /\ Goto(t, "idle")
    /\ UNCHANGED << now, up, configured, states, alert_state, probe_log,
                    alerts >>

\* The dispatcher of c takes its wake-up and starts a pass.
TakeWake(c) ==
    /\ c \in wake
    /\ wake' = wake \ {c}
    /\ UNCHANGED << now, up, configured, states, handler, alert_state,
                    probe_log, alerts >>

-----------------------------------------------------------------------------
Process(t) == Hold(t) \/ Adopt(t)

Step(t) ==
    \/ \E r \in Observed : RecordProbe(t, r)
    \/ Process(t)
    \/ PersistState(t)
    \/ Enqueue(t)
    \/ EnqueueFails(t)
    \/ Notify(t)

Next ==
    \/ Start
    \/ Crash
    \/ Tick
    \/ \E t \in Targets : Step(t)
    \/ \E c \in Notifiers : TakeWake(c)

Spec == Init /\ [][Next]_vars

(***************************************************************************)
(* Fairness.  A supervisor restarts the process; a handler that started    *)
(* runs on (its store calls return, busy_timeout bounds them); the         *)
(* scheduler checks every configured target every cycle.                   *)
(***************************************************************************)
Fairness ==
    /\ WF_vars(Start)
    /\ \A t \in Targets :
         /\ WF_vars(\E r \in Observed : RecordProbe(t, r))
         /\ WF_vars(Process(t))
         /\ WF_vars(PersistState(t))
         /\ WF_vars(Enqueue(t))
         /\ WF_vars(Notify(t))

FairSpec == Spec /\ Fairness

-----------------------------------------------------------------------------
(***************************************************************************)
(* Properties.  Channels(t) are the notifiers of t whose body renders.     *)
(***************************************************************************)
Channels(t) == TargetNotifiers[t] \ RenderFaults

View(r, c) == clampView(r, MinSeverity[c])

(***************************************************************************)
(* A persisted "already alerted" state is always backed by the delivery    *)
(* that says so: for each notifier, if its view of the alert_state row is  *)
(* a problem, that very problem is the last thing enqueued for it.  This   *)
(* is the promise of Store.Enqueue ("a crash can never leave state marked  *)
(* already alerted without the pending deliveries"), and it must survive   *)
(* crashes between any two steps of Process and every failing store call.  *)
(***************************************************************************)
AlertedMeansEnqueued ==
    \A t \in Targets : \A c \in Channels(t) :
        LET seen == View(alert_state[t].reading, c)
        IN  Bad(seen) => alerts[t][c] = seen

(***************************************************************************)
(* The tables alone, read at any moment and after any crash, behave as the *)
(* ledger: whatever handlers, faults and restarts do in between, no step   *)
(* records a problem apart from the notices of it.                         *)
(***************************************************************************)
Ledger == INSTANCE AlertLedger
    WITH recorded <- [t \in Targets |-> alert_state[t].reading],
         told     <- alerts,
         Audience <- [t \in Targets |-> Channels(t)]

TablesAreALedger == Ledger!Spec

(***************************************************************************)
(* Between the decision and the commit of Process: whoever sees a problem  *)
(* in the record about to be written is among those about to be told, and  *)
(* a record is never written silently while somebody sees a problem in it. *)
(* So the shared reminder clock never moves without its reminders.         *)
(***************************************************************************)
DecisionReachesChannels ==
    \A t \in Targets : \A c \in Channels(t) :
        Bad(View(handler[t].rec.reading, c))
          => /\ handler[t].at = "enqueue" => c \in handler[t].fired
             /\ handler[t].at # "persist"

(***************************************************************************)
(* A notifier that wants recoveries was last told exactly its view of the  *)
(* persisted state, healthy or not: nobody is left believing in a problem  *)
(* that is over.  Needs Enqueue not to fail and the target to stay         *)
(* configured, whatever else fails.                                        *)
(***************************************************************************)
ChannelsFollowState ==
    \A t \in Targets : \A c \in Channels(t) :
        SendRecovery[c] => alerts[t][c] = View(alert_state[t].reading, c)

(***************************************************************************)
(* The fan-out of Process never sends a recovery to a notifier that was    *)
(* not told of a problem, whatever happened to the reading in between.     *)
(***************************************************************************)
NoOrphanRecovery ==
    [][\A t \in Targets : \A c \in Channels(t) :
         Enqueue(t) /\ c \in handler[t].fired /\ ~Bad(alerts'[t][c])
            => Bad(alerts[t][c])]_vars

(***************************************************************************)
(* A reminder never comes early, restarts included: a problem enqueued on  *)
(* top of the same problem, already persisted, comes at least the repeat   *)
(* interval after the alert before it, and under "never" it never comes.   *)
(***************************************************************************)
RemindersSpaced ==
    [][\A t \in Targets :
         LET old == alert_state[t]
             new == alert_state'[t]
             every == RepeatInterval[t][new.reading.severity]
         IN  Enqueue(t) /\ Bad(new.reading) /\ new.reading = old.reading
               => new.last - old.last >= every /\ every < MaxDuration]_vars

(***************************************************************************)
(* The debounce holds across crashes: Process never moves the confirmed    *)
(* state into or out of a network-shaped status unless the newest          *)
(* flap_streak checks all agree, counting those of earlier runs once.      *)
(***************************************************************************)
ConfirmedTransitions ==
    [][\A t \in Targets :
         LET old == states[t].reading
             new == states'[t].reading
         IN  up /\ up' /\ NeedsConfirmation(FlapStreak[t], old, new)
               => TrailingRun(probe_log[t]) >= FlapStreak[t]
                  /\ Head(probe_log[t]) = new]_vars

(***************************************************************************)
(* The other direction: once flap_streak checks in a row agree, the        *)
(* handler of the last one adopts the reading, though the process may have *)
(* restarted anywhere in the streak and rebuilt its count from probe_log.  *)
(***************************************************************************)
ConfirmationNotLost ==
    [][\A t \in Targets :
         Process(t) /\ TrailingRun(probe_log[t]) >= FlapStreak[t]
           => states'[t].reading = Head(probe_log[t])]_vars

(***************************************************************************)
(* "A later re-add starts from a clean state" (monitor.go): a target that  *)
(* was not configured in the last run starts with no problem and no        *)
(* reminder clock, whatever it was in and whatever was in flight when it   *)
(* was removed.  Needs the pruning not to fail.  Its candidate may not be  *)
(* clean: Restore rebuilds it from the old rows of probe_log.              *)
(***************************************************************************)
ReAddStartsClean ==
    [][~up /\ up' =>
         \A t \in configured' \ configured :
             /\ states'[t].reading = Healthy
             /\ states'[t].last = 0]_vars

(***************************************************************************)
(* If the process stays up and every check of t keeps returning r, every   *)
(* notifier of t ends up told its view of r (a healthy view only if it     *)
(* wants recoveries), however many crashes and flaps came before.          *)
(***************************************************************************)
SettlesOn(t, r) ==
    <>[](up /\ t \in configured /\ probe_log[t] # << >> /\ Head(probe_log[t]) = r)

ToldOf(t, r) ==
    \A c \in Channels(t) :
        Bad(View(r, c)) \/ SendRecovery[c] => alerts[t][c] = View(r, c)

PersistentReadingIsTold ==
    \A t \in Targets : \A r \in Observed : SettlesOn(t, r) => <>[]ToldOf(t, r)

-----------------------------------------------------------------------------
(***************************************************************************)
(* What the repository says and the code does not do.                      *)
(***************************************************************************)

(***************************************************************************)
(* The comment on a failed Enqueue in Process: "the next cycle             *)
(* re-evaluates and re-enqueues.  Nothing is silently marked 'already      *)
(* alerted'."  The state in memory, between cycles, never shows a notifier *)
(* a problem it was not told of.                                           *)
(***************************************************************************)
NothingSilentlyAlerted ==
    \A t \in Targets : \A c \in Channels(t) :
        LET seen == View(states[t].reading, c)
        IN  up /\ handler[t].at = "idle" /\ Bad(seen) => alerts[t][c] = seen

(***************************************************************************)
(* README and config.go: fact statuses "always alert on the first          *)
(* observation, whatever flap_streak is set to".                           *)
(***************************************************************************)
FactsAdoptedAtOnce ==
    [][\A t \in Targets :
         LET r == handler[t].rec.reading
         IN  Process(t) /\ ~unreliableStatus(r.status) /\ Bad(r)
               => states'[t].reading = r]_vars
=============================================================================
