# Certel: TLA+ models and proofs

Certel is a monitor for TLS certificates. It probes a list of targets on an
interval, records what it found, and tells each notifier (a webhook) about
problems, changes and recoveries. This directory holds TLA+ models of that
program, the TLC configurations that check them on small instances, and
theorems that TLAPS has checked for every value of the constants. All paths
below are relative to the repository.

## 1. Inventory

### 1.1 Components

**Probe scheduler** (`internal/scheduler/scheduler.go`).
State: the ticker, and one goroutine per target of the cycle in flight, behind a
semaphore that every cycle makes for itself.
Operations: `Run`, `cycle`.
Hard: a cycle that overruns the interval, cancellation at any point of a cycle,
targets that hold their slots for all their retries.
Correct when: results of one target are handled one at a time and in order, the
concurrency bound holds, nothing is left running after `Run` returned, and every
target is checked again and again.

**Prober** (`internal/probe/probe.go`, `result.go`).
State: none between checks.
Operations: `Check` (the retry loop), `checkOnce`, `evaluate`, `verify` and the
pure functions under them.
Hard: which certificates of a presented chain may speak, the order of the
diagnoses, the day boundaries, a cancellation in the retry loop.
Correct when: the verdict depends on the right certificates only, thresholds
fire exactly, an untouched server never looks better with time, and unreachable
means that all attempts failed.

**STARTTLS dialogs** (`internal/probe/starttls.go`).
State: one reader with a byte budget per negotiation.
Hard: servers that stream without end, stop in the middle, or refuse late.
Correct when: `tls_unavailable` is said only of a server that spoke the protocol
and declined, and limits end every dialog.

**Alert manager** (`internal/alert/manager.go`).
State: per target the confirmed reading, the debounce candidate and the reminder
clock, in memory; the confirmed part persisted in `alert_state`.
Operations: `Process`, `Restore` (startup), `persistState`.
Hard: crashes between the decision and the commit, failing store calls, bodies
that fail to render for one notifier, restarts inside a flap streak, floors
(`min_severity`) that give every notifier its own view of one shared state.
Correct when: a problem is never marked as alerted without its delivery, no
notifier is left with a problem that is over, reminders keep their interval,
and the debounce counts every check once.

**Dispatcher and sender** (`internal/alert/dispatcher.go`, `sender.go`).
State: the wake channel, a pass over the pending targets, one goroutine per
target being drained; durable: `notification_outbox`.
Operations: `Run`, `Wake`, `dispatchOnce`, `drainTarget`, `Send`.
Hard: lost answers, failing deletes, crashes, a target that is refused forever,
a wake-up that comes while a pass is running.
Correct when: delivery is at-least-once and in order per target, and every
committed notice is eventually sent.

**Store** (`internal/store/store.go`).
SQLite tables `alert_state`, `probe_log`, `alert_log`, `notification_outbox`
behind one connection, in WAL mode with `synchronous(NORMAL)`.
Operations: one write per caller above, `PruneAlertStates`, `PruneLogs`,
`DropOrphanedOutbox`; reads for startup, dispatchers and scrapes.
Hard: deletes that fail half way, a power failure that takes commits back.
Correct when: `Enqueue` ties the state row to the deliveries, and a row of the
outbox goes only when it was delivered or its notifier is gone.

**Monitor** (`cmd/certel/monitor.go`).
State: the context, and who is still running.
Operations: startup (load, prune, drop, restore), the result handler that ties
prober, store and manager together, the fan-out of wake-ups, `/healthz`,
shutdown, hourly pruning.
Hard: restarts with another configuration, the order of a shutdown while
handlers and sends are in flight.
Correct when: endpoints follow the recorded state over all of that, writers are
gone before the database is closed, and a shutdown ends.

**Configuration** (`internal/config/config.go`).
State: none after `Load`.
Operations: `Load` (expansion of `${env.X}`, `applyDefaults`, `Validate`).
Hard: three layers of settings in which zero is sometimes a value and sometimes
not, and two forms of `alert_repeat_interval`.
Correct when: what `Load` accepts is what the file says and can be run.

**Notification bodies** (`internal/alert/template.go`).
State: a compiled body and recovery body per notifier.
Operations: `ParseBody`, `Render`.
Hard: two resolution passes with escapes, a recovery body that is merged and
first needed long after startup.
Correct when: a monitor that started renders every alert, and a recovery is
`body` overlaid with `recovery_body`.

**Metrics** (`internal/metrics/metrics.go`).
State: the last result per target, counters, the last cycle.
Correct when: the exported series tell what the alert decision saw.

**Commands** (`cmd/certel/*.go`): `check` and `validate-config` reuse prober and
configuration; `healthcheck` and `completion` keep no state. The development
**notification sink** prints what it is sent.

### 1.2 How they interact

    Scheduler.Run --goroutine per target--> Prober.Check --Result--> handler
    handler:  Store.RecordProbe ; Manager.Process
    Process:  decide (under a lock) ; Store.Enqueue (one transaction) ; Notify
    Notify    --wake channel--> Dispatcher.Run of each fired notifier
    Dispatcher: PendingKeys ; per target NextPending ; Send ; Delete/FailOutbox
    /healthz:   age of the last cycle against livenessThreshold

Handlers of different targets run concurrently; a dispatcher runs concurrently
with everything. The only shared states are the manager's map (locked), the
database, the wake channels and the time of the last cycle.

## 2. Modules

| module | models | kind |
|---|---|---|
| `AlertPolicy` | readings, floors, debounce counting, reminders, who fires | operators |
| `AlertLedger` | what the manager promises of its tables | abstract specification |
| `Manager` | `Process`, `Restore`, startup and the store calls between them; implements `AlertLedger` | state machine |
| `Delivery` | what a notifier's durable queue promises | abstract specification |
| `Dispatcher` | one notifier's dispatcher with crashes and faults; implements `Delivery` | state machine |
| `Monitor` | handler, database and dispatchers together, over restarts, shutdowns and power failures | composition |
| `Scheduler` | `Run`, `cycle` and the retry loop, untimed | state machine |
| `CycleTiming` | the duration of cycles, `livenessThreshold` | timed state machine |
| `Certificate` | `evaluate` over presented chains while time passes, and the series exported of it | operators, state machine |
| `StartTLS` | the plaintext dialogs | state machine |
| `Bodies` | references, escapes, merging and rendering of bodies | operators |
| `Config` | defaults, inheritance, validation, the flags of `check` | operators |
| `Loading` | from a decoded file to rendered requests | state machine over both |
| `ManagerProofs`, `DispatcherProofs`, `MonitorProofs`, `SchedulerProofs`, `CycleTimingProofs`, `CertificateProofs`, `StartTLSProofs`, `LoadingProofs` | theorems | proofs |
| `MCManager`, `MCDispatcher`, `MCScheduler`, `MCCertificate`, `MCLoading`, `MCMonitor` | small instances | constants for TLC |

`CycleTiming` and `StartTLS` have only numbers for constants, so their
configurations name the modules themselves.

### 2.1 Manager

A handler of a target goes through the positions `process`, `persist`,
`enqueue` and `notify`; between any two of them other handlers may run, the
clock may move and the process may die. That is where the code leaves the lock
or calls the store.

| code | model |
|---|---|
| `Manager.states` | `states` |
| `alert_state` row | `alert_state`; no row behaves as a healthy record |
| `probe_log` rows of a target, newest first | `probe_log`, the newest `flap_streak` of them, as `Restore` reads no more |
| newest `alert_log`/`notification_outbox` row per notifier | `alerts` |
| buffered wake channel of each dispatcher | `wake` |
| `runMonitor` up to `Restore` | `Start`, with rows pruned one by one and reads that may fail |
| `RecordProbe` then `Process` | `RecordProbe`, then `Hold` or `Adopt` |
| `persistState`, `Enqueue`, `Notify` | `PersistState`, `Enqueue`/`EnqueueFails`, `Notify` |

`StoreFaults` names the store calls that may fail in an instance, and
`retention` the case that the hourly `PruneLogs` takes rows a streak is counted
from; since only a restart reads them, it shows there, as the number of newest
rows that are `Legible`. `RenderFaults` names the notifiers whose body may fail
to render.

`AlertLedger` knows the reading on record and the view each notifier was last
told, and no memory, handlers or crashes: a reading is recorded together with
notices to all who see a problem in it, or silently if nobody does, or it is
forgotten with its target. The mapping takes `recorded` from `alert_state` and
`told` from `alerts`; all else is a stutter.

### 2.2 Delivery and Dispatcher

`Delivery` numbers the notices of a target and has three steps: a notice is
committed, the oldest queued one is received (maybe again), a received one is
retired. `Dispatcher` has the loop of `Run` (`scan`, `pass`, `select`), the
semaphore, a goroutine per drained target (`next`, `attempt`, `backoff`,
`fail`, `delete`) and the handlers that commit and later wake. A request that
fails may have been acted on all the same. The refinement mapping is the
identity on `enqueued`, `outbox` and `received`; everything else is a stutter.

### 2.3 Scheduler and CycleTiming

`Scheduler` has the launching loop with its cancellation, jitter, the slots,
attempts and pauses, handlers, `wg.Wait` and the return of `Run`. What an
attempt finds and how long it takes is open. `CycleTiming` counts the same
goroutines with a clock in seconds: attempts last up to `Timeout`, a pause
lasts one second, the jitter up to `Jitter`, and what the code does in between
takes no time. It has the ticker with its one-place channel, and the age that
`/healthz` compares with `livenessThreshold`.

### 2.4 Certificate

A certificate is a subject, an issuer, an end of validity and whether its
signature is weak. `crypto/x509` is modelled from its use (chains of issuers up
to a trusted root, every member live); `leafChain`, `earliestExpired`,
`weakSignatureCert`, `daysUntil` and `evaluate` are translated. Time is in half
days, so that truncation to whole days is visible. The one action is time
passing. `Collect` is what a scrape derives from the result.

### 2.5 StartTLS

The server is the environment: at each read it sends part of a line, a line its
reply goes on after, or the end of a reply that is wanted, unwanted or garbled;
or it fails. The prober's state is which reply it waits for, the lines read of
it, and the budget left. The outcome is the one `checkOnce` makes of the error.
The SMTP rule for the last line of a reply is applied to FTP as well, whose
middle lines need no code: `TakenForReply` is such a line read as the reply.

### 2.6 Bodies, Config and Loading

A string is a sequence of parts: text, and references with a namespace, a name,
a format and maybe an escaping `$`. `expandEnv` and `substitute` are the two
passes over it. A decoded file is a record whose pointers may be `Unset`
(`ConfigFile` is its Go type), and `applyDefaults` and `Validate` are operators
on it. `Loading` takes the steps of
a startup (`Load`, `buildRuntimes`, `buildDispatchers`), each of which may
refuse, and then renders alerts of any shape. `validate-config` is its first two
steps.

### 2.7 Monitor

`runMonitor` goes through `open`, `run`, `drain` and `close`; it may be killed
or lose power in any of them and is started again with any of `Configs`. The
handler of one target and a dispatcher per notifier run in between, in fewer
steps than in `Manager` and `Dispatcher`.

| code | model |
|---|---|
| tables `alert_state`, `notification_outbox` | `db` |
| what a power failure leaves of them | `synced`: any commit may be the last one synced |
| `DropOrphanedOutbox`, one delete per notifier | `DropOrphanedOutbox`, over `orphans` |
| the context | `ctxDone` |
| `sched.Run`, `<-dispDone`, `srv.Shutdown` and `db.Close` | `SchedulerReturns`, `DispatchersDone`, `Close` |

The history variable `astray` holds the notifiers whose queue and endpoint were
cut off from the state in a way the sources admit, and `heard` those whose
endpoint received a notice that a power failure would still take back.

## 3. Runs

| run | shows | states |
|---|---|---|
| `ManagerFaults` | store faults, a body that fails to render, crashes anywhere, a target that comes and goes, `flap_streak` 3: persisted problems are backed by deliveries, an interrupted streak is not lost, a re-added target starts clean, the tables are a ledger | 800 k |
| `ManagerSettles` | `Enqueue` and `RecordProbe` work, any other call may fail, probe rows are pruned: notifiers know the state, recoveries follow problems, reminders keep their interval across restarts, network-shaped transitions are confirmed on exactly `flap_streak` recorded checks in a row; liveness: a reading that persists is told | 159 k |
| `DispatcherFaults` | all faults, crashes, cancellation, one slot, one target refused forever: refinement of `Delivery`, no lost wake-up, no starvation, shutdown ends | 12 k |
| `MonitorFaults` | all of it together, over kills, power failures, shutdowns and a notifier that joins and leaves: endpoints follow the state, rows vanish only with their notifier, writers are gone before the close; liveness: a problem that stays is told | 135 k |
| `LoadingFiles` | all files that deviate from a plain one in one of twelve groups of settings | 86 k |
| `SchedulerCycles` | three targets, two slots, cancellation anywhere: one goroutine per target, the bound, nothing after the return, all retries made, every target keeps being checked | 2.8 k |
| `CycleTight` | two waves, retries, jitter, overruns: how much slack the threshold needs | 10 k |
| `CertificateVerdict` | every chain of up to four certificates from a pool of ten, over its life, and the series exported of it | 120 k |
| `StartTLSDialogs` | every dialog up to the limits; floods are cut off | 2 k |

Three more runs exhibit places where the program does something else than its
documentation or comments say; see section 6.

### 3.1 Bounds, and why they are enough

- *Targets*: all state of `Manager` is kept per target except the wake set and
  the configuration, so one target is enough for TLC; the proofs are for any set
  of targets with interleaved handlers.
- *Notifiers*: two, of different floors; what a notifier is told depends on its
  own floor and on the shared state only. Three floors occur over all runs.
- *Readings*: one per class that the code distinguishes (healthy, below a floor,
  between floors, above all, network-shaped). The status matters only by being
  network-shaped or not and by being equal.
- *flap_streak*: up to 3, so that a streak can be broken after one and two
  agreeing checks, and be restored in its middle.
- *MaxTime*: `Manager`'s clock stops at `MaxTime + 1`. Intervals are 1, 2 and
  never; three ticks are enough for a reminder after a reminder. `MaxDuration`
  is larger than any reachable difference, as in the code.
- *MaxRows*: two notices per target, so that there is an order to break.
  In `Monitor` one row per notifier, which a retry, a drop and a power failure
  can catch in every place; a handler waits for room.
- *Monitor*: readings healthy and expired, as steps between problems are the
  business of `Manager`. The notifier that stays wants no recoveries, so that
  a state may be recorded silently; the one that comes and goes wants them.
  Instances the other way round, with a third reading (1.3 million states) and
  with two rows (2.9 million), were checked for the invariants and
  `OnlyOrphansVanish`, too, and hold; with liveness they take too long.
- *LoadingFiles*: each group has the settings that the code looks at together,
  with the values on both sides of each comparison, zero and unset; groups are
  not multiplied, because the code does not relate them. Strings have up to two
  parts, of every kind of reference there is, escaped or not.
- *Retries*, *ConnectRetries*: 1, so that there is a first and a last attempt.
- *CycleTight*: `Slack` is 3 with two waves. This is exact: with 2 the bound
  is exceeded.
- *StartTLS*: `MaxLines` 3 and `MaxBytes` 10, so that every reply of the
  longest dialog may have its full length, and either limit may come first.
- *Certificate*: three presented certificates besides the leaf; the pool has
  two cross-signs of one intermediate, a trusted and an expired root, and a
  stray. Time ends after the last certificate of interest has expired.

### 3.2 Deadlock

Deadlock is checked except where the program may stop: `Scheduler` ends when
`Run` has returned, `Certificate` when time is out, `StartTLS` when it has an
outcome, `Loading` when a file was refused.

### 3.3 Fairness

- *Manager*: the process is restarted when it died (a supervisor), a handler
  that started goes on (store calls are bounded by `busy_timeout`), configured
  targets are checked again. Nothing makes a check return any given reading.
  `PersistentReadingIsTold` assumes that the process stays up in the end and
  the reading persists, and is checked with `Enqueue` and `probe_log` working
  (a failing one is `ManagerLost`); all other calls may fail for ever.
- *Dispatcher*: weak fairness for each step of the loop and of the goroutines
  (timeouts bound HTTP requests and store calls, timers fire); strong fairness
  of `Stop`, because `select` picks a ready case at random; and `FaultsPass`:
  scans, reads, deletes and requests of a target that is not poisoned fail any
  number of times, but not forever. `EventuallyReceived` assumes moreover that
  the process stays up in the end.
- *Scheduler*: the ticker ticks, timers fire, an attempt ends within its
  timeout, handlers return, some waiting goroutine gets a free slot. That an
  attempt succeeds is never assumed, nor that a particular goroutine gets a slot.
- *Monitor*: strong fairness of reminders (intervals are
  finite: not under `never`), weak fairness of each dispatcher; strong fairness
  of a request being accepted, of a delete and of the store call of a handler,
  that is, faults come again and again but do not stay. That the process is
  up and not told to stop in the end is a premise of the property.
- *StartTLS*: for `DialogEnds` the server never falls silent. A silent one is
  ended by the deadline, which is the `Fails` step.

## 4. Proofs

The modules named `...Proofs` are checked by TLAPS for all values of the
constants, under the named assumption of each module. What those assume of
settings is what `Load` guarantees (`AcceptedRuns` below proves it of the model
of `Load`), and TLC evaluates them on every instance. Every invariant and action property that a
passing run checks is also the statement of a theorem here; the liveness
properties are left to TLC.

### 4.1 Manager

- `TypeCorrect` goes by one step per action. It needs lemmas on the operators:
  that a trailing run of a log is a number bounded by its length, and that the
  rebuilt candidate and the clamped view are of their types.
- `AlertedIsEnqueued` and `DecisionIsDelivered` share the invariant
  `TypeOK /\ AlertedMeansEnqueued /\ DecisionReachesChannels`:
  `AlertedMeansEnqueued` is not inductive, since it breaks if a record is saved
  silently while somebody sees a problem in it. `DecisionReachesChannels`
  forbids that, and is itself proved from the switch of `Process`: a notifier
  that sees a problem and does not fire sees the reading that was confirmed
  already, with no reminder due, and then nothing is saved at all.
- `ImplementsLedger` shows under the same invariant that each action is a step
  of `AlertLedger` or a stutter: an `Enqueue` is `Announce`, a state write
  `RecordSilently`, a start `Forget`, and everything else leaves both tables.
- `LiveInv` (`LiveIsInvariant`) adds what memory, handler and tables have to do
  with each other; `ReAddIsClean` follows from it.
- `RecoveriesFollowProblems` needs `Told`: who sees a problem in memory was told
  of it, except between decision and commit, and in that gap whoever is about
  to be told that a problem is over was told of the problem. A reading that
  moves below a floor and back is covered by lemmas about views.
- `ChannelsFollow` needs `Recovered`: for a notifier that wants recoveries,
  table, memory and last word agree. So a silent save that fails does no harm:
  it would have changed nothing that such a notifier sees.
- `RemindersAreSpaced` needs three parts: the clock in memory is never behind
  the table's, nor either ahead of `now` (`Clocks`); the notifiers of a target
  see the same in memory and in the table, so that a problem that fires on top
  of the same one in the table does so by the reminder clock (`Seen`); and a
  record about to be committed keeps its distance to the table (`DueSpaced`).
- `CountsInv` (`CountsIsInvariant`) bounds the count of a candidate by the
  trailing run of `probe_log`, with the row of the running handler counted once;
  `TransitionsAreConfirmed` follows. The converse, `Kept`, says that no row of
  that run is forgotten by the candidate, which gives `StreaksAreNotLost`.

The store calls that must not fail are hypotheses, because the code breaks the
property without them:

| theorem | hypothesis | otherwise |
|---|---|---|
| `RecoveriesFollowProblems`, `ChannelsFollow`, `RemindersAreSpaced` | `Enqueue` works | memory moves on although nobody was told (`ManagerLost`) |
| `ChannelsFollow` | no configuration leaves a target out | the row of a removed target is pruned, and its endpoints are not told |
| `RemindersAreSpaced` | state writes work, or all notifiers want recoveries and no body fails to render | the table keeps a problem that is over; when it comes again it is told at once, and looks like an early reminder of the row on record |
| `ReAddIsClean` | pruning a row works | the row outlives its target |
| `TransitionsAreConfirmed` | recording works | `Process` counts a check that the log does not have |
| `StreaksAreNotLost` | rows are recorded, kept and read | a restart cannot see the streak |

The failures of all other calls, crashes between any two steps and restarts with
other configurations are in the theorems. `ManagerSettles` or `ManagerFaults`
checks each property on an instance that meets its hypotheses.

### 4.2 Dispatcher

`TypeOK /\ NothingLost /\ RowInHand /\ NoLostWakeup` is inductive. `RowInHand`
(the row a goroutine holds is the oldest of its target and, before the delete,
the one last received) is what makes a delete a `Retire` of `Delivery` and a send
a `Receive`. From it follow `Implements` (every step is a step of `Delivery` or a
stutter) and, by the refinement, `DeliveredInOrder`. `TypeCorrect` and
`HoldsTheOldest` are conjuncts of the invariant.

### 4.3 Monitor

`FollowInv` (`FollowIsInvariant`) says of three copies of the state that the last
word to a notifier (the newest row of its queue, or what its endpoint received
last) is its view of that copy: of the database, of the database as a power
failure would leave it, and of the confirmed reading in memory, with the
exceptions `astray`, `heard` and the notifiers about to be fired at. The first is
`EndpointsAreTold`; the second makes it survive a power failure, the third the
next decision. `LifeInv` has the order of a life (who runs in which phase), from
which `WritersAreGone` and `RowsAreObligations` follow. They hold for any
notifiers, floors, set of configurations and length of queues.

### 4.4 Scheduler and CycleTiming

- `SchedulerInv` adds to the checked properties that goroutines are of the
  current cycle and gone before the next one (`OfThisCycle`), that attempts are
  counted (`AttemptsCounted`) and that the holders of slots are within the bound
  (`SlotsCounted`). Since no goroutine survives its cycle, the bound on one
  cycle's semaphore is a bound on all of them.
- `CycleIsBounded`: a cycle lasts at most the jitter and, per wave of targets,
  `ConnectRetries + 1` attempts with a second after each. The clock alone is no
  invariant, as a late start could be followed by a long hold. The argument is a
  count of cells: each slot has one cell per wave, open if the slot will be free
  when that wave is due. Goroutines that have no slot yet are at most as many as
  open cells (`EnoughCells`). A start shuts one cell; time shuts none that is
  needed, since nobody waits while a slot is free (the guard of `Tick`).
- `SlackIsEnough` concludes that `/healthz` is right about every legal cycle
  when the slack is larger than the number of waves: for the 30 s of the code,
  up to 29 waves. `CycleOverdue` shows that this is what it takes.

### 4.5 Certificate

For chains of any length, any certificates, trust stores and thresholds.

- `SeriesAreTrue` takes the verdict apart into its diagnoses. It needs that the
  earliest expiry of a nonempty chain is the one of a member and a bound of all.
- `AgeNeverHelps` compares the verdicts of one chain at two instants: a chain
  verified later was verified before, and the best of fewer chains expires no
  later.
- `StraysAreIgnored` compares the verdict on the peers with the one on the
  certificates that their leaf leads to. `leafChain` collects round by round;
  each round adds a certificate or is the last, so it is done after as many
  rounds as there are reachable certificates, on either chain. Since
  `WithoutExtraneous` keeps the order, paths, first matches and minima
  correspond (`Lift`).

### 4.6 StartTLS

`DialogInv` is `TypeOK`, what was agreed so far while the dialog runs, and the
three properties. `TLSIsAgreed`, `UnavailableIsDeclined` and `UnreachableIsFault`
hold for all limits and lengths of replies.

### 4.7 Loading

For every decoded file (`ConfigFile` in `LoadingAssumption`, which TLC evaluates
over all its files) and every environment.

- `LoadedInv`: until it is refused, `cfg` is what `Load` makes of `file`.
  `AcceptedRuns`, `SettingsAreFollowed`, `CheckReproduces` and `SecretsAreResolved`
  then are facts about `applyDefaults`, `Validate` and `expandEnv`.
- `StartedRenders`: the bodies of a running monitor are those `ParseBody`
  accepted. It needs a lemma that a body which renders for the one sample renders
  for every payload: validation has limited the references, the sample has no
  zero timestamp, and a zero one only makes more formats harmless.
- `RequestsFollow`: the request last sent is the rendering of a compiled body,
  whose keys, kinds and types the passes over it keep.

### 4.8 What the provers cannot do

- *Liveness*: `PersistentReadingIsTold`, `EventuallyReceived`, `ShutdownEnds`,
  `KeepsBeingChecked`, `DialogEnds` and `PresentProblemIsTold` rest on fairness
  and are only model-checked.
- *Induction*, as the library states it, takes an operator as a parameter, which
  no installed prover instantiates. Where a proof needs one (minima of finite
  sets, rounds of `leafChain`, orders on chains), it takes the least
  counterexample instead, which exists since `<` on `Nat` is well-founded
  (`LeastNatural`). That recursive functions exist is proved in the same way.

`RowInHand`, `DecisionReachesChannels`, `LiveInv`, `CountsInv`, `FollowInv` and
`CycleInBound` are not properties of a run: they are the strengthenings above,
proved for every instance, and what they are for is what the runs check.

## 5. Abstractions, and what is not modelled

Abstractions:

- Names, messages and fingerprints are left out. In `Manager`, `Dispatcher` and
  `Monitor` a body is the view of the reading it was rendered from; `Bodies`
  has what it is made of, but not what two neighbouring parts would spell
  together, nor what a date looks like. Arrays in a body and maps below the
  second level behave as what they hold.
- `alerts` holds the newest row only; `Dispatcher` has the whole queue.
- The wall clock does not go backwards. `probe_log` is ordered by it.
- Pruned probe rows stay in `probe_log` and may be read by a later start: there
  are more behaviours than the code has, never fewer.
- A crash of the process keeps every commit in `Manager` and `Dispatcher`;
  commits lost at a power failure are in `Monitor`.
- `Monitor` has one target, `flap_streak` 1, a `Send` in one step and no
  wake-ups, since the retry tick of a dispatcher may come as soon as one.
- An address is a host and a port, a URL is valid or not, a duration a number:
  their parsing, and YAML's, is not modelled.
- `Send` cannot fail before its first request: the URL and the method were
  validated when the configuration was loaded.
- A self-signed leaf that is itself in the trust store, validity that has not
  begun, and extended key usages are not modelled.
- The pause after a failed attempt ends early on cancellation; `CycleTiming`
  has no cancellation.

Not modelled:

- *The HTTP server and the prune goroutine as processes.* A shutdown gives
  requests five seconds and does not wait for the prune goroutine at all, so
  both may meet a closed database. A scrape and a health check only read, and a
  prune cut short is made up for by the next one: no property depends on them.
- *`alert_log`*: it is appended in the transaction of `Enqueue`, pruned by age
  and read by nobody.
- *Counters and gauges* of sends, store errors, cycles and the outbox: written
  beside the alert path and never read back. Write errors before
  `monitor.go:203` are not counted, the counter not being wired yet.
- *Network calls* of `checkOnce` beyond their outcome, display fields of
  `certInfo`, TLS and proxy settings of the HTTP client.
- *Flag parsing, output, exit codes* of the commands; `healthcheck`, which is
  one request; `completion`, which is a text; the notification sink, a
  development helper.

## 6. Where code and documentation disagree

Each of these runs ends with a behaviour of the program that contradicts a
quoted sentence.

| run | disagreement |
|---|---|
| `ManagerLost` | After a failed `Enqueue` the comment at `manager.go:430-432` promises that the next cycle re-enqueues. The state in memory was already moved, so the next cycle sees no change. The alert comes with the next reminder (never under `never`), or after a restart, since the row was not saved. A recovery is lost. |
| `ManagerFacts` | README and `config.go` say that facts alert at once whatever `flap_streak` is. Leaving `unreachable` or `tls_unavailable` for a fact is debounced. |
| `CycleOverdue` | `livenessThreshold` is said to cover the worst legal cycle, but leaves out the pause after the last attempt. With 31 waves of unreachable targets the slack of 30 s is used up and `/healthz` fails. |

Noted while reading and modelling, without a run:

- The record of a re-added target is clean (`ReAddStartsClean`), but its
  debounce candidate is rebuilt from the `probe_log` rows of its earlier life
  (`manager.go:219`), so its first check may complete an old streak.
- A check cut short by a shutdown is recorded and processed as `unreachable`
  (`scheduler.go:97`), which `result.go:29-30` calls a connection or protocol
  failure; `RetriedBeforeUnreachable` excludes shutdowns for that reason.
- `evaluate` passes all peers to `weakSignatureCert` (`probe.go:149`), though
  the comment at `probe.go:113-117` says the status decision never considers
  the raw peer set; `ExtraneousIgnored` excludes weakly signed strays.
- README.md:140 and ADR-0018:32 have a literal `${` written `$${`. In a URL or a
  header, which are expanded once, only `$${env.X}` loses its `$`; any other
  reference keeps both. A reference without a namespace, or to `alert`, is
  refused in a body (`template.go:302`) and passes verbatim in a URL or header.
- ADR-0018 calls substitution single-pass, "so an interpolated cert CN ... is
  inert". That holds for fields of an alert; a `${alert.X}` inside the value of
  an environment variable is substituted in the second pass.
- `validate.go:11-13`: "validate-config passed" means "monitor will start". A
  notifier's `ca_file` without a certificate passes, as only
  `NewWebhookSender` (`sender.go:36-58`) reads it, and the monitor exits.
- README.md:229-230 gives both retentions a default of 90 days; `config.go:603`
  gives the alert log 365.
- ADR-0007:45 has the real severity in `alert_log`; `Enqueue` writes the one the
  notifier saw (`store.go:262-264`).
- README.md:215 says a crash "cannot lose" an alert that is queued. A power
  failure may, with the state row that goes with it, so that it is decided
  again; `PresentProblemIsTold` shows that a problem that stays is told.
- "A still-present problem re-alerts within `alert_repeat_interval`"
  (`monitor.go:177`, `store.go:375`) does not hold under `never`.
- A notifier that is renamed may be sent the recovery of a problem it was never
  told of, since recoveries are decided from the shared state alone.
- An FTP server whose middle reply lines carry no code is judged by one of them.
- ADR-0012 says that an insecure target's expiry is the leaf's only;
  `probe.go:118` draws it from the chain.

## 7. Plan

Done: the alert path from result to endpoint (`AlertPolicy`, `Manager`,
`Delivery`, `Dispatcher`), the ledger it implements, its composition over
restarts and power failures (`Monitor`), the scheduler untimed and timed, the
verdict and its series, the STARTTLS dialogs, configuration and bodies; a proof
of every safety and action property that the runs check.

Left to model: a wall clock that steps back, and the HTTP server and the prune
goroutine as processes, if a property of theirs turns up.

Next proofs:

1. The queue of `Monitor`, projected to one notifier, implements `Delivery`
   between power failures: it would tie the two models of a dispatcher together.
2. The order in which `Scheduler` hands over results of one target, as a
   refinement of one sequential loop per target.
3. `ReAddStartsClean` extended by the candidate, for a code that clears
   `probe_log` together with the row.
