------------------------------- MODULE Monitor -------------------------------
(***************************************************************************)
(* The monitor process (cmd/certel/monitor.go) from the opening of its     *)
(* database to the closing: runMonitor, the handler of one target, and the *)
(* dispatchers of its notifiers.  The process is killed, told to stop, or  *)
(* loses power at any time, and is started again with other notifiers.     *)
(*                                                                         *)
(* What Manager, Dispatcher and Scheduler have in detail is taken in few   *)
(* steps here: the target has flap_streak 1, a reminder falls due at any   *)
(* time, a Send is one step, and wake-ups are left out, because the retry  *)
(* tick of a dispatcher may come as soon as one.                           *)
(***************************************************************************)
EXTENDS AlertPolicy, SequencesExt

CONSTANTS
    Notifiers,
    Configs,        \* the sets of notifiers the process may be started with
    MinSeverity,    \* notifier -> min_severity
    SendRecovery,   \* notifier -> send_recovery
    Observed,       \* the readings the prober may return
    Faults          \* what may go wrong in this instance

CONSTANT MaxRows    \* bound: rows queued per notifier

FaultKinds == {"kill", "power", "enqueue", "persist", "drop", "delete", "refuse"}

ASSUME MonitorAssumption ==
    /\ Configs \subseteq (SUBSET Notifiers) \ {{}} /\ Configs # {}
    /\ MinSeverity \in [Notifiers -> Severities \ {"ok"}]
    /\ SendRecovery \in [Notifiers -> BOOLEAN]
    /\ Observed \subseteq Readings
    /\ Faults \subseteq FaultKinds
    /\ MaxRows \in Nat \ {0}

VARIABLES
    main,         \* runMonitor: "down", "open", "run", "drain" or "close"
    configured,   \* the notifiers of the running (or last) configuration
    orphans,      \* notifiers whose rows DropOrphanedOutbox has yet to delete
    ctxDone,      \* the context is cancelled
    confirmed,    \* the reading in memory
    handler,      \* the handler of the target
    dispatcher,   \* notifier -> "none", or its dispatcher at "select", "send", "delete"
    db,           \* the database as the process sees it
    synced,       \* the database a power failure would leave
    told,         \* notifier -> what its endpoint received last
    heard         \* history: endpoints that received a row synced lacks

vars == << main, configured, orphans, ctxDone, confirmed, handler, dispatcher,
           db, synced, told, heard >>

process == << main, configured, orphans, ctxDone >>
outside == << told, heard >>

\* At "persist" or "enqueue" otherwise, for the notifiers that fired.
Idle == [at |-> "idle", fired |-> {}]

(***************************************************************************)
(* The database: the state row of the target and the queued rows.  History *)
(* astray: notifiers whose queue and endpoint were cut off from the state. *)
(***************************************************************************)
EmptyDatabase ==
    [state |-> Healthy, outbox |-> [c \in Notifiers |-> << >>], astray |-> {}]

\* Memory as it is before runMonitor and after it.
NoDispatchers == [c \in Notifiers |-> "none"]
Stopped ==
    /\ main' = "down" /\ orphans' = {} /\ ctxDone' = FALSE
    /\ confirmed' = Healthy /\ handler' = Idle /\ dispatcher' = NoDispatchers
    /\ UNCHANGED configured

Init ==
    /\ main = "down" /\ configured = {} /\ orphans = {} /\ ctxDone = FALSE
    /\ confirmed = Healthy /\ handler = Idle /\ dispatcher = NoDispatchers
    /\ db = EmptyDatabase /\ synced = EmptyDatabase
    /\ told = [c \in Notifiers |-> Healthy]
    /\ heard = {}

View(r, c) == clampView(r, MinSeverity[c])

(***************************************************************************)
(* A commit makes the database new.  With synchronous(NORMAL) it is synced *)
(* some time later and always with all before it: which commit is the last *)
(* one that a power failure would leave is decided when it is made.        *)
(***************************************************************************)
Commit(new) ==
    /\ db' = new
    /\ \/ synced' = new /\ heard' = {}
       \/ "power" \in Faults /\ UNCHANGED << synced, heard >>

-----------------------------------------------------------------------------
(***************************************************************************)
(* Startup: Open, LoadAlertStates, DropOrphanedOutbox, Restore and the     *)
(* start of the goroutines.                                                *)
(***************************************************************************)
\* Mutant: every queued row is taken for an orphan.
OpenUnasked ==
    /\ main = "down"
    /\ main' = "open"
    /\ configured' \in Configs
    /\ orphans' = {c \in Notifiers : db.outbox[c] # << >>}
    /\ confirmed' = db.state
    /\ UNCHANGED << ctxDone, handler, dispatcher, db, synced, outside >>

Open ==
    /\ main = "down"
    /\ main' = "open"
    /\ configured' \in Configs
    /\ orphans' = {c \in Notifiers : db.outbox[c] # << >>} \ configured'
    /\ confirmed' = db.state
    /\ UNCHANGED << ctxDone, handler, dispatcher, db, synced, outside >>

\* The rows of one notifier that is not configured.
DropOrphanedOutbox(c) ==
    /\ main = "open" /\ c \in orphans
    /\ orphans' = orphans \ {c}
    /\ Commit([db EXCEPT !.outbox[c] = << >>, !.astray = @ \cup {c}])
    /\ UNCHANGED << main, configured, ctxDone, confirmed, handler, dispatcher, told >>

\* A failure is only logged, and leaves the rest where it is.
DropFails ==
    /\ "drop" \in Faults
    /\ main = "open" /\ orphans # {}
    /\ orphans' = {}
    /\ UNCHANGED << main, configured, ctxDone, confirmed, handler, dispatcher,
                    db, synced, outside >>

Run ==
    /\ main = "open" /\ orphans = {}
    /\ main' = "run"
    /\ dispatcher' = [c \in Notifiers |-> IF c \in configured THEN "select" ELSE "none"]
    /\ UNCHANGED << configured, orphans, ctxDone, confirmed, handler, db, synced, outside >>

-----------------------------------------------------------------------------
(***************************************************************************)
(* The handler, while sched.Run has not returned; see Manager.             *)
(***************************************************************************)
Fired(r, due) ==
    {c \in configured : Fires(confirmed, r, MinSeverity[c], due, SendRecovery[c])}

Process(r, due) ==
    LET fired == Fired(r, due)
        changed == r # confirmed \/ due
    IN  /\ main = "run" /\ handler.at = "idle"
        /\ due => Bad(r)
        /\ \A c \in fired : Len(db.outbox[c]) < MaxRows
        /\ confirmed' = r
        /\ handler' = IF fired # {} THEN [at |-> "enqueue", fired |-> fired]
                      ELSE IF changed THEN [Idle EXCEPT !.at = "persist"]
                      ELSE Idle
        /\ UNCHANGED << process, dispatcher, db, synced, outside >>

\* A notifier that is not running misses what the state goes through.
Missed == db.astray \cup (Notifiers \ configured)

persistState ==
    /\ handler.at = "persist"
    /\ \/ Commit([db EXCEPT !.state = confirmed, !.astray = Missed])
       \/ "persist" \in Faults /\ UNCHANGED << db, synced, heard >>
    /\ handler' = Idle
    /\ UNCHANGED << process, confirmed, dispatcher, told >>

\* The row in a queue is what its notifier sees of the state.
Enqueue ==
    /\ handler.at = "enqueue"
    /\ Commit([state  |-> confirmed,
               outbox |-> [c \in Notifiers |-> IF c \in handler.fired
                             THEN Append(db.outbox[c], View(confirmed, c))
                             ELSE db.outbox[c]],
               astray |-> Missed \ handler.fired])
    /\ handler' = Idle
    /\ UNCHANGED << process, confirmed, dispatcher, told >>

\* From then on memory is ahead of the database.
EnqueueFails ==
    /\ "enqueue" \in Faults
    /\ handler.at = "enqueue"
    /\ handler' = Idle
    /\ db' = [db EXCEPT !.astray = @ \cup handler.fired]
    /\ UNCHANGED << process, confirmed, dispatcher, synced, outside >>

-----------------------------------------------------------------------------
(***************************************************************************)
(* The dispatcher of c; see Dispatcher.                                    *)
(***************************************************************************)
At(c, p) == dispatcher[c] = p
Goto(c, p) == dispatcher' = [dispatcher EXCEPT ![c] = p]

NextPending(c) ==
    /\ At(c, "select") /\ ~ctxDone
    /\ db.outbox[c] # << >>
    /\ Goto(c, "send")
    /\ UNCHANGED << process, confirmed, handler, db, synced, outside >>

Receive(c) ==
    /\ told' = [told EXCEPT ![c] = Head(db.outbox[c])]
    /\ heard' = IF synced.outbox[c] = << >> THEN heard \cup {c} ELSE heard

Accepted(c) ==
    /\ At(c, "send")
    /\ Receive(c)
    /\ Goto(c, "delete")
    /\ UNCHANGED << process, confirmed, handler, db, synced >>

\* Mutant: a request that failed is given up.
RefusedDropped(c) ==
    /\ "refuse" \in Faults \/ ctxDone
    /\ At(c, "send")
    /\ Commit([db EXCEPT !.outbox[c] = Tail(@)])
    /\ Goto(c, "select")
    /\ UNCHANGED << process, confirmed, handler, told >>

\* The endpoint may have acted on the request all the same.
Refused(c) ==
    /\ "refuse" \in Faults \/ ctxDone
    /\ At(c, "send")
    /\ Receive(c) \/ UNCHANGED outside
    /\ Goto(c, "select")
    /\ UNCHANGED << process, confirmed, handler, db, synced >>

DeleteOutbox(c) ==
    /\ At(c, "delete")
    /\ \/ Commit([db EXCEPT !.outbox[c] = Tail(@)])
       \/ "delete" \in Faults /\ UNCHANGED << db, synced, heard >>
    /\ Goto(c, "select")
    /\ UNCHANGED << process, confirmed, handler, told >>

StopDispatcher(c) ==
    /\ At(c, "select") /\ ctxDone
    /\ Goto(c, "none")
    /\ UNCHANGED << process, confirmed, handler, db, synced, outside >>

-----------------------------------------------------------------------------
(***************************************************************************)
(* The end: SIGTERM, or an HTTP server that cannot listen, cancels the     *)
(* context; runMonitor waits for the scheduler, then for the dispatchers,  *)
(* then for at most five seconds for HTTP requests, and closes the         *)
(* database, which syncs it.                                               *)
(***************************************************************************)
Cancel ==
    /\ main = "run" /\ ~ctxDone
    /\ ctxDone' = TRUE
    /\ UNCHANGED << main, configured, orphans, confirmed, handler, dispatcher,
                    db, synced, outside >>

Advance(from, to) ==
    /\ main = from /\ main' = to
    /\ UNCHANGED << configured, orphans, ctxDone, confirmed, handler,
                    dispatcher, db, synced, outside >>

SchedulerReturns == ctxDone /\ handler.at = "idle" /\ Advance("run", "drain")

\* Mutant: no <-dispDone.
DispatchersDoneUnasked == Advance("drain", "close")

DispatchersDone ==
    /\ \A c \in Notifiers : At(c, "none")
    /\ Advance("drain", "close")

\* The HTTP server is given its five seconds, then the database is closed.
Close ==
    /\ main = "close"
    /\ synced' = db /\ heard' = {}
    /\ Stopped
    /\ UNCHANGED << db, told >>

Kill ==
    /\ "kill" \in Faults
    /\ main # "down"
    /\ Stopped
    /\ UNCHANGED << db, synced, outside >>

\* Whose notice was received before its row was lost, is cut off.
PowerFailure ==
    /\ "power" \in Faults
    /\ db' = [synced EXCEPT !.astray = @ \cup heard]
    /\ synced' = db' /\ heard' = {}
    /\ Stopped
    /\ UNCHANGED told

-----------------------------------------------------------------------------
Handle == \E r \in Observed, due \in BOOLEAN : Process(r, due)
Remind == \E r \in Observed : Process(r, TRUE)

dispatch(c) ==
    NextPending(c) \/ Accepted(c) \/ Refused(c) \/ DeleteOutbox(c) \/ StopDispatcher(c)

Next ==
    \/ Open \/ DropFails \/ Run
    \/ \E c \in Notifiers : DropOrphanedOutbox(c)
    \/ Handle \/ persistState \/ Enqueue \/ EnqueueFails
    \/ \E c \in Notifiers : dispatch(c)
    \/ Cancel \/ SchedulerReturns \/ DispatchersDone \/ Close
    \/ Kill \/ PowerFailure

Spec == Init /\ [][Next]_vars

(***************************************************************************)
(* Fairness.  A handler and a dispatcher go on; the interval of a reminder *)
(* is finite; a failing store call or endpoint works again and again.      *)
(***************************************************************************)
Deleted(c) == DeleteOutbox(c) /\ db'.outbox # db.outbox

FairSpec ==
    /\ Spec
    /\ SF_vars(Remind) /\ SF_vars(persistState \/ Enqueue)
    /\ \A c \in Notifiers :
         WF_vars(dispatch(c)) /\ SF_vars(Accepted(c)) /\ SF_vars(Deleted(c))

-----------------------------------------------------------------------------
(***************************************************************************)
(* Properties.                                                             *)
(***************************************************************************)
\* The last thing the endpoint of c was told, or is about to be.
LastWord(c) == IF db.outbox[c] = << >> THEN told[c] ELSE Last(db.outbox[c])

(***************************************************************************)
(* From the handler over the database to the endpoints: once its queue is  *)
(* drained, an endpoint has been told what its notifier sees of the state  *)
(* (the end of a problem only if it wants recoveries).  Kills, restarts    *)
(* and shutdowns never come between.  What does, until the next notice, is *)
(* what the sources admit: rows dropped with their notifier ("a dropped    *)
(* recovery is genuinely lost"), an Enqueue that failed, a time out of the *)
(* configuration, and a notice received before a power failure took the    *)
(* commit that had queued it, and only when it had.                        *)
(***************************************************************************)
EndpointsFollowState ==
    \A c \in Notifiers \ db.astray :
        LET seen == View(db.state, c)
        IN  Bad(seen) \/ SendRecovery[c] => LastWord(c) = seen

(***************************************************************************)
(* "A row there is an undelivered obligation" (store.go, PruneLogs): it    *)
(* goes when the endpoint has it or its notifier is not configured any     *)
(* more, however the process ends and starts; only a power failure takes   *)
(* it back together with the state that queued it.                         *)
(***************************************************************************)
OnlyOrphansVanish ==
    [][\A c \in Notifiers :
         main' # "down" /\ Len(db'.outbox[c]) < Len(db.outbox[c])
           => c \notin configured \/ told[c] = Head(db.outbox[c])]_vars

(***************************************************************************)
(* "A send in flight cannot race the closing database" (monitor.go): when  *)
(* the database is closed the last handler and every dispatcher are done,  *)
(* though handlers go on queueing after the dispatchers have stopped.      *)
(***************************************************************************)
WritersGoneBeforeClose ==
    main = "close" => handler = Idle /\ dispatcher = NoDispatchers

(***************************************************************************)
(* "A still-present problem re-alerts within alert_repeat_interval"        *)
(* (monitor.go, of dropped rows; docs/content/metrics.md, of failed        *)
(* writes): if the process runs on with c configured and the problem       *)
(* stays, c is told of it in the end, and nothing else after, whatever was *)
(* dropped, lost or renamed before.  Not under an interval of "never".     *)
(***************************************************************************)
Persists(c, r) ==
    <>[](main = "run" /\ ~ctxDone /\ c \in configured /\ confirmed = r)

PresentProblemIsTold ==
    \A c \in Notifiers : \A r \in Observed :
        Bad(View(r, c)) => (Persists(c, r) => <>[](told[c] = View(r, c)))
=============================================================================
