---------------------------- MODULE MonitorProofs ----------------------------
(***************************************************************************)
(* Theorems about Monitor, for any notifiers, floors, configurations and   *)
(* any faults: kills and power failures between all steps included.        *)
(***************************************************************************)
EXTENDS Monitor, SequenceTheorems, TLAPS

-----------------------------------------------------------------------------
(***************************************************************************)
(* Types.                                                                  *)
(***************************************************************************)
Database == [state : Readings, outbox : [Notifiers -> Seq(Readings)],
             astray : SUBSET Notifiers]
Handler == [at : {"idle", "persist", "enqueue"}, fired : SUBSET Notifiers]
Places == {"none", "select", "send", "delete"}

TypeOK ==
    /\ main \in {"down", "open", "run", "drain", "close"}
    /\ configured \in SUBSET Notifiers
    /\ orphans \in SUBSET Notifiers
    /\ confirmed \in Readings
    /\ handler \in Handler
    /\ dispatcher \in [Notifiers -> Places]
    /\ db \in Database
    /\ synced \in Database
    /\ told \in [Notifiers -> Readings]
    /\ heard \in SUBSET Notifiers

LEMMA HealthyType == Healthy \in Readings
  BY DEF Healthy, Reading, Readings, Statuses, Severities

LEMMA ViewType ==
    ASSUME NEW r \in Readings, NEW c \in Notifiers
    PROVE  View(r, c) \in Readings
  BY HealthyType DEF View, clampView

\* A view without a problem is the healthy one, whatever was below the floor.
LEMMA ViewWithoutProblem ==
    ASSUME NEW r \in Readings, NEW c \in Notifiers, ~Bad(View(r, c))
    PROVE  View(r, c) = Healthy
<1>1. MinSeverity[c] \in {"warning", "critical", "emergency"}
  BY MonitorAssumption DEF MonitorAssumption, Severities
<1> QED
  BY <1>1 DEF View, clampView, Bad, severityRank, Readings, Severities

LEMMA IdleTypes == Idle \in Handler /\ NoDispatchers \in [Notifiers -> Places]
  BY DEF Idle, Handler, NoDispatchers, Places

LEMMA CommitType ==
    ASSUME TypeOK, NEW new \in Database, Commit(new)
    PROVE  db' \in Database /\ synced' \in Database /\ heard' \in SUBSET Notifiers
  BY DEF TypeOK, Commit

\* What the four writers make of the database.
LEMMA DroppedType ==
    ASSUME NEW d \in Database, NEW c \in Notifiers
    PROVE  LET new == [d EXCEPT !.outbox[c] = << >>, !.astray = @ \cup {c}]
           IN  /\ new \in Database
               /\ new.state = d.state
               /\ new.outbox = [d.outbox EXCEPT ![c] = << >>]
               /\ new.astray = d.astray \cup {c}
<1>1. << >> \in Seq(Readings)
  OBVIOUS
<1> QED
  BY <1>1 DEF Database

LEMMA DeletedType ==
    ASSUME NEW d \in Database, NEW c \in Notifiers, d.outbox[c] # << >>
    PROVE  LET new == [d EXCEPT !.outbox[c] = Tail(@)]
           IN  /\ new \in Database
               /\ new.state = d.state
               /\ new.outbox = [d.outbox EXCEPT ![c] = Tail(d.outbox[c])]
               /\ new.astray = d.astray
<1>1. d.outbox[c] \in Seq(Readings)
  BY DEF Database
<1>2. Tail(d.outbox[c]) \in Seq(Readings)
  BY <1>1, HeadTailProperties
<1> QED
  BY <1>2 DEF Database

LEMMA QueuedType ==
    ASSUME TypeOK
    PROVE  [state  |-> confirmed,
            outbox |-> [c \in Notifiers |-> IF c \in handler.fired
                          THEN Append(db.outbox[c], View(confirmed, c))
                          ELSE db.outbox[c]],
            astray |-> Missed \ handler.fired] \in Database
<1>1. ASSUME NEW c \in Notifiers
      PROVE  /\ db.outbox[c] \in Seq(Readings)
             /\ Append(db.outbox[c], View(confirmed, c)) \in Seq(Readings)
  <2>1. db.outbox[c] \in Seq(Readings) /\ View(confirmed, c) \in Readings
    BY ViewType DEF TypeOK, Database
  <2> QED
    BY <2>1
<1>2. Missed \ handler.fired \in SUBSET Notifiers
  BY DEF Missed, TypeOK, Database
<1> QED
  BY <1>1, <1>2 DEF TypeOK, Database

-----------------------------------------------------------------------------
(***************************************************************************)
(* The order of a life: handlers run while the scheduler does, dispatchers *)
(* from Run to DispatchersDone, orphans are dropped before either, and a   *)
(* dispatcher in the middle of a notice has it at the head of its queue.   *)
(***************************************************************************)
InOrder ==
    /\ main # "run" \/ handler.at = "idle" => handler = Idle
    /\ main \in {"down", "open", "close"} => dispatcher = NoDispatchers
    /\ orphans \cap configured = {}
    /\ main # "open" => orphans = {}
    /\ \A c \in Notifiers :
         /\ dispatcher[c] \in {"send", "delete"} => db.outbox[c] # << >>
         /\ dispatcher[c] = "delete" => told[c] = Head(db.outbox[c])

LifeInv == TypeOK /\ InOrder

LEMMA LifeInit == Init => LifeInv
<1> SUFFICES ASSUME Init PROVE LifeInv
  OBVIOUS
<1>1. EmptyDatabase \in Database
  <2>1. << >> \in Seq(Readings)
    OBVIOUS
  <2> QED
    BY <2>1, HealthyType DEF EmptyDatabase, Database
<1> QED
  BY <1>1, HealthyType, IdleTypes DEF Init, LifeInv, TypeOK, InOrder, NoDispatchers

\* The process ends, with the database and the endpoints as they may be then.
LEMMA StoppedLife ==
    ASSUME LifeInv, Stopped,
           db' \in Database, synced' \in Database, heard' \in SUBSET Notifiers,
           told' = told
    PROVE  LifeInv'
  BY HealthyType, IdleTypes DEF LifeInv, TypeOK, InOrder, Stopped, NoDispatchers

\* The main line moves and nothing else does.
LEMMA AdvanceLife ==
    ASSUME LifeInv, NEW from, NEW to \in {"drain", "close"}, Advance(from, to),
           from \notin {"down", "open"}, handler = Idle,
           to = "close" => dispatcher = NoDispatchers
    PROVE  LifeInv'
  BY DEF LifeInv, TypeOK, InOrder, Advance, outside

LEMMA LifeStep ==
    ASSUME LifeInv, [Next]_vars
    PROVE  LifeInv'
<1> USE DEF LifeInv
<1>1. CASE Open
  BY <1>1, MonitorAssumption DEF Open, TypeOK, InOrder, outside, Database,
     MonitorAssumption
<1>2. ASSUME NEW c \in Notifiers, DropOrphanedOutbox(c) PROVE LifeInv'
  <2>1. db' \in Database /\ synced' \in Database /\ heard' \in SUBSET Notifiers
    BY <1>2, DroppedType, CommitType DEF DropOrphanedOutbox, TypeOK
  <2> QED
    BY <1>2, <2>1 DEF DropOrphanedOutbox, TypeOK, InOrder, NoDispatchers
<1>3. CASE DropFails
  BY <1>3 DEF DropFails, TypeOK, InOrder, outside
<1>4. CASE Run
  BY <1>4 DEF Run, TypeOK, InOrder, outside, Places
<1>5. CASE Handle
  <2>1. PICK r \in Observed, due \in BOOLEAN : Process(r, due)
    BY <1>5 DEF Handle
  <2>2. r \in Readings
    BY MonitorAssumption DEF MonitorAssumption
  <2>3. handler' \in Handler /\ main = "run"
    BY <2>1 DEF Process, Handler, Idle, Fired, TypeOK
  <2> QED
    BY <2>1, <2>2, <2>3 DEF Process, process, outside, TypeOK, InOrder
<1>6. CASE persistState
  <2>1. main = "run"
    BY <1>6 DEF persistState, InOrder, Idle
  <2> DEFINE new == [db EXCEPT !.state = confirmed, !.astray = Missed]
  <2>2. Missed \in SUBSET Notifiers
    BY DEF Missed, TypeOK, Database
  <2>3. new \in Database /\ new.outbox = db.outbox
    BY <2>2 DEF TypeOK, Database
  <2>4. /\ db' \in Database /\ synced' \in Database /\ heard' \in SUBSET Notifiers
        /\ db'.outbox = db.outbox
    <3>1. Commit(new) \/ UNCHANGED << db, synced, heard >>
      BY <1>6 DEF persistState
    <3> HIDE DEF new
    <3>2. CASE Commit(new)
      BY <2>3, <3>2, CommitType DEF Commit
    <3> QED
      BY <3>1, <3>2 DEF TypeOK
  <2> QED
    BY <1>6, <2>1, <2>4, IdleTypes DEF persistState, process, TypeOK, InOrder
<1>7. CASE Enqueue
  <2>1. main = "run"
    BY <1>7 DEF Enqueue, InOrder, Idle
  <2>2. db' \in Database /\ synced' \in Database /\ heard' \in SUBSET Notifiers
    BY <1>7, QueuedType, CommitType DEF Enqueue
  <2>3. ASSUME NEW c \in Notifiers, db.outbox[c] # << >>
        PROVE  db'.outbox[c] # << >> /\ Head(db'.outbox[c]) = Head(db.outbox[c])
    <3>1. \/ db'.outbox[c] = db.outbox[c]
          \/ db'.outbox[c] = Append(db.outbox[c], View(confirmed, c))
      BY <1>7 DEF Enqueue, Commit
    <3>2. db.outbox[c] \in Seq(Readings)
      BY DEF TypeOK, Database
    <3> QED
      BY <2>3, <3>1, <3>2
  <2> QED
    BY <1>7, <2>1, <2>2, <2>3, IdleTypes DEF Enqueue, process, TypeOK, InOrder
<1>8. CASE EnqueueFails
  <2>1. main = "run"
    BY <1>8 DEF EnqueueFails, InOrder, Idle
  <2>2. db' \in Database /\ db'.outbox = db.outbox
    BY <1>8 DEF EnqueueFails, TypeOK, Database, Handler
  <2> QED
    BY <1>8, <2>1, <2>2, IdleTypes DEF EnqueueFails, process, outside, TypeOK, InOrder
<1>9. ASSUME NEW c \in Notifiers, dispatch(c) PROVE LifeInv'
  <2>1. At(c, "select") \/ At(c, "send") \/ At(c, "delete")
    BY <1>9 DEF dispatch, NextPending, Accepted, Refused, DeleteOutbox, StopDispatcher
  <2>2. main \notin {"down", "open", "close"}
    BY <2>1 DEF InOrder, At, NoDispatchers
  <2>3. ASSUME NEW p \in Places, Goto(c, p)
        PROVE  /\ dispatcher' \in [Notifiers -> Places] /\ dispatcher'[c] = p
               /\ \A d \in Notifiers \ {c} : dispatcher'[d] = dispatcher[d]
    BY <2>3 DEF Goto, TypeOK
  <2>4. db.outbox[c] \in Seq(Readings)
    BY DEF TypeOK, Database
  <2>5. CASE NextPending(c)
    BY <2>2, <2>3, <2>5 DEF NextPending, process, outside, TypeOK, InOrder, Places
  <2>6. CASE StopDispatcher(c)
    BY <2>2, <2>3, <2>6 DEF StopDispatcher, process, outside, TypeOK, InOrder, Places
  <2>7. ASSUME At(c, "send"), Receive(c)
        PROVE  /\ told' \in [Notifiers -> Readings] /\ heard' \in SUBSET Notifiers
               /\ told'[c] = Head(db.outbox[c])
               /\ \A d \in Notifiers \ {c} : told'[d] = told[d]
    <3>1. db.outbox[c] # << >> /\ Head(db.outbox[c]) \in Readings
      BY <2>4, <2>7, HeadTailProperties DEF At, InOrder
    <3> QED
      BY <2>7, <3>1 DEF Receive, TypeOK
  <2>8. CASE Accepted(c)
    BY <2>2, <2>3, <2>7, <2>8 DEF Accepted, At, process, TypeOK, InOrder, Places
  <2>9. CASE Refused(c)
    BY <2>2, <2>3, <2>7, <2>9 DEF Refused, At, process, outside, TypeOK, InOrder, Places
  <2>10. CASE DeleteOutbox(c)
    <3>1. db.outbox[c] # << >>
      BY <2>10 DEF DeleteOutbox, At, InOrder
    <3> DEFINE new == [db EXCEPT !.outbox[c] = Tail(@)]
    <3>2. new \in Database /\ new.outbox = [db.outbox EXCEPT ![c] = Tail(db.outbox[c])]
      BY <3>1, DeletedType DEF TypeOK
    <3>3. /\ db' \in Database /\ synced' \in Database /\ heard' \in SUBSET Notifiers
          /\ \A d \in Notifiers \ {c} : db'.outbox[d] = db.outbox[d]
      <4>1. Commit(new) \/ UNCHANGED << db, synced, heard >>
        BY <2>10 DEF DeleteOutbox
      <4> HIDE DEF new
      <4>2. CASE Commit(new)
        BY <3>2, <4>2, CommitType DEF Commit, TypeOK, Database
      <4> QED
        BY <4>1, <4>2 DEF TypeOK
    <3> QED
      BY <2>2, <2>3, <2>10, <3>3 DEF DeleteOutbox, process, TypeOK, InOrder, Places
  <2> QED
    BY <1>9, <2>5, <2>6, <2>8, <2>9, <2>10 DEF dispatch
<1>10. CASE Cancel
  BY <1>10 DEF Cancel, TypeOK, InOrder, outside
<1>11. CASE SchedulerReturns
  <2>1. handler = Idle /\ main = "run"
    BY <1>11 DEF SchedulerReturns, Advance, InOrder
  <2> QED
    BY <1>11, <2>1, AdvanceLife DEF SchedulerReturns
<1>12. CASE DispatchersDone
  <2>1. dispatcher = NoDispatchers
    BY <1>12 DEF DispatchersDone, At, TypeOK, NoDispatchers
  <2>2. main = "drain" /\ Advance("drain", "close")
    BY <1>12 DEF DispatchersDone, Advance
  <2> QED
    BY <2>1, <2>2, AdvanceLife DEF InOrder
<1>13. CASE Close
  BY <1>13, StoppedLife DEF Close, TypeOK
<1>14. CASE Kill
  BY <1>14, StoppedLife DEF Kill, TypeOK, outside
<1>15. CASE PowerFailure
  <2>1. db' \in Database
    BY <1>15 DEF PowerFailure, TypeOK, Database
  <2> QED
    BY <1>15, <2>1, StoppedLife DEF PowerFailure
<1>16. CASE UNCHANGED vars
  BY <1>16 DEF vars, process, outside, TypeOK, InOrder
<1> QED
  BY <1>1, <1>2, <1>3, <1>4, <1>5, <1>6, <1>7, <1>8, <1>9, <1>10, <1>11, <1>12,
     <1>13, <1>14, <1>15, <1>16 DEF Next

-----------------------------------------------------------------------------
(***************************************************************************)
(* What the endpoints know.  The database and the one a power failure      *)
(* would leave both follow their own state; and while the process is up,   *)
(* the queues follow its memory too, except where a notice that fired is   *)
(* still to be queued: the state that the next write records is memory's.  *)
(***************************************************************************)
LastWordIn(d, t, c) == IF d.outbox[c] = << >> THEN t[c] ELSE Last(d.outbox[c])

\* With the queues of d and the endpoints t, c has been told of r.
Follows(d, t, r, c) ==
    Bad(View(r, c)) \/ SendRecovery[c] => LastWordIn(d, t, c) = View(r, c)

DatabaseFollows == \A c \in Notifiers \ db.astray : Follows(db, told, db.state, c)

SyncedFollows ==
    \A c \in Notifiers \ (synced.astray \cup heard) : Follows(synced, told, synced.state, c)

MemoryFollows ==
    main # "down" => \A c \in configured \ (db.astray \cup handler.fired) :
                       Follows(db, told, confirmed, c)

FollowInv ==
    /\ LifeInv
    /\ DatabaseFollows /\ SyncedFollows /\ MemoryFollows
    /\ handler.at # "enqueue" => handler.fired = {}

LEMMA FollowsSame ==
    ASSUME NEW d, NEW e, NEW t, NEW u, NEW r, NEW c,
           e.outbox[c] = d.outbox[c], u[c] = t[c] \/ d.outbox[c] # << >>
    PROVE  Follows(e, u, r, c) <=> Follows(d, t, r, c)
  BY DEF Follows, LastWordIn

\* The last row of a queue is the last word until it is the head and leaves.
LEMMA FollowsDeleted ==
    ASSUME NEW d \in Database, NEW e, NEW t, NEW r, NEW c \in Notifiers,
           d.outbox[c] # << >>, t[c] = Head(d.outbox[c]),
           e.outbox[c] = Tail(d.outbox[c]), Follows(d, t, r, c)
    PROVE  Follows(e, t, r, c)
<1> DEFINE q == d.outbox[c]
<1>1. q \in Seq(Readings) /\ q # << >>
  BY DEF Database
<1>2. Tail(q) = << >> => Head(q) = Last(q)
  <2> HIDE DEF q
  <2>1. Len(q) \in Nat /\ Len(Tail(q)) = Len(q) - 1
    BY <1>1, HeadTailProperties, LenProperties
  <2>2. Len(<< >>) = 0
    OBVIOUS
  <2>3. Tail(q) = << >> => Len(q) - 1 = 0
    BY <2>1, <2>2, Zenon
  <2>4. Tail(q) = << >> => Len(q) = 1
    BY <2>1, <2>3
  <2> QED
    BY <1>1, <2>4 DEF Last
<1>3. Tail(q) # << >> => Last(Tail(q)) = Last(q)
  BY <1>1 DEF Last
<1> QED
  BY <1>1, <1>2, <1>3 DEF Follows, LastWordIn

LEMMA FollowsQueued ==
    ASSUME NEW d \in Database, NEW e, NEW t, NEW r \in Readings, NEW c \in Notifiers,
           e.outbox[c] = Append(d.outbox[c], View(r, c))
    PROVE  Follows(e, t, r, c)
<1>1. d.outbox[c] \in Seq(Readings) /\ View(r, c) \in Readings
  BY ViewType DEF Database
<1>2. e.outbox[c] # << >> /\ Last(e.outbox[c]) = View(r, c)
  BY <1>1 DEF Last
<1> QED
  BY <1>2 DEF Follows, LastWordIn

\* The switch of Process leaves out only notifiers that have been told already.
LEMMA NotFiredFollows ==
    ASSUME NEW d, NEW t, NEW was \in Readings, NEW r \in Readings, NEW c \in Notifiers,
           NEW due, Follows(d, t, was, c),
           ~Fires(was, r, MinSeverity[c], due, SendRecovery[c])
    PROVE  Follows(d, t, r, c)
<1>1. CASE Bad(View(r, c))
  BY <1>1 DEF Fires, Follows, View
<1>2. CASE ~Bad(View(r, c)) /\ SendRecovery[c]
  <2>1. ~Bad(View(was, c))
    BY <1>2 DEF Fires, View
  <2>2. View(r, c) = Healthy /\ View(was, c) = Healthy
    BY <1>2, <2>1, ViewWithoutProblem
  <2> QED
    BY <1>2, <2>2 DEF Follows
<1> QED
  BY <1>1, <1>2 DEF Follows

\* What is committed is followed; what a power failure leaves is that or older.
LEMMA CommitFollows ==
    ASSUME SyncedFollows, NEW new, Commit(new), told' = told,
           \A c \in Notifiers \ new.astray : Follows(new, told, new.state, c)
    PROVE  DatabaseFollows' /\ SyncedFollows'
<1>1. db' = new /\ DatabaseFollows'
  BY DEF Commit, DatabaseFollows
<1>2. CASE synced' = new /\ heard' = {}
  BY <1>1, <1>2 DEF SyncedFollows
<1>3. CASE UNCHANGED << synced, heard >>
  <2>1. synced' = synced /\ heard' = heard /\ told' = told
    BY <1>3
  <2> QED
    BY <1>1, <2>1 DEF SyncedFollows
<1> QED
  BY <1>1, <1>2, <1>3 DEF Commit

LEMMA FollowInit == Init => FollowInv
<1> SUFFICES ASSUME Init PROVE FollowInv
  OBVIOUS
<1>1. LifeInv
  BY LifeInit
<1>2. ASSUME NEW c \in Notifiers
      PROVE  Follows(EmptyDatabase, told, Healthy, c)
  BY <1>2 DEF Init, EmptyDatabase, Follows, LastWordIn, View, clampView
<1> QED
  BY <1>1, <1>2 DEF Init, FollowInv, DatabaseFollows, SyncedFollows, MemoryFollows,
     EmptyDatabase, Idle

\* Steps that touch neither a database nor an endpoint.
LEMMA UntouchedFollow ==
    ASSUME DatabaseFollows, SyncedFollows, UNCHANGED << db, synced, told, heard >>
    PROVE  DatabaseFollows' /\ SyncedFollows'
<1>1. db' = db /\ synced' = synced /\ told' = told /\ heard' = heard
  OBVIOUS
<1> QED
  BY <1>1 DEF DatabaseFollows, SyncedFollows

LEMMA FollowStep ==
    ASSUME FollowInv, [Next]_vars
    PROVE  FollowInv'
<1> DEFINE AtEnqueue == handler.at # "enqueue" => handler.fired = {}
<1>0. /\ LifeInv /\ LifeInv' /\ TypeOK /\ InOrder /\ AtEnqueue
      /\ DatabaseFollows /\ SyncedFollows /\ MemoryFollows
  BY LifeStep DEF FollowInv, LifeInv
<1>s. SUFFICES DatabaseFollows' /\ SyncedFollows' /\ MemoryFollows' /\ AtEnqueue'
  BY <1>0 DEF FollowInv
<1>i. Idle.fired = {}
  BY DEF Idle
<1> USE <1>0
<1>1. CASE Open
  <2>1. DatabaseFollows' /\ SyncedFollows'
    BY <1>1, UntouchedFollow DEF Open, outside
  <2>2. MemoryFollows'
    BY <1>1, MonitorAssumption
    DEF Open, outside, MemoryFollows, DatabaseFollows, MonitorAssumption
  <2> QED
    BY <1>1, <2>1, <2>2 DEF Open
<1>2. ASSUME NEW c \in Notifiers, DropOrphanedOutbox(c)
      PROVE  DatabaseFollows' /\ SyncedFollows' /\ MemoryFollows' /\ AtEnqueue'
  <2> DEFINE new == [db EXCEPT !.outbox[c] = << >>, !.astray = @ \cup {c}]
  <2>1. /\ new \in Database /\ new.state = db.state
        /\ new.outbox = [db.outbox EXCEPT ![c] = << >>]
        /\ new.astray = db.astray \cup {c}
    BY DroppedType DEF TypeOK
  <2>2. Commit(new) /\ told' = told
    BY <1>2 DEF DropOrphanedOutbox
  <2> HIDE DEF new
  <2>3. ASSUME NEW e \in Notifiers \ new.astray, NEW r
        PROVE  Follows(new, told, r, e) <=> Follows(db, told, r, e)
    BY <2>1, FollowsSame DEF TypeOK, Database
  <2>4. DatabaseFollows' /\ SyncedFollows'
    BY <2>1, <2>2, <2>3, CommitFollows DEF DatabaseFollows
  <2>5. MemoryFollows'
    BY <1>2, <2>1, <2>2, <2>3
    DEF DropOrphanedOutbox, MemoryFollows, Commit, TypeOK
  <2> QED
    BY <1>2, <2>4, <2>5 DEF DropOrphanedOutbox
<1>3. CASE DropFails
  BY <1>3, UntouchedFollow DEF DropFails, outside, MemoryFollows
<1>4. CASE Run
  BY <1>4, UntouchedFollow DEF Run, outside, MemoryFollows
<1>5. CASE Handle
  <2>1. PICK r \in Observed, due \in BOOLEAN : Process(r, due)
    BY <1>5 DEF Handle
  <2>2. r \in Readings /\ confirmed \in Readings
    BY MonitorAssumption DEF MonitorAssumption, TypeOK
  <2>3. DatabaseFollows' /\ SyncedFollows'
    BY <2>1, UntouchedFollow DEF Process, outside
  <2>4. AtEnqueue'
    BY <2>1 DEF Process, Idle
  <2>5. handler'.fired = Fired(r, due)
    BY <2>1 DEF Process, Idle
  <2>6. ASSUME NEW c \in configured \ (db.astray \cup Fired(r, due)), main # "down"
        PROVE  Follows(db, told, r, c)
    <3>1. c \in Notifiers
      BY DEF TypeOK
    <3>2. handler.fired = {}
      BY <2>1 DEF Process
    <3>3. Follows(db, told, confirmed, c)
      BY <2>6, <3>2 DEF MemoryFollows
    <3>4. ~Fires(confirmed, r, MinSeverity[c], due, SendRecovery[c])
      BY <2>6 DEF Fired
    <3> QED
      BY <2>2, <3>1, <3>3, <3>4, NotFiredFollows
  <2>7. MemoryFollows'
    BY <2>1, <2>5, <2>6 DEF Process, process, outside, MemoryFollows
  <2> QED
    BY <2>3, <2>4, <2>7
<1>6. CASE persistState
  <2>1. handler.fired = {} /\ handler' = Idle /\ main = "run"
    BY <1>6 DEF persistState, InOrder, Idle
  <2> DEFINE new == [db EXCEPT !.state = confirmed, !.astray = Missed]
  <2>2. new.state = confirmed /\ new.outbox = db.outbox /\ new.astray = Missed
    BY DEF TypeOK, Database
  <2>3. /\ main' = main /\ configured' = configured /\ confirmed' = confirmed
        /\ told' = told
    BY <1>6 DEF persistState, process
  <2>4. CASE Commit(new)
    <3> HIDE DEF new
    <3>1. ASSUME NEW c \in Notifiers \ new.astray
          PROVE  Follows(new, told, new.state, c)
      <4>1. c \in configured \ (db.astray \cup handler.fired)
        BY <2>1, <2>2 DEF Missed
      <4> QED
        BY <2>1, <2>2, <4>1, FollowsSame DEF MemoryFollows
    <3>2. DatabaseFollows' /\ SyncedFollows'
      BY <2>3, <2>4, <3>1, CommitFollows
    <3>3. MemoryFollows'
      BY <2>1, <2>2, <2>3, <2>4, <3>1
      DEF MemoryFollows, Commit, Missed, TypeOK
    <3> QED
      BY <2>1, <3>2, <3>3, <1>i
  <2>5. CASE UNCHANGED << db, synced, heard >>
    <3>1. DatabaseFollows' /\ SyncedFollows'
      BY <2>3, <2>5, UntouchedFollow
    <3>2. MemoryFollows'
      BY <2>1, <2>3, <2>5, <1>i DEF MemoryFollows
    <3> QED
      BY <2>1, <3>1, <3>2, <1>i
  <2> QED
    BY <1>6, <2>4, <2>5 DEF persistState
<1>7. CASE Enqueue
  <2>1. handler' = Idle /\ main = "run"
    BY <1>7 DEF Enqueue, InOrder, Idle
  <2> DEFINE new == [state  |-> confirmed,
                     outbox |-> [c \in Notifiers |-> IF c \in handler.fired
                                   THEN Append(db.outbox[c], View(confirmed, c))
                                   ELSE db.outbox[c]],
                     astray |-> Missed \ handler.fired]
  <2>2. /\ new.state = confirmed /\ new.astray = Missed \ handler.fired
        /\ \A c \in Notifiers :
             new.outbox[c] = IF c \in handler.fired
                               THEN Append(db.outbox[c], View(confirmed, c))
                               ELSE db.outbox[c]
    OBVIOUS
  <2>3. /\ Commit(new) /\ told' = told /\ main' = main
        /\ configured' = configured /\ confirmed' = confirmed
    BY <1>7 DEF Enqueue, process
  <2> HIDE DEF new
  <2>4. ASSUME NEW c \in Notifiers \ new.astray
        PROVE  Follows(new, told, new.state, c)
    <3>1. CASE c \in handler.fired
      BY <2>2, <3>1, FollowsQueued DEF TypeOK
    <3>2. CASE c \notin handler.fired
      <4>1. c \in configured \ (db.astray \cup handler.fired)
        BY <2>2, <3>2 DEF Missed
      <4> QED
        BY <2>1, <2>2, <3>2, <4>1, FollowsSame DEF MemoryFollows
    <3> QED
      BY <3>1, <3>2
  <2>5. DatabaseFollows' /\ SyncedFollows'
    BY <2>3, <2>4, CommitFollows
  <2>6. MemoryFollows'
    BY <2>2, <2>3, <2>4 DEF MemoryFollows, Commit, TypeOK
  <2> QED
    BY <2>1, <2>5, <2>6, <1>i
<1>8. CASE EnqueueFails
  <2>1. /\ db'.state = db.state /\ db'.outbox = db.outbox
        /\ db'.astray = db.astray \cup handler.fired
    BY <1>8 DEF EnqueueFails, TypeOK, Database
  <2>2. /\ main' = main /\ configured' = configured /\ confirmed' = confirmed
        /\ told' = told /\ synced' = synced /\ heard' = heard /\ handler' = Idle
    BY <1>8 DEF EnqueueFails, process, outside
  <2>3. \A c, r : Follows(db', told', r, c) <=> Follows(db, told, r, c)
    BY <2>1, <2>2, FollowsSame
  <2>4. DatabaseFollows' /\ SyncedFollows'
    BY <2>1, <2>2, <2>3 DEF DatabaseFollows, SyncedFollows
  <2>5. MemoryFollows'
    BY <2>1, <2>2, <2>3, <1>i DEF MemoryFollows
  <2> QED
    BY <2>2, <2>4, <2>5, <1>i
<1>9. ASSUME NEW c \in Notifiers, dispatch(c)
      PROVE  DatabaseFollows' /\ SyncedFollows' /\ MemoryFollows' /\ AtEnqueue'
  <2>1. /\ main' = main /\ configured' = configured /\ confirmed' = confirmed
        /\ handler' = handler
    BY <1>9 DEF dispatch, NextPending, Accepted, Refused, DeleteOutbox,
       StopDispatcher, process
  <2>2. ASSUME UNCHANGED << db, synced, told, heard >>
        PROVE  DatabaseFollows' /\ SyncedFollows' /\ MemoryFollows'
    BY <2>1, <2>2, UntouchedFollow DEF MemoryFollows
  <2>3. ASSUME At(c, "send"), Receive(c), db' = db, synced' = synced
        PROVE  DatabaseFollows' /\ SyncedFollows' /\ MemoryFollows'
    <3>1. db.outbox[c] # << >>
      BY <2>3 DEF At, InOrder
    <3>2. \A r : \A e \in Notifiers :
            Follows(db, told', r, e) <=> Follows(db, told, r, e)
      <4>1. \A e \in Notifiers : told'[e] = told[e] \/ db.outbox[e] # << >>
        BY <2>3, <3>1 DEF Receive, TypeOK
      <4> QED
        BY <4>1, FollowsSame
    <3>3. \A r : \A e \in Notifiers \ heard' :
            Follows(synced, told', r, e) <=> Follows(synced, told, r, e)
      <4>1. \A e \in Notifiers \ heard' : told'[e] = told[e] \/ synced.outbox[e] # << >>
        BY <2>3 DEF Receive, TypeOK
      <4> QED
        BY <4>1, FollowsSame
    <3>4. heard \subseteq heard'
      BY <2>3 DEF Receive
    <3>5. DatabaseFollows'
      BY <2>3, <3>2 DEF DatabaseFollows
    <3>6. SyncedFollows'
      BY <2>3, <3>3, <3>4 DEF SyncedFollows
    <3>7. MemoryFollows'
      BY <2>1, <2>3, <3>2 DEF MemoryFollows, TypeOK
    <3> QED
      BY <3>5, <3>6, <3>7
  <2>4. CASE NextPending(c) \/ StopDispatcher(c)
    BY <2>1, <2>2, <2>4 DEF NextPending, StopDispatcher, outside
  <2>5. CASE Accepted(c)
    BY <2>1, <2>3, <2>5 DEF Accepted
  <2>6. CASE Refused(c)
    BY <2>1, <2>2, <2>3, <2>6 DEF Refused, outside
  <2>7. CASE DeleteOutbox(c)
    <3>1. db.outbox[c] # << >> /\ told[c] = Head(db.outbox[c]) /\ told' = told
      BY <2>7 DEF DeleteOutbox, At, InOrder
    <3> DEFINE new == [db EXCEPT !.outbox[c] = Tail(@)]
    <3>2. /\ new.state = db.state /\ new.astray = db.astray
          /\ new.outbox = [db.outbox EXCEPT ![c] = Tail(db.outbox[c])]
      BY <3>1, DeletedType DEF TypeOK
    <3>3. Commit(new) \/ UNCHANGED << db, synced, heard >>
      BY <2>7 DEF DeleteOutbox
    <3> HIDE DEF new
    <3>4. ASSUME NEW e \in Notifiers, NEW r, Follows(db, told, r, e)
          PROVE  Follows(new, told, r, e)
      <4>1. CASE e = c
        <5>1. new.outbox[c] = Tail(db.outbox[c])
          BY <3>2 DEF TypeOK, Database
        <5> QED
          BY <3>1, <3>4, <4>1, <5>1, FollowsDeleted DEF TypeOK
      <4>2. CASE e # c
        <5>1. new.outbox[e] = db.outbox[e]
          BY <3>2, <4>2 DEF TypeOK, Database
        <5> QED
          BY <3>4, <5>1, FollowsSame
      <4> QED
        BY <4>1, <4>2
    <3>5. CASE Commit(new)
      <4>1. DatabaseFollows' /\ SyncedFollows'
        BY <3>1, <3>2, <3>4, <3>5, CommitFollows DEF DatabaseFollows
      <4>2. MemoryFollows'
        BY <2>1, <3>1, <3>2, <3>4, <3>5 DEF MemoryFollows, Commit, TypeOK
      <4> QED
        BY <2>1, <4>1, <4>2
    <3>6. CASE UNCHANGED << db, synced, heard >>
      BY <2>1, <2>2, <3>1, <3>6
    <3> QED
      BY <3>3, <3>5, <3>6
  <2> QED
    BY <1>9, <2>4, <2>5, <2>6, <2>7 DEF dispatch
<1>10. CASE Cancel
  BY <1>10, UntouchedFollow DEF Cancel, outside, MemoryFollows
<1>11. CASE SchedulerReturns \/ DispatchersDone
  <2>1. /\ UNCHANGED << configured, confirmed, handler, db, synced, told, heard >>
        /\ main # "down"
    BY <1>11 DEF SchedulerReturns, DispatchersDone, Advance, outside
  <2> QED
    BY <2>1, UntouchedFollow DEF MemoryFollows
<1>12. CASE Close
  BY <1>12, <1>i DEF Close, Stopped, DatabaseFollows, SyncedFollows, MemoryFollows
<1>13. CASE Kill
  BY <1>13, <1>i, UntouchedFollow DEF Kill, Stopped, outside, MemoryFollows
<1>14. CASE PowerFailure
  <2>1. /\ db'.state = synced.state /\ db'.outbox = synced.outbox
        /\ db'.astray = synced.astray \cup heard
    BY <1>14 DEF PowerFailure, TypeOK, Database
  <2>2. /\ told' = told /\ synced' = db' /\ heard' = {}
        /\ main' = "down" /\ handler' = Idle
    BY <1>14 DEF PowerFailure, Stopped
  <2>3. \A c, r : Follows(db', told, r, c) <=> Follows(synced, told, r, c)
    BY <2>1, FollowsSame
  <2> QED
    BY <2>1, <2>2, <2>3, <1>i DEF DatabaseFollows, SyncedFollows, MemoryFollows
<1>15. CASE UNCHANGED vars
  BY <1>15, UntouchedFollow DEF vars, process, outside, MemoryFollows
<1> QED
  BY <1>1, <1>2, <1>3, <1>4, <1>5, <1>6, <1>7, <1>8, <1>9, <1>10, <1>11, <1>12,
     <1>13, <1>14, <1>15 DEF Next

-----------------------------------------------------------------------------
THEOREM FollowIsInvariant == Spec => []FollowInv
<1>1. Init => FollowInv
  BY FollowInit
<1>2. FollowInv /\ [Next]_vars => FollowInv'
  BY FollowStep
<1> QED
  BY <1>1, <1>2, PTL DEF Spec

(***************************************************************************)
(* Kills, power failures, restarts with other notifiers and failures of    *)
(* every store call included: an endpoint is told, or about to be, what    *)
(* its notifier sees of the state the database holds; exceptions are only  *)
(* the notifiers that the property names.                                  *)
(***************************************************************************)
THEOREM EndpointsAreTold == Spec => []EndpointsFollowState
<1>1. FollowInv => EndpointsFollowState
  BY DEF FollowInv, DatabaseFollows, Follows, LastWordIn, EndpointsFollowState,
     LastWord
<1> QED
  BY <1>1, FollowIsInvariant, PTL

(***************************************************************************)
(* No handler and no dispatcher is left when the database is closed.       *)
(***************************************************************************)
THEOREM WritersAreGone == Spec => []WritersGoneBeforeClose
<1>1. FollowInv => WritersGoneBeforeClose
  BY DEF FollowInv, LifeInv, InOrder, WritersGoneBeforeClose
<1> QED
  BY <1>1, FollowIsInvariant, PTL

(***************************************************************************)
(* Only two steps of a process shorten a queue: an orphan's rows dropped   *)
(* at startup, and the deletion of the row its endpoint has just had.      *)
(***************************************************************************)
THEOREM RowsAreObligations == Spec => OnlyOrphansVanish
<1> DEFINE Kept == \A c \in Notifiers :
             main' # "down" /\ Len(db'.outbox[c]) < Len(db.outbox[c])
               => c \notin configured \/ told[c] = Head(db.outbox[c])
<1>1. ASSUME LifeInv, [Next]_vars PROVE [Kept]_vars
  <2>0. /\ TypeOK /\ InOrder
        /\ \A c \in Notifiers : /\ db.outbox[c] \in Seq(Readings)
                                /\ Len(db.outbox[c]) \in Nat
    BY <1>1 DEF LifeInv, TypeOK, Database
  <2> SUFFICES ASSUME NEW c \in Notifiers, Next, main' # "down", c \in configured,
                      told[c] # Head(db.outbox[c])
               PROVE  db'.outbox[c] = db.outbox[c]
                      \/ (\E x \in Readings : db'.outbox[c] = Append(db.outbox[c], x))
    BY <1>1, <2>0
  <2>1. ASSUME NEW e \in Notifiers, DropOrphanedOutbox(e)
        PROVE  db'.outbox[c] = db.outbox[c]
    BY <2>0, <2>1 DEF DropOrphanedOutbox, Commit, InOrder, TypeOK, Database
  <2>2. CASE persistState
    BY <2>0, <2>2 DEF persistState, Commit, TypeOK, Database
  <2>3. CASE Enqueue
    BY <2>0, <2>3, ViewType DEF Enqueue, Commit, TypeOK
  <2>4. CASE EnqueueFails
    BY <2>0, <2>4 DEF EnqueueFails, TypeOK, Database
  <2>5. ASSUME NEW e \in Notifiers, dispatch(e)
        PROVE  db'.outbox[c] = db.outbox[c]
    <3>1. CASE DeleteOutbox(e)
      <4>1. e # c
        BY <2>0, <3>1 DEF DeleteOutbox, At, InOrder
      <4> QED
        BY <2>0, <3>1, <4>1 DEF DeleteOutbox, Commit, TypeOK, Database
    <3> QED
      BY <2>5, <3>1 DEF dispatch, NextPending, Accepted, Refused, StopDispatcher
  <2>6. CASE Open \/ DropFails \/ Run \/ Handle \/ Cancel \/ SchedulerReturns
             \/ DispatchersDone
    BY <2>6 DEF Open, DropFails, Run, Handle, Process, Cancel, SchedulerReturns,
       DispatchersDone, Advance
  <2>7. ~(Close \/ Kill \/ PowerFailure)
    BY DEF Close, Kill, PowerFailure, Stopped
  <2> QED
    BY <2>1, <2>2, <2>3, <2>4, <2>5, <2>6, <2>7 DEF Next
<1>2. FollowInv /\ [Next]_vars => [Kept]_vars
  BY <1>1 DEF FollowInv
<1> QED
  BY <1>2, FollowIsInvariant, PTL DEF Spec, OnlyOrphansVanish
=============================================================================
