--------------------------- MODULE ManagerProofs ---------------------------
(***************************************************************************)
(* Theorems about Manager, for any targets, notifiers, floors, streaks,    *)
(* intervals and any set of store calls that may fail.  First what the     *)
(* tables keep step by step; then what lasts from one cycle to the next    *)
(* and over restarts, where the store calls that must not fail are each    *)
(* theorem's hypothesis.                                                   *)
(***************************************************************************)
EXTENDS Manager, FiniteSetTheorems, SequenceTheorems, TLAPS

-----------------------------------------------------------------------------
(***************************************************************************)
(* The operators of AlertPolicy return what their types say.               *)
(***************************************************************************)

\* The trailing run of a log, that reconstructPending counts, is a number.
LEMMA TrailingRunType ==
    ASSUME NEW log \in Seq(Readings)
    PROVE  TrailingRun(log) \in Nat
<1>1. Len(log) \in Nat
  OBVIOUS
<1>2. IsFiniteSet(1 .. Len(log))
  BY <1>1, FS_Interval
<1>3. IsFiniteSet({k \in 1 .. Len(log) : \A i \in 1 .. k : log[i] = log[1]})
  BY <1>2, FS_Subset
<1> QED
  BY <1>3, FS_CardinalityType DEF TrailingRun

\* Restore rebuilds a well-formed candidate from any log.
LEMMA ReconstructType ==
    ASSUME NEW n \in Nat \ {0}, NEW r \in Readings, NEW log \in Seq(Readings)
    PROVE  reconstructPending(n, r, log) \in Candidates
<1>1. AtMost(n - 1, TrailingRun(log)) \in Nat
  BY TrailingRunType DEF AtMost
<1>2. Healthy \in Readings
  BY DEF Healthy, Reading, Readings, Statuses, Severities
<1>3. log # << >> => log[1] \in Readings
  OBVIOUS
<1> QED
  BY <1>1, <1>2, <1>3 DEF reconstructPending, NoCandidate, Candidates

LEMMA HealthyType == Healthy \in Readings
  BY DEF Healthy, Reading, Readings, Statuses, Severities

\* Counting a reading keeps a candidate well formed.
LEMMA CountedType ==
    ASSUME NEW p \in Candidates, NEW r \in Readings
    PROVE  Counted(p, r) \in Candidates
  BY DEF Counted, Candidates

LEMMA ClampType ==
    ASSUME NEW r \in Readings, NEW floor
    PROVE  clampView(r, floor) \in Readings
  BY HealthyType DEF clampView

\* The log kept for a target, after a row was put in front, is a log.
LEMMA NewestType ==
    ASSUME NEW t \in Targets, NEW log \in Seq(Readings), ManagerAssumption
    PROVE  Newest(t, log) \in Seq(Readings)
<1>1. FlapStreak[t] \in Nat \ {0}
  BY DEF ManagerAssumption
<1>2. /\ AtMost(FlapStreak[t], Len(log)) \in Nat
      /\ AtMost(FlapStreak[t], Len(log)) <= Len(log)
  BY <1>1 DEF AtMost
<1>3. \A i \in 1 .. AtMost(FlapStreak[t], Len(log)) : log[i] \in Readings
  BY <1>2
<1> QED
  BY <1>2, <1>3, SubSeqProperties DEF Newest

-----------------------------------------------------------------------------
(***************************************************************************)
(* Type correctness.                                                       *)
(***************************************************************************)
LEMMA CleanTypes ==
    /\ CleanRecord \in StateRecord
    /\ NoCandidate \in Candidates
    /\ CleanState \in TargetState
    /\ Idle \in Handler
  BY HealthyType DEF CleanRecord, StateRecord, NoCandidate, Candidates,
     CleanState, InMemory, TargetState, Idle, Handler, Positions

LEMMA InMemoryType ==
    ASSUME NEW rec \in StateRecord, NEW p \in Candidates
    PROVE  InMemory(rec, p) \in TargetState
  BY DEF InMemory, StateRecord, TargetState

\* A handler that moves keeps well-formed locals.
LEMMA GotoType ==
    ASSUME TypeOK, NEW t \in Targets, NEW p \in Positions, Goto(t, p)
    PROVE  handler' \in [Targets -> Handler]
  BY CleanTypes DEF TypeOK, Goto, Handler

LEMMA TypeInit == ManagerAssumption /\ Init => TypeOK
<1> SUFFICES ASSUME ManagerAssumption, Init PROVE TypeOK
  OBVIOUS
<1>1. << >> \in Seq(Readings)
  OBVIOUS
<1>2. probe_log \in [Targets -> Seq(Readings)]
  BY <1>1 DEF Init
<1>3. alerts \in [Targets -> [Notifiers -> Readings]]
  BY HealthyType DEF Init
<1>4. /\ states \in [Targets -> TargetState]
      /\ handler \in [Targets -> Handler]
      /\ alert_state \in [Targets -> StateRecord]
  BY CleanTypes DEF Init
<1>5. now \in 1 .. MaxTime + 1
  BY DEF Init, ManagerAssumption
<1> QED
  BY <1>2, <1>3, <1>4, <1>5 DEF Init, TypeOK

LEMMA TypeStep ==
    ASSUME ManagerAssumption, TypeOK, [Next]_vars
    PROVE  TypeOK'
<1>1. CASE Start
  <2>1. PICK cfg \in Configs :
          /\ configured' = cfg
          /\ PruneAlertStates(cfg)
          /\ \E rows \in [cfg -> UNION {Legible(t) : t \in cfg}] :
               /\ \A t \in cfg : rows[t] \in Legible(t)
               /\ states' = [t \in Targets |->
                               IF t \in cfg THEN Restored(t, rows[t]) ELSE CleanState]
    BY <1>1 DEF Start
  <2>2. alert_state' \in [Targets -> StateRecord]
    BY <2>1, CleanTypes DEF PruneAlertStates, TypeOK
  <2>3. ASSUME NEW t \in Targets, NEW n \in Legible(t)
        PROVE  Restored(t, n) \in TargetState
    <3>1. /\ alert_state[t] \in StateRecord
          /\ alert_state[t].reading \in Readings
          /\ FlapStreak[t] \in Nat \ {0}
          /\ probe_log[t] \in Seq(Readings)
      BY DEF TypeOK, StateRecord, ManagerAssumption
    <3>2. SubSeq(probe_log[t], 1, n) \in Seq(Readings)
      <4>1. n \in 0 .. Len(probe_log[t])
        BY DEF Legible
      <4> QED
        BY <3>1, <4>1, SubSeqProperties
    <3>3. Newest(t, SubSeq(probe_log[t], 1, n)) \in Seq(Readings)
      BY <3>1, <3>2, NewestType
    <3>4. reconstructPending(FlapStreak[t], alert_state[t].reading,
                             Newest(t, SubSeq(probe_log[t], 1, n))) \in Candidates
      BY <3>1, <3>3, ReconstructType
    <3> QED
      BY <3>1, <3>4, CleanTypes, InMemoryType DEF Restored
  <2>4. states' \in [Targets -> TargetState]
    <3>1. PICK rows \in [cfg -> UNION {Legible(t) : t \in cfg}] :
            /\ \A t \in cfg : rows[t] \in Legible(t)
            /\ states' = [t \in Targets |->
                            IF t \in cfg THEN Restored(t, rows[t]) ELSE CleanState]
      BY <2>1
    <3>2. ASSUME NEW t \in Targets
          PROVE  (IF t \in cfg THEN Restored(t, rows[t]) ELSE CleanState) \in TargetState
      BY <2>3, <3>1, CleanTypes
    <3> QED
      BY <3>1, <3>2
  <2>5. configured' \in SUBSET Targets
    BY <2>1 DEF ManagerAssumption
  <2> QED
    BY <1>1, <2>2, <2>4, <2>5 DEF Start, TypeOK
<1>2. CASE Crash
  BY <1>2, CleanTypes DEF Crash, TypeOK
<1>3. CASE Tick
  BY <1>3 DEF Tick, TypeOK, ManagerAssumption
<1>4. ASSUME NEW t \in Targets, NEW r \in Observed, RecordProbe(t, r)
      PROVE  TypeOK'
  <2>1. r \in Readings
    BY DEF ManagerAssumption
  <2>2. handler' \in [Targets -> Handler]
    BY <1>4, <2>1, CleanTypes DEF RecordProbe, TypeOK, Handler, Positions,
       StateRecord, CleanRecord
  <2>3. << r >> \o probe_log[t] \in Seq(Readings)
    BY <2>1, ConcatProperties DEF TypeOK
  <2>4. Newest(t, << r >> \o probe_log[t]) \in Seq(Readings)
    BY <2>3, NewestType
  <2>5. probe_log' \in [Targets -> Seq(Readings)]
    BY <1>4, <2>4 DEF RecordProbe, TypeOK
  <2> QED
    BY <1>4, <2>2, <2>5 DEF RecordProbe, TypeOK
<1>5. ASSUME NEW t \in Targets, Hold(t) PROVE TypeOK'
  <2>1. handler' \in [Targets -> Handler]
    BY <1>5, GotoType DEF Hold, Positions
  <2>2. Counted(states[t].pending, handler[t].rec.reading) \in Candidates
    BY CountedType DEF TypeOK, TargetState, Handler, StateRecord
  <2> DEFINE counted == Counted(states[t].pending, handler[t].rec.reading)
             held == [states[t] EXCEPT !.pending = counted]
  <2>3. states' = [states EXCEPT ![t] = held]
    BY <1>5 DEF Hold
  <2>4. states' \in [Targets -> TargetState]
    <3> HIDE DEF counted
    <3>1. states[t] \in TargetState /\ counted \in Candidates
      BY <2>2 DEF TypeOK, counted
    <3>2. held \in TargetState
      BY <3>1 DEF TargetState
    <3> HIDE DEF held
    <3> QED
      BY <2>3, <3>2 DEF TypeOK
  <2> QED
    BY <1>5, <2>1, <2>4 DEF Hold, TypeOK
<1>6. ASSUME NEW t \in Targets, Adopt(t) PROVE TypeOK'
  <2> DEFINE r == handler[t].rec.reading
             rec == [reading |-> r,
                     last |-> IF targetProblemFired(t, r) THEN now ELSE states[t].last]
  <2>1. rec \in StateRecord
    BY DEF TypeOK, TargetState, Handler, StateRecord
  <2>2. states' = [states EXCEPT ![t] = InMemory(rec, NoCandidate)]
    BY <1>6 DEF Adopt
  <2>3. states' \in [Targets -> TargetState]
    BY <2>1, <2>2, CleanTypes, InMemoryType DEF TypeOK
  <2>4. PICK unrendered \in SUBSET RenderFaults :
          LET fired == Fired(t, r) \ unrendered
          IN  \/ handler' = [handler EXCEPT ![t] =
                               [at |-> "enqueue", rec |-> rec, fired |-> fired]]
              \/ handler' = [handler EXCEPT ![t] =
                               [at |-> "persist", rec |-> rec, fired |-> {}]]
              \/ handler' = [handler EXCEPT ![t] = Idle]
    <3> HIDE DEF rec
    <3> QED
      BY <1>6, Zenon DEF Adopt, rec
  <2>5. Fired(t, r) \in SUBSET Notifiers
    BY DEF Fired, ManagerAssumption
  <2>6. handler' \in [Targets -> Handler]
    <3> DEFINE fired == Fired(t, r) \ unrendered
               enqueue == [at |-> "enqueue", rec |-> rec, fired |-> fired]
               persist == [at |-> "persist", rec |-> rec, fired |-> {}]
    <3>1. enqueue \in Handler /\ persist \in Handler
      <4> HIDE DEF rec
      <4> QED
        BY <2>1, <2>5 DEF Handler, Positions
    <3>2. \/ handler' = [handler EXCEPT ![t] = enqueue]
          \/ handler' = [handler EXCEPT ![t] = persist]
          \/ handler' = [handler EXCEPT ![t] = Idle]
      BY <2>4
    <3> HIDE DEF enqueue, persist
    <3> QED
      BY <3>1, <3>2, CleanTypes DEF TypeOK
  <2> QED
    BY <1>6, <2>3, <2>6 DEF Adopt, TypeOK
<1>7. ASSUME NEW t \in Targets, PersistState(t) PROVE TypeOK'
  <2>1. handler' \in [Targets -> Handler]
    BY <1>7, GotoType DEF PersistState, Positions
  <2>2. alert_state' \in [Targets -> StateRecord]
    BY <1>7 DEF PersistState, TypeOK, Handler
  <2> QED
    BY <1>7, <2>1, <2>2 DEF PersistState, TypeOK
<1>8. ASSUME NEW t \in Targets, Enqueue(t) PROVE TypeOK'
  <2>1. handler' \in [Targets -> Handler]
    BY <1>8, GotoType DEF Enqueue, Positions
  <2>2. handler[t].rec \in StateRecord /\ handler[t].rec.reading \in Readings
    BY DEF TypeOK, Handler, StateRecord
  <2>3. \A c \in Notifiers :
          clampView(handler[t].rec.reading, MinSeverity[c]) \in Readings
    BY <2>2, ClampType
  <2>4. alert_state' \in [Targets -> StateRecord]
    BY <1>8, <2>2 DEF Enqueue, TypeOK
  <2>5. alerts' \in [Targets -> [Notifiers -> Readings]]
    BY <1>8, <2>3 DEF Enqueue, TypeOK
  <2> QED
    BY <1>8, <2>1, <2>4, <2>5 DEF Enqueue, TypeOK
<1>9. ASSUME NEW t \in Targets, EnqueueFails(t) PROVE TypeOK'
  <2>1. handler' \in [Targets -> Handler]
    BY <1>9, GotoType DEF EnqueueFails, Positions
  <2> QED
    BY <1>9, <2>1 DEF EnqueueFails, TypeOK
<1>10. ASSUME NEW t \in Targets, Notify(t) PROVE TypeOK'
  <2>1. handler' \in [Targets -> Handler]
    BY <1>10, GotoType DEF Notify, Positions
  <2>2. wake' \in SUBSET Notifiers
    BY <1>10 DEF Notify, TypeOK, Handler
  <2> QED
    BY <1>10, <2>1, <2>2 DEF Notify, TypeOK
<1>11. ASSUME NEW c \in Notifiers, TakeWake(c) PROVE TypeOK'
  BY <1>11 DEF TakeWake, TypeOK
<1>12. CASE UNCHANGED vars
  BY <1>12 DEF vars, TypeOK
<1> QED
  BY <1>1, <1>2, <1>3, <1>4, <1>5, <1>6, <1>7, <1>8, <1>9, <1>10, <1>11, <1>12
     DEF Next, Step, Process

(***************************************************************************)
(* The tables, the manager's memory and the handlers' locals keep their    *)
(* shape through every interleaving, crash and store failure.              *)
(***************************************************************************)
THEOREM TypeCorrect == Spec => []TypeOK
<1>1. Init => TypeOK
  BY TypeInit, ManagerAssumption
<1>2. TypeOK /\ [Next]_vars => TypeOK'
  BY TypeStep, ManagerAssumption
<1> QED
  BY <1>1, <1>2, PTL DEF Spec

-----------------------------------------------------------------------------
(***************************************************************************)
(* AlertedMeansEnqueued is not inductive alone: Enqueue must know that the *)
(* record it writes shows no problem to a notifier it does not tell.  That *)
(* is DecisionReachesChannels, which Adopt establishes.                    *)
(***************************************************************************)
AlertedInv == TypeOK /\ AlertedMeansEnqueued /\ DecisionReachesChannels

\* A problem seen through a floor is the reading itself.
LEMMA ProblemSeenWhole ==
    ASSUME NEW r \in Readings, NEW floor, Bad(clampView(r, floor))
    PROVE  clampView(r, floor) = r
  BY DEF clampView, Bad, Healthy, Reading

\* The switch of Process leaves out a notifier that sees a problem only when
\* the reading is the confirmed one and no reminder is due.
LEMMA NotFiredMeansUnchanged ==
    ASSUME TypeOK, NEW t \in Targets, NEW r \in Readings,
           NEW c \in TargetNotifiers[t], Bad(View(r, c)), c \notin Fired(t, r)
    PROVE  r = states[t].reading /\ ~targetProblemFired(t, r)
<1> DEFINE was == View(states[t].reading, c)
<1>1. states[t].reading \in Readings
  BY DEF TypeOK, TargetState
<1>2. View(r, c) = r
  BY ProblemSeenWhole DEF View
<1>3. ~Fires(states[t].reading, r, MinSeverity[c], repeatDue(t, r), SendRecovery[c])
  BY DEF Fired
<1>4. View(r, c) = was /\ ~repeatDue(t, r)
  BY <1>3 DEF Fires, View
<1>5. was = states[t].reading
  BY <1>1, <1>4, ProblemSeenWhole DEF View
<1> QED
  BY <1>2, <1>4, <1>5 DEF targetProblemFired, shapeChange

\* An unchanged reading with no reminder due reaches nobody.
LEMMA UnchangedFiresNothing ==
    ASSUME NEW t \in Targets, NEW r,
           r = states[t].reading, ~targetProblemFired(t, r)
    PROVE  Fired(t, r) = {}
  BY DEF Fired, Fires, targetProblemFired

LEMMA AlertedInit == ManagerAssumption /\ Init => AlertedInv
<1> SUFFICES ASSUME ManagerAssumption, Init PROVE AlertedInv
  OBVIOUS
<1>1. \A c \in Notifiers : ~Bad(View(Healthy, c))
  BY DEF View, clampView, Bad, Healthy, Reading
<1>2. \A t \in Targets : /\ handler[t].rec.reading = Healthy
                          /\ alert_state[t].reading = Healthy
  BY DEF Init, Idle, CleanRecord
<1>3. \A t \in Targets : Channels(t) \subseteq Notifiers
  BY DEF Channels, ManagerAssumption
<1> QED
  BY <1>1, <1>2, <1>3, TypeInit
     DEF AlertedInv, AlertedMeansEnqueued, DecisionReachesChannels

\* What the inductive step says of one target and one of its notifiers.
ChannelInv(t, c) ==
    /\ Bad(View(alert_state[t].reading, c))
         => alerts[t][c] = View(alert_state[t].reading, c)
    /\ Bad(View(handler[t].rec.reading, c))
         => /\ handler[t].at = "enqueue" => c \in handler[t].fired
            /\ handler[t].at # "persist"

LEMMA AlertedStep ==
    ASSUME ManagerAssumption, AlertedInv, [Next]_vars
    PROVE  AlertedInv'
<1>1. TypeOK /\ TypeOK'
  BY TypeStep DEF AlertedInv
<1> SUFFICES ASSUME NEW t \in Targets, NEW c \in Channels(t)
             PROVE  ChannelInv(t, c)'
  BY <1>1 DEF AlertedInv, AlertedMeansEnqueued, DecisionReachesChannels,
     ChannelInv, Channels
<1>2. ChannelInv(t, c)
  BY DEF AlertedInv, AlertedMeansEnqueued, DecisionReachesChannels, ChannelInv
<1>3. c \in TargetNotifiers[t] /\ c \in Notifiers /\ c \notin RenderFaults
  BY DEF Channels, ManagerAssumption
<1>4. ~Bad(View(Healthy, c))
  BY DEF View, clampView, Bad, Healthy, Reading
<1>5. ~Bad(View(Idle.rec.reading, c)) /\ Idle.at = "idle"
  BY <1>4 DEF Idle, CleanRecord
\* Steps of t that leave its tables alone and end its handler.
<1>6. ASSUME handler'[t] = Idle, UNCHANGED << alert_state[t], alerts[t] >>
      PROVE  ChannelInv(t, c)'
  BY <1>2, <1>5, <1>6 DEF ChannelInv, View
\* Steps that do not concern t at all.
<1>7. ASSUME handler'[t] = handler[t], UNCHANGED << alert_state[t], alerts[t] >>
      PROVE  ChannelInv(t, c)'
  BY <1>2, <1>7 DEF ChannelInv, View
<1>8. CASE Start
  <2>1. alert_state'[t] = alert_state[t] \/ alert_state'[t].reading = Healthy
    BY <1>8 DEF Start, PruneAlertStates, CleanRecord
  <2>2. handler'[t] = handler[t] /\ alerts'[t] = alerts[t]
    BY <1>8 DEF Start
  <2> QED
    BY <1>2, <1>4, <2>1, <2>2 DEF ChannelInv, View
<1>9. CASE Crash
  BY <1>6, <1>9 DEF Crash
<1>10. CASE Tick
  BY <1>7, <1>10 DEF Tick
<1>11. ASSUME NEW u \in Targets, Step(u) PROVE ChannelInv(t, c)'
  <2>1. CASE u # t
    <3>1. handler'[t] = handler[t] /\ UNCHANGED << alert_state[t], alerts[t] >>
      BY <1>1, <1>11, <2>1 DEF Step, RecordProbe, Process, Hold, Adopt, Goto,
         PersistState, Enqueue, EnqueueFails, Notify, TypeOK
    <3> QED
      BY <1>7, <3>1
  <2>2. CASE u = t
    <3>1. ASSUME NEW r \in Observed, RecordProbe(t, r) PROVE ChannelInv(t, c)'
      <4>1. /\ handler'[t].at = "process"
            /\ UNCHANGED << alert_state[t], alerts[t] >>
        BY <1>1, <3>1 DEF RecordProbe, TypeOK
      <4> QED
        BY <1>2, <4>1 DEF ChannelInv, View
    <3>2. CASE Hold(t)
      BY <1>1, <1>6, <3>2 DEF Hold, Goto, TypeOK
    <3>3. CASE Adopt(t)
      <4> DEFINE r == handler[t].rec.reading
                 rec == [reading |-> r,
                         last |-> IF targetProblemFired(t, r) THEN now
                                                              ELSE states[t].last]
                 changed == r # states[t].reading \/ targetProblemFired(t, r)
      <4>1. r \in Readings
        BY <1>1 DEF TypeOK, Handler, StateRecord
      <4>2. UNCHANGED << alert_state[t], alerts[t] >>
        BY <3>3 DEF Adopt
      <4>3. PICK unrendered \in SUBSET RenderFaults :
              LET fired == Fired(t, r) \ unrendered
              IN  \/ /\ fired # {}
                     /\ handler'[t] = [at |-> "enqueue", rec |-> rec, fired |-> fired]
                  \/ /\ fired = {} /\ changed
                     /\ handler'[t] = [at |-> "persist", rec |-> rec, fired |-> {}]
                  \/ handler'[t] = Idle
        <5>1. PICK unrendered \in SUBSET RenderFaults :
                LET fired == Fired(t, r) \ unrendered
                IN  handler' = [handler EXCEPT ![t] =
                      IF fired # {} THEN [at |-> "enqueue", rec |-> rec, fired |-> fired]
                      ELSE IF changed THEN [at |-> "persist", rec |-> rec, fired |-> {}]
                      ELSE Idle]
          BY <3>3 DEF Adopt
        <5> HIDE DEF rec, changed, r
        <5>2. handler \in [Targets -> Handler]
          BY <1>1 DEF TypeOK
        <5> QED
          BY <5>1, <5>2
      <4> DEFINE fired == Fired(t, r) \ unrendered
      <4>4. ASSUME Bad(View(r, c)), c \notin fired PROVE fired = {} /\ ~changed
        <5>1. c \notin Fired(t, r)
          BY <1>3, <4>4
        <5>2. r = states[t].reading /\ ~targetProblemFired(t, r)
          BY <1>1, <1>3, <4>1, <4>4, <5>1, NotFiredMeansUnchanged
        <5> QED
          BY <5>2, UnchangedFiresNothing
      <4>5. CASE fired # {} /\ handler'[t] = [at |-> "enqueue", rec |-> rec,
                                              fired |-> fired]
        <5>1. /\ handler'[t].rec.reading = r
              /\ handler'[t].fired = fired
              /\ handler'[t].at = "enqueue"
          BY <4>5
        <5> QED
          BY <1>2, <4>2, <4>4, <4>5, <5>1 DEF ChannelInv, View
      <4>6. CASE fired = {} /\ changed /\ handler'[t].rec.reading = r
        BY <1>2, <4>2, <4>4, <4>6 DEF ChannelInv, View
      <4> QED
        BY <1>6, <4>2, <4>3, <4>5, <4>6
    <3>4. CASE PersistState(t)
      <4>1. handler'[t] = Idle /\ alerts'[t] = alerts[t]
        BY <1>1, <3>4 DEF PersistState, Goto, TypeOK
      <4>2. \/ alert_state'[t] = alert_state[t]
            \/ alert_state'[t] = handler[t].rec
        BY <1>1, <3>4 DEF PersistState, TypeOK
      <4>3. ~Bad(View(handler[t].rec.reading, c))
        BY <1>2, <3>4 DEF ChannelInv, PersistState
      <4> QED
        BY <1>2, <1>5, <4>1, <4>2, <4>3 DEF ChannelInv, View
    <3>5. CASE Enqueue(t)
      <4>1. /\ handler'[t].at = "notify"
            /\ alert_state'[t] = handler[t].rec
            /\ c \in handler[t].fired
                 => alerts'[t][c] = View(handler[t].rec.reading, c)
        BY <1>1, <1>3, <3>5 DEF Enqueue, Goto, TypeOK, Handler, View
      <4>2. Bad(View(handler[t].rec.reading, c)) => c \in handler[t].fired
        BY <1>2, <3>5 DEF ChannelInv, Enqueue
      <4> QED
        BY <4>1, <4>2 DEF ChannelInv, View
    <3>6. CASE EnqueueFails(t)
      BY <1>1, <1>6, <3>6 DEF EnqueueFails, Goto, TypeOK
    <3>7. CASE Notify(t)
      BY <1>1, <1>6, <3>7 DEF Notify, Goto, TypeOK
    <3> QED
      BY <1>11, <2>2, <3>1, <3>2, <3>3, <3>4, <3>5, <3>6, <3>7 DEF Step, Process
  <2> QED
    BY <2>1, <2>2
<1>12. ASSUME NEW d \in Notifiers, TakeWake(d) PROVE ChannelInv(t, c)'
  BY <1>7, <1>12 DEF TakeWake
<1>13. CASE UNCHANGED vars
  BY <1>7, <1>13 DEF vars
<1> QED
  BY <1>8, <1>9, <1>10, <1>11, <1>12, <1>13 DEF Next

(***************************************************************************)
(* No crash and no failing store call ever leaves a target persisted as    *)
(* alerting without the notice enqueued for every notifier concerned       *)
(* (Store.Enqueue and the fan-out of Process).                             *)
(***************************************************************************)
THEOREM AlertedIsEnqueued == Spec => []AlertedMeansEnqueued
<1>1. Init => AlertedInv
  BY AlertedInit, ManagerAssumption
<1>2. AlertedInv /\ [Next]_vars => AlertedInv'
  BY AlertedStep, ManagerAssumption
<1>3. AlertedInv => AlertedMeansEnqueued
  BY DEF AlertedInv
<1> QED
  BY <1>1, <1>2, <1>3, PTL DEF Spec

(***************************************************************************)
(* Nothing is decided over the head of a notifier that sees the problem    *)
(* (the fan-out of Process and its silent persistState branch).            *)
(***************************************************************************)
THEOREM DecisionIsDelivered == Spec => []DecisionReachesChannels
<1>1. Init => AlertedInv
  BY AlertedInit, ManagerAssumption
<1>2. AlertedInv /\ [Next]_vars => AlertedInv'
  BY AlertedStep, ManagerAssumption
<1>3. AlertedInv => DecisionReachesChannels
  BY DEF AlertedInv
<1> QED
  BY <1>1, <1>2, <1>3, PTL DEF Spec

-----------------------------------------------------------------------------
(***************************************************************************)
(* The refinement: a step that changes the tables is one step of the       *)
(* ledger, and any other step of Manager stutters.                         *)
(***************************************************************************)
recorded == [t \in Targets |-> alert_state[t].reading]

\* The table with the reading of one target replaced is the ledger's next one.
LEMMA RecordedOne ==
    ASSUME TypeOK, NEW t \in Targets, NEW rec \in StateRecord,
           alert_state' = [alert_state EXCEPT ![t] = rec]
    PROVE  recorded' = [recorded EXCEPT ![t] = rec.reading]
  BY DEF TypeOK, recorded

\* The ledger speaks of readings as the manager does.
LEMMA SameWords ==
    /\ Ledger!Readings = Readings /\ Ledger!Healthy = Healthy
    /\ \A r : Ledger!Bad(r) <=> Bad(r)
    /\ \A c, r : Ledger!Sees(c, r) = View(r, c)
<1>1. Ledger!Readings = Readings
  BY DEF Ledger!Readings, Readings, Ledger!Statuses, Statuses,
     Ledger!Severities, Severities
<1>2. Ledger!Healthy = Healthy
  BY DEF Ledger!Healthy, Healthy, Ledger!Reading, Reading
<1>3. ASSUME NEW r PROVE Ledger!Bad(r) <=> Bad(r)
  BY DEF Ledger!Bad, Bad
<1>4. ASSUME NEW c, NEW r PROVE Ledger!Sees(c, r) = View(r, c)
  BY <1>2 DEF Ledger!Sees, View, Ledger!clampView, clampView,
     Ledger!severityRank, severityRank
<1> QED
  BY <1>1, <1>2, <1>3, <1>4

LEMMA LedgerStep ==
    ASSUME ManagerAssumption, AlertedInv, [Next]_vars
    PROVE  [Ledger!Next]_(Ledger!vars)
<1>1. TypeOK /\ DecisionReachesChannels
  BY DEF AlertedInv
<1> SUFFICES ASSUME ~(UNCHANGED << recorded, alerts >>)
             PROVE  Ledger!Next
  BY DEF Ledger!vars, recorded
<1>2. /\ \A c, r : Ledger!Sees(c, r) = View(r, c)
      /\ \A r : Ledger!Bad(r) <=> Bad(r)
  BY SameWords
<1>3. ASSUME NEW t \in Targets
      PROVE  handler[t].rec \in StateRecord /\ handler[t].rec.reading \in Readings
             /\ handler[t].fired \in SUBSET Notifiers
  BY <1>1 DEF TypeOK, Handler, StateRecord
<1>4. CASE Start
  <2>1. PICK cfg \in Configs : PruneAlertStates(cfg)
    BY <1>4 DEF Start
  <2>2. PICK left \in SUBSET Targets :
          alert_state' = [t \in Targets |->
                            IF t \in cfg \cup left THEN alert_state[t] ELSE CleanRecord]
    BY <2>1 DEF PruneAlertStates, ManagerAssumption
  <2>3. recorded' = [t \in Targets |->
                       IF t \in Targets \ (cfg \cup left) THEN Healthy ELSE recorded[t]]
    BY <2>2 DEF recorded, CleanRecord
  <2>4. alerts' = alerts
    BY <1>4 DEF Start
  <2> DEFINE gone == Targets \ (cfg \cup left)
  <2>5. /\ gone \in SUBSET Targets
        /\ recorded' = [t \in Targets |->
                          IF t \in gone THEN Ledger!Healthy ELSE recorded[t]]
    BY <2>3, SameWords
  <2>6. Ledger!Forget
    <3> HIDE DEF gone
    <3> QED
      BY <2>4, <2>5 DEF Ledger!Forget, recorded
  <2> QED
    BY <2>6 DEF Ledger!Next
<1>5. ASSUME NEW t \in Targets, PersistState(t), alert_state' # alert_state
      PROVE  Ledger!Next
  <2> DEFINE rec == handler[t].rec
  <2>1. alert_state' = [alert_state EXCEPT ![t] = rec] /\ alerts' = alerts
    BY <1>5 DEF PersistState
  <2>2. \A c \in Channels(t) : ~Bad(View(rec.reading, c))
    BY <1>1, <1>5 DEF PersistState, DecisionReachesChannels
  <2>3. recorded' = [recorded EXCEPT ![t] = rec.reading]
    BY <1>1, <1>3, <2>1, RecordedOne
  <2>4. \A c \in Channels(t) : ~Ledger!Bad(Ledger!Sees(c, rec.reading))
    BY <1>2, <2>2
  <2>5. Ledger!RecordSilently(t)
    BY <1>3, <2>1, <2>3, <2>4, SameWords DEF Ledger!RecordSilently, recorded
  <2> QED
    BY <2>5 DEF Ledger!Next
<1>6. ASSUME NEW t \in Targets, Enqueue(t) PROVE Ledger!Next
  <2> DEFINE rec == handler[t].rec
             fired == handler[t].fired
  <2>1. /\ alert_state' = [alert_state EXCEPT ![t] = rec]
        /\ alerts' = [alerts EXCEPT ![t] = [c \in Notifiers |->
                        IF c \in fired THEN Ledger!Sees(c, rec.reading) ELSE @[c]]]
    BY <1>2, <1>6 DEF Enqueue, View
  <2>2. \A c \in Channels(t) : Bad(View(rec.reading, c)) => c \in fired
    BY <1>1, <1>6 DEF Enqueue, DecisionReachesChannels
  <2>3. recorded' = [recorded EXCEPT ![t] = rec.reading]
    BY <1>1, <1>3, <2>1, RecordedOne
  <2>4. \A c \in Channels(t) : Ledger!Bad(Ledger!Sees(c, rec.reading)) => c \in fired
    BY <1>2, <2>2
  <2>5. rec.reading \in Ledger!Readings /\ fired \in SUBSET Notifiers
    BY <1>3, SameWords
  <2>6. Ledger!Announce(t)
    <3> HIDE DEF rec, fired
    <3> SUFFICES
          \E r \in Ledger!Readings, heard \in SUBSET Notifiers :
            /\ \A c \in [u \in Targets |-> Channels(u)][t] :
                 Ledger!Bad(Ledger!Sees(c, r)) => c \in heard
            /\ recorded' = [recorded EXCEPT ![t] = r]
            /\ alerts' = [alerts EXCEPT ![t] = [c \in Notifiers |->
                            IF c \in heard THEN Ledger!Sees(c, r) ELSE @[c]]]
      BY Zenon DEF Ledger!Announce, recorded
    <3> rec.reading \in Ledger!Readings /\ fired \in SUBSET Notifiers
      BY <2>5
    <3> WITNESS rec.reading \in Ledger!Readings, fired \in SUBSET Notifiers
    <3> QED
      BY <2>1, <2>3, <2>4
  <2> QED
    BY <2>6 DEF Ledger!Next
<1>7. CASE UNCHANGED << alert_state, alerts >>
  BY <1>7 DEF recorded
<1>8. ASSUME NEW t \in Targets, Step(t) PROVE Ledger!Next
  BY <1>5, <1>6, <1>7, <1>8
     DEF Step, RecordProbe, Process, Hold, Adopt, PersistState, EnqueueFails, Notify
<1> QED
  BY <1>4, <1>7, <1>8 DEF Next, Crash, Tick, TakeWake, vars

(***************************************************************************)
(* Read at any moment, the two alert tables behave as the ledger: the      *)
(* state of a target and the notices of it change as one, whatever         *)
(* handlers, faults, crashes and restarts there are in between.            *)
(***************************************************************************)
THEOREM ImplementsLedger == Spec => TablesAreALedger
<1>1. Init => AlertedInv
  BY AlertedInit, ManagerAssumption
<1>2. AlertedInv /\ [Next]_vars => AlertedInv'
  BY AlertedStep, ManagerAssumption
<1>3. Init => Ledger!Init
  BY SameWords DEF Init, CleanRecord, Ledger!Init
<1>4. AlertedInv /\ [Next]_vars => [Ledger!Next]_(Ledger!vars)
  BY LedgerStep, ManagerAssumption
<1> QED
  BY <1>1, <1>2, <1>3, <1>4, PTL DEF Spec, Ledger!Spec, TablesAreALedger

-----------------------------------------------------------------------------
(***************************************************************************)
(* What each step of Manager does to one target.  The proofs below go      *)
(* target by target through these cases.                                   *)
(***************************************************************************)
Place == << up, configured >>
Tables(t) == << alert_state[t], probe_log[t], alerts[t] >>

Started(t) ==
    /\ ~up /\ up' /\ configured' \in Configs
    /\ handler'[t] = handler[t] /\ UNCHANGED << probe_log[t], alerts[t] >>
    /\ t \in configured' => /\ alert_state'[t] = alert_state[t]
                            /\ \E n \in Legible(t) : states'[t] = Restored(t, n)
    /\ t \notin configured' =>
         /\ states'[t] = CleanState
         /\ alert_state'[t] \in {alert_state[t], CleanRecord}
         /\ "prune" \notin StoreFaults => alert_state'[t] = CleanRecord

Crashed(t) ==
    /\ ~up' /\ UNCHANGED configured
    /\ states'[t] = CleanState /\ handler'[t] = Idle /\ UNCHANGED Tables(t)

Untouched(t) == UNCHANGED << Place, states[t], handler[t], Tables(t) >>

Recorded(t) ==
    \E r \in Observed :
        /\ up /\ t \in configured /\ handler[t].at = "idle"
        /\ handler'[t] = [at |-> "process", rec |-> [CleanRecord EXCEPT !.reading = r],
                          fired |-> {}]
        /\ \/ probe_log'[t] = Newest(t, << r >> \o probe_log[t])
           \/ "probe_log" \in StoreFaults /\ UNCHANGED probe_log[t]
        /\ UNCHANGED << Place, states[t], alert_state[t], alerts[t] >>

Held(t) ==
    LET r == handler[t].rec.reading
    IN  /\ handler[t].at = "process" /\ Holds(t, r)
        /\ states'[t] = [states[t] EXCEPT !.pending = Counted(@, r)]
        /\ handler'[t] = Idle
        /\ UNCHANGED << Place, Tables(t) >>

\* The record that Adopt decides on.
Decided(t) ==
    LET r == handler[t].rec.reading
    IN  [reading |-> r,
         last |-> IF targetProblemFired(t, r) THEN now ELSE states[t].last]

Adopted(t) ==
    LET r == handler[t].rec.reading
        rec == Decided(t)
        changed == r # states[t].reading \/ targetProblemFired(t, r)
    IN  /\ handler[t].at = "process" /\ ~Holds(t, r)
        /\ states'[t] = InMemory(rec, NoCandidate)
        /\ \E unrendered \in SUBSET RenderFaults :
             LET fired == Fired(t, r) \ unrendered
             IN  \/ /\ fired # {}
                    /\ handler'[t] = [at |-> "enqueue", rec |-> rec, fired |-> fired]
                 \/ /\ fired = {} /\ changed
                    /\ handler'[t] = [at |-> "persist", rec |-> rec, fired |-> {}]
                 \/ /\ fired = {} /\ ~changed
                    /\ handler'[t] = Idle
        /\ UNCHANGED << Place, Tables(t) >>

Persisted(t) ==
    /\ handler[t].at = "persist" /\ handler'[t] = Idle
    /\ \/ alert_state'[t] = handler[t].rec
       \/ "alert_state" \in StoreFaults /\ UNCHANGED alert_state[t]
    /\ UNCHANGED << Place, states[t], probe_log[t], alerts[t] >>

Enqueued(t) ==
    /\ handler[t].at = "enqueue"
    /\ handler'[t] = [handler[t] EXCEPT !.at = "notify"]
    /\ alert_state'[t] = handler[t].rec
    /\ alerts'[t] = [c \in Notifiers |-> IF c \in handler[t].fired
                                           THEN View(handler[t].rec.reading, c)
                                           ELSE alerts[t][c]]
    /\ UNCHANGED << Place, states[t], probe_log[t] >>

\* Enqueue failed, or the dispatchers have been woken.
Released(t) ==
    /\ handler'[t] = Idle
    /\ handler[t].at = "notify" \/ (handler[t].at = "enqueue" /\ "enqueue" \in StoreFaults)
    /\ UNCHANGED << Place, states[t], Tables(t) >>

StepOf(t) ==
    \/ Started(t) \/ Crashed(t) \/ Untouched(t) \/ Recorded(t) \/ Held(t)
    \/ Adopted(t) \/ Persisted(t) \/ Enqueued(t) \/ Released(t)

LEMMA GotoOne ==
    ASSUME TypeOK, NEW t \in Targets, NEW p, Goto(t, p)
    PROVE  handler'[t] = IF p = "idle" THEN Idle ELSE [handler[t] EXCEPT !.at = p]
  BY DEF Goto, TypeOK

LEMMA AdoptCase ==
    ASSUME TypeOK, NEW t \in Targets, Adopt(t)
    PROVE  Adopted(t)
<1> DEFINE r == handler[t].rec.reading
           rec == Decided(t)
           changed == r # states[t].reading \/ targetProblemFired(t, r)
<1>1. PICK unrendered \in SUBSET RenderFaults :
        LET fired == Fired(t, r) \ unrendered
        IN  handler' = [handler EXCEPT ![t] =
              IF fired # {} THEN [at |-> "enqueue", rec |-> rec, fired |-> fired]
              ELSE IF changed THEN [at |-> "persist", rec |-> rec, fired |-> {}]
              ELSE Idle]
  BY DEF Adopt, Decided
<1>2. handler \in [Targets -> Handler] /\ states \in [Targets -> TargetState]
  BY DEF TypeOK
<1>3. /\ handler[t].at = "process" /\ ~Holds(t, r)
      /\ states' = [states EXCEPT ![t] = InMemory(rec, NoCandidate)]
      /\ UNCHANGED << Place, alert_state, probe_log, alerts >>
  BY DEF Adopt, Decided, Place
<1>4. states'[t] = InMemory(rec, NoCandidate) /\ UNCHANGED << Place, Tables(t) >>
  BY <1>2, <1>3 DEF Tables
<1> DEFINE fired == Fired(t, r) \ unrendered
<1>5. \/ /\ fired # {}
         /\ handler'[t] = [at |-> "enqueue", rec |-> rec, fired |-> fired]
      \/ /\ fired = {} /\ changed
         /\ handler'[t] = [at |-> "persist", rec |-> rec, fired |-> {}]
      \/ /\ fired = {} /\ ~changed
         /\ handler'[t] = Idle
  <2> HIDE DEF rec, changed, r
  <2> QED
    BY <1>1, <1>2
<1> HIDE DEF rec
<1> QED
  BY <1>3, <1>4, <1>5, Zenon DEF Adopted, rec

LEMMA StepCases ==
    ASSUME ManagerAssumption, TypeOK, [Next]_vars, NEW t \in Targets
    PROVE  StepOf(t)
<1>1. CASE Start
  <2>1. PICK cfg \in Configs :
          /\ configured' = cfg
          /\ PruneAlertStates(cfg)
          /\ \E rows \in [cfg -> UNION {Legible(u) : u \in cfg}] :
               /\ \A u \in cfg : rows[u] \in Legible(u)
               /\ states' = [u \in Targets |->
                               IF u \in cfg THEN Restored(u, rows[u]) ELSE CleanState]
    BY <1>1 DEF Start
  <2>2. /\ t \in cfg => alert_state'[t] = alert_state[t]
        /\ alert_state'[t] \in {alert_state[t], CleanRecord}
        /\ "prune" \notin StoreFaults /\ t \notin cfg => alert_state'[t] = CleanRecord
    BY <2>1 DEF PruneAlertStates
  <2>3. /\ t \in cfg => \E n \in Legible(t) : states'[t] = Restored(t, n)
        /\ t \notin cfg => states'[t] = CleanState
    BY <2>1
  <2>4. Started(t)
    BY <1>1, <2>1, <2>2, <2>3 DEF Start, Started
  <2> QED
    BY <2>4 DEF StepOf
<1>2. CASE Crash
  BY <1>2 DEF Crash, Crashed, Tables, StepOf
<1>3. ASSUME NEW u \in Targets, Step(u) PROVE StepOf(t)
  <2>1. CASE u # t
    <3>1. Untouched(t)
      BY <1>3, <2>1 DEF Step, RecordProbe, Process, Hold, Adopt, Goto, PersistState,
         Enqueue, EnqueueFails, Notify, TypeOK, Untouched, Place, Tables
    <3> QED
      BY <3>1 DEF StepOf
  <2>2. CASE u = t
    <3>1. ASSUME NEW r \in Observed, RecordProbe(t, r) PROVE Recorded(t)
      BY <3>1 DEF RecordProbe, Recorded, TypeOK, Place
    <3>2. CASE Hold(t)
      <4>1. handler'[t] = Idle
        BY <3>2, GotoOne DEF Hold
      <4>2. states'[t] = [states[t] EXCEPT !.pending = Counted(@, handler[t].rec.reading)]
        BY <3>2 DEF Hold, TypeOK
      <4> QED
        BY <3>2, <4>1, <4>2 DEF Hold, Held, Place, Tables, StepOf
    <3>3. CASE PersistState(t)
      <4>1. handler'[t] = Idle
        BY <3>3, GotoOne DEF PersistState
      <4> QED
        BY <3>3, <4>1 DEF PersistState, Persisted, TypeOK, Place, StepOf
    <3>4. CASE Enqueue(t)
      <4>1. handler'[t] = [handler[t] EXCEPT !.at = "notify"]
        BY <3>4, GotoOne DEF Enqueue
      <4>2. alert_state'[t] = handler[t].rec
        BY <3>4 DEF Enqueue, TypeOK
      <4>3. alerts'[t] = [c \in Notifiers |-> IF c \in handler[t].fired
                                              THEN View(handler[t].rec.reading, c)
                                              ELSE alerts[t][c]]
        BY <3>4 DEF Enqueue, TypeOK, View
      <4> QED
        BY <3>4, <4>1, <4>2, <4>3 DEF Enqueue, Enqueued, Place, StepOf
    <3>5. CASE EnqueueFails(t) \/ Notify(t)
      <4>1. handler'[t] = Idle
        BY <3>5, GotoOne DEF EnqueueFails, Notify
      <4>2. handler[t].at = "notify" \/ (handler[t].at = "enqueue" /\ "enqueue" \in StoreFaults)
        BY <3>5 DEF EnqueueFails, Notify
      <4>3. UNCHANGED << up, configured, states, alert_state, probe_log, alerts >>
        BY <3>5 DEF EnqueueFails, Notify
      <4>4. Released(t)
        BY <4>1, <4>2, <4>3 DEF Released, Place, Tables
      <4> QED
        BY <4>4 DEF StepOf
    <3> QED
      BY <1>3, <2>2, <3>1, <3>2, <3>3, <3>4, <3>5, AdoptCase DEF Step, Process, StepOf
  <2> QED
    BY <2>1, <2>2
<1>4. CASE UNCHANGED << up, configured, states, handler, alert_state, probe_log, alerts >>
  BY <1>4 DEF Untouched, Place, Tables, StepOf
<1> QED
  BY <1>1, <1>2, <1>3, <1>4 DEF Next, Tick, TakeWake, vars

-----------------------------------------------------------------------------
(***************************************************************************)
(* Handlers run only for configured targets of a process that is up, and   *)
(* from the decision to the end of its handler a target's state in memory  *)
(* is the record decided.  A target out of the configuration has no state, *)
(* neither in memory nor, when the pruning does not fail, in the table.    *)
(***************************************************************************)
Live(t) ==
    /\ handler[t].at = "idle" => handler[t] = Idle
    /\ ~up \/ t \notin configured => handler[t] = Idle /\ states[t] = CleanState
    /\ handler[t].at \in {"persist", "enqueue"}
         => states[t] = InMemory(handler[t].rec, NoCandidate)
    /\ "prune" \notin StoreFaults /\ t \notin configured => alert_state[t] = CleanRecord

LiveInv == AlertedInv /\ \A t \in Targets : Live(t)

LEMMA LiveInit == Init => LiveInv
<1> SUFFICES ASSUME Init PROVE LiveInv
  OBVIOUS
<1>1. AlertedInv
  BY AlertedInit, ManagerAssumption
<1>2. ASSUME NEW t \in Targets PROVE Live(t)
  BY DEF Init, Live, Idle
<1> QED
  BY <1>1, <1>2 DEF LiveInv

LEMMA LiveStep ==
    ASSUME LiveInv, [Next]_vars
    PROVE  LiveInv'
<1>1. AlertedInv'
  BY AlertedStep, ManagerAssumption DEF LiveInv
<1> SUFFICES ASSUME NEW t \in Targets PROVE Live(t)'
  BY <1>1 DEF LiveInv
<1>2. Live(t) /\ TypeOK
  BY DEF LiveInv, AlertedInv
<1>3. StepOf(t)
  BY <1>2, StepCases, ManagerAssumption
<1>i. Idle.at = "idle"
  BY DEF Idle
<1>4. CASE Started(t)
  BY <1>2, <1>4, <1>i DEF Started, Live
<1>5. CASE Crashed(t)
  BY <1>2, <1>5, <1>i DEF Crashed, Tables, Live
<1>6. CASE Untouched(t)
  BY <1>2, <1>6 DEF Untouched, Place, Tables, Live
<1>7. CASE Recorded(t)
  <2>1. /\ handler'[t].at = "process" /\ up' /\ t \in configured'
        /\ UNCHANGED alert_state[t]
    BY <1>7 DEF Recorded, Place
  <2> QED
    BY <1>2, <2>1 DEF Live
<1>8. CASE Held(t)
  <2>1. /\ handler'[t] = Idle /\ up' /\ t \in configured'
        /\ UNCHANGED alert_state[t]
    BY <1>2, <1>8, <1>i DEF Held, Place, Tables, Live
  <2> QED
    BY <1>i, <1>2, <2>1 DEF Live
<1>9. CASE Adopted(t)
  <2>1. /\ up' /\ t \in configured' /\ UNCHANGED alert_state[t]
        /\ states'[t] = InMemory(Decided(t), NoCandidate)
    BY <1>2, <1>9, <1>i DEF Adopted, Place, Tables, Live
  <2>2. \/ handler'[t] = Idle
        \/ handler'[t].at \in {"enqueue", "persist"} /\ handler'[t].rec = Decided(t)
    BY <1>9 DEF Adopted
  <2> QED
    BY <1>i, <1>2, <2>1, <2>2 DEF Live
<1>10. CASE Persisted(t)
  <2>1. /\ handler'[t] = Idle /\ up' /\ t \in configured'
    BY <1>2, <1>10, <1>i DEF Persisted, Place, Live
  <2> QED
    BY <1>i, <1>2, <2>1 DEF Live
<1>11. CASE Enqueued(t)
  <2>1. /\ handler[t] \in Handler
        /\ handler'[t].at = "notify" /\ up' /\ t \in configured'
    BY <1>2, <1>11, <1>i DEF Enqueued, Place, Live, TypeOK, Handler
  <2> QED
    BY <1>2, <2>1 DEF Live
<1>12. CASE Released(t)
  <2>1. /\ handler'[t] = Idle /\ up' /\ t \in configured'
    BY <1>2, <1>12, <1>i DEF Released, Place, Live
  <2> QED
    BY <1>i, <1>2, <2>1 DEF Live
<1> QED
  BY <1>3, <1>4, <1>5, <1>6, <1>7, <1>8, <1>9, <1>10, <1>11, <1>12 DEF StepOf

THEOREM LiveIsInvariant == Spec => []LiveInv
<1>1. Init => LiveInv
  BY LiveInit
<1>2. LiveInv /\ [Next]_vars => LiveInv'
  BY LiveStep
<1> QED
  BY <1>1, <1>2, PTL DEF Spec

(***************************************************************************)
(* When the pruning does not fail, a target that was not in the last       *)
(* configuration starts with no problem and no reminder clock, whatever it *)
(* was in and whatever was in flight when it left.                         *)
(***************************************************************************)
THEOREM ReAddIsClean ==
    ASSUME "prune" \notin StoreFaults
    PROVE  Spec => ReAddStartsClean
<1> DEFINE Clean == ~up /\ up' =>
             \A t \in configured' \ configured :
                 /\ states'[t].reading = Healthy
                 /\ states'[t].last = 0
<1>1. ASSUME LiveInv, [Next]_vars PROVE [Clean]_vars
  <2>1. TypeOK /\ TypeOK' /\ \A t \in Targets : Live(t)
    BY <1>1, TypeStep, ManagerAssumption DEF LiveInv, AlertedInv
  <2> SUFFICES ASSUME ~up, up', NEW t \in configured' \ configured
               PROVE  states'[t].reading = Healthy /\ states'[t].last = 0
    OBVIOUS
  <2>2. t \in Targets
    BY <2>1 DEF TypeOK
  <2>3. StepOf(t)
    BY <1>1, <2>1, <2>2, StepCases, ManagerAssumption
  <2>4. Started(t)
    BY <2>1, <2>2, <2>3 DEF StepOf, Crashed, Untouched, Recorded, Held, Adopted,
       Persisted, Enqueued, Released, Place, Live
  <2>5. alert_state[t] = CleanRecord
    BY <2>1, <2>2 DEF Live
  <2>6. PICK n \in Legible(t) : states'[t] = Restored(t, n)
    BY <2>4 DEF Started
  <2> QED
    BY <2>5, <2>6 DEF Restored, InMemory, CleanRecord
<1>2. LiveInv /\ [Next]_vars => [Clean]_vars
  BY <1>1
<1> QED
  BY <1>2, LiveIsInvariant, PTL DEF Spec, ReAddStartsClean

-----------------------------------------------------------------------------
(***************************************************************************)
(* Who was told what, when Enqueue does not fail.  Outside of the moment   *)
(* between the decision and the commit, a notifier that sees a problem in  *)
(* memory was told of it; in that moment, one that is about to be told     *)
(* that a problem is over was told of the problem.                         *)
(***************************************************************************)
Due(t, c) == handler[t].at = "enqueue" /\ c \in handler[t].fired

Told(t, c) ==
    /\ Bad(View(states[t].reading, c)) /\ ~Due(t, c)
         => alerts[t][c] = View(states[t].reading, c)
    /\ Due(t, c) /\ ~Bad(View(handler[t].rec.reading, c)) => Bad(alerts[t][c])

ToldInv == LiveInv /\ \A t \in Targets : \A c \in Channels(t) : Told(t, c)

LEMMA HealthyViews ==
    \A c : View(Healthy, c) = Healthy /\ ~Bad(View(Healthy, c))
  BY DEF View, clampView, Bad, Healthy, Reading

\* A view without a problem is the healthy one, whatever was below the floor.
LEMMA ViewWithoutProblem ==
    ASSUME NEW r \in Readings, NEW c \in Notifiers, ~Bad(View(r, c))
    PROVE  View(r, c) = Healthy
<1>1. MinSeverity[c] \in {"warning", "critical", "emergency"}
  BY ManagerAssumption DEF ManagerAssumption, Severities
<1> QED
  BY <1>1 DEF View, clampView, Bad, severityRank, Readings, Severities

\* The switch of Process by the views of one notifier.
LEMMA FiresByViews ==
    ASSUME NEW t \in Targets, NEW r, NEW c \in TargetNotifiers[t]
    PROVE  LET was == View(states[t].reading, c)
               is  == View(r, c)
           IN  c \in Fired(t, r) <=> \/ Bad(is) /\ is # was
                                     \/ Bad(is) /\ repeatDue(t, r)
                                     \/ ~Bad(is) /\ Bad(was) /\ SendRecovery[c]
  BY DEF Fired, Fires, View

LEMMA ChannelTypes ==
    ASSUME NEW t \in Targets, NEW c \in Channels(t)
    PROVE  c \in TargetNotifiers[t] /\ c \in Notifiers /\ c \notin RenderFaults
  BY ManagerAssumption DEF ManagerAssumption, Channels

\* What Adopt leaves of the handler, for a notifier whose body renders.
LEMMA AdoptedDue ==
    ASSUME NEW t \in Targets, NEW c \in Channels(t), Adopted(t)
    PROVE  LET r == handler[t].rec.reading
           IN  /\ Due(t, c)' <=> c \in Fired(t, r)
               /\ handler'[t].at = "enqueue" => handler'[t].rec.reading = r
               /\ states'[t].reading = r
<1> DEFINE r == handler[t].rec.reading
           rec == Decided(t)
<1>1. rec.reading = r
  BY DEF Decided
<1>2. states'[t].reading = r
  BY <1>1 DEF Adopted, InMemory
<1>3. PICK unrendered \in SUBSET RenderFaults :
        LET fired == Fired(t, r) \ unrendered
        IN  \/ /\ fired # {}
               /\ handler'[t] = [at |-> "enqueue", rec |-> rec, fired |-> fired]
            \/ /\ fired = {}
               /\ \/ handler'[t] = [at |-> "persist", rec |-> rec, fired |-> {}]
                  \/ handler'[t] = Idle
  BY Zenon DEF Adopted
<1>4. c \notin unrendered
  BY ChannelTypes
<1> HIDE DEF rec
<1> QED
  BY <1>1, <1>2, <1>3, <1>4 DEF Due, Idle

LEMMA ToldInit == Init => ToldInv
  BY LiveInit, HealthyViews DEF Init, ToldInv, Told, Due, Idle, CleanState, InMemory,
     CleanRecord

LEMMA ToldStep ==
    ASSUME "enqueue" \notin StoreFaults, ToldInv, [Next]_vars
    PROVE  ToldInv'
<1>1. LiveInv' /\ LiveInv /\ TypeOK /\ TypeOK'
  BY LiveStep, TypeStep, ManagerAssumption DEF ToldInv, LiveInv, AlertedInv
<1> SUFFICES ASSUME NEW t \in Targets, NEW c \in Channels(t) PROVE Told(t, c)'
  BY <1>1 DEF ToldInv, Channels
<1>2. Told(t, c) /\ Live(t)
  BY <1>1 DEF ToldInv, LiveInv
<1>3. c \in TargetNotifiers[t] /\ c \in Notifiers
  BY ChannelTypes
<1>4. ~Bad(View(CleanState.reading, c))
  BY HealthyViews DEF CleanState, InMemory, CleanRecord
<1>i. Idle.at = "idle"
  BY DEF Idle
\* Steps after which t is told of its state, or sees nothing in it.
<1>5. ASSUME handler'[t].at # "enqueue",
             \/ ~Bad(View(states'[t].reading, c))
             \/ alerts'[t][c] = View(states'[t].reading, c)
      PROVE  Told(t, c)'
  BY <1>5 DEF Told, Due, View
<1>6. ASSUME UNCHANGED << states[t].reading, handler[t], alerts[t] >>
      PROVE  Told(t, c)'
  BY <1>2, <1>6 DEF Told, Due, View
<1>7. CASE Started(t)
  <2>1. handler'[t].at # "enqueue" /\ alerts'[t] = alerts[t]
    BY <1>2, <1>7, <1>i DEF Started, Live
  <2>2. CASE t \in configured'
    <3>1. PICK n \in Legible(t) : states'[t] = Restored(t, n)
      BY <1>7, <2>2 DEF Started
    <3>3. states'[t].reading = alert_state[t].reading
      BY <3>1 DEF Restored, InMemory
    <3>2. Bad(View(alert_state[t].reading, c))
            => alerts[t][c] = View(alert_state[t].reading, c)
      BY <1>1 DEF LiveInv, AlertedInv, AlertedMeansEnqueued
    <3> QED
      BY <1>5, <2>1, <3>2, <3>3
  <2>3. CASE t \notin configured'
    BY <1>4, <1>5, <1>7, <2>1, <2>3 DEF Started
  <2> QED
    BY <2>2, <2>3
<1>8. CASE Crashed(t)
  BY <1>4, <1>5, <1>8, <1>i DEF Crashed
<1>9. CASE Untouched(t)
  BY <1>6, <1>9 DEF Untouched, Tables
<1>10. CASE Recorded(t)
  <2>1. /\ handler[t].at = "idle" /\ handler'[t].at = "process"
        /\ UNCHANGED << states[t], alerts[t] >>
    BY <1>10 DEF Recorded
  <2> QED
    BY <1>2, <1>5, <2>1 DEF Told, Due
<1>11. CASE Held(t)
  <2>1. states[t] \in TargetState
    BY <1>1 DEF TypeOK
  <2>2. /\ handler[t].at = "process" /\ handler'[t] = Idle
        /\ UNCHANGED << states[t].reading, alerts[t] >>
    BY <1>11, <2>1 DEF Held, Tables, TargetState
  <2> QED
    BY <1>2, <1>5, <1>i, <2>2 DEF Told, Due
<1>12. CASE Adopted(t)
  <2> DEFINE r == handler[t].rec.reading
             was == View(states[t].reading, c)
             is == View(r, c)
  <2>1. handler[t].at = "process" /\ alerts'[t] = alerts[t]
    BY <1>12 DEF Adopted, Tables
  <2>2. Bad(was) => alerts[t][c] = was
    BY <1>2, <2>1 DEF Told, Due
  <2>3. /\ Due(t, c)' <=> c \in Fired(t, r)
        /\ handler'[t].at = "enqueue" => handler'[t].rec.reading = r
        /\ states'[t].reading = r
    BY <1>12, AdoptedDue
  <2>4. ASSUME Bad(is), c \notin Fired(t, r) PROVE alerts'[t][c] = is
    BY <1>3, <2>1, <2>2, <2>4, FiresByViews
  <2>5. ASSUME ~Bad(is), c \in Fired(t, r) PROVE Bad(alerts'[t][c])
    BY <1>3, <2>1, <2>2, <2>5, FiresByViews
  <2> QED
    BY <2>3, <2>4, <2>5 DEF Told, Due, View
<1>13. CASE Persisted(t)
  <2>1. /\ handler[t].at = "persist" /\ handler'[t] = Idle
        /\ UNCHANGED << states[t], alerts[t] >>
    BY <1>13 DEF Persisted
  <2> QED
    BY <1>2, <1>5, <1>i, <2>1 DEF Told, Due
<1>14. CASE Enqueued(t)
  <2>1. /\ handler'[t].at = "notify" /\ states'[t] = states[t]
        /\ states[t].reading = handler[t].rec.reading
    BY <1>1, <1>2, <1>14 DEF Enqueued, Live, InMemory, TypeOK, Handler
  <2>2. CASE c \in handler[t].fired
    <3>1. alerts'[t][c] = View(handler[t].rec.reading, c)
      BY <1>3, <1>14, <2>2 DEF Enqueued
    <3> QED
      BY <1>5, <2>1, <3>1
  <2>3. CASE c \notin handler[t].fired
    <3>1. alerts'[t][c] = alerts[t][c]
      BY <1>3, <1>14, <2>3 DEF Enqueued
    <3> QED
      BY <1>2, <1>5, <2>1, <2>3, <3>1 DEF Told, Due
  <2> QED
    BY <2>2, <2>3
<1>15. CASE Released(t)
  <2>1. /\ handler[t].at = "notify" /\ handler'[t] = Idle
        /\ UNCHANGED << states[t], alerts[t] >>
    BY <1>15 DEF Released, Tables
  <2> QED
    BY <1>2, <1>5, <1>i, <2>1 DEF Told, Due
<1>16. StepOf(t)
  BY <1>1, StepCases, ManagerAssumption
<1> QED
  BY <1>7, <1>8, <1>9, <1>10, <1>11, <1>12, <1>13, <1>14, <1>15, <1>16 DEF StepOf

(***************************************************************************)
(* When Enqueue does not fail, no notifier gets a recovery of a problem it *)
(* was not told of, over restarts, floors and whatever was in between.     *)
(***************************************************************************)
THEOREM RecoveriesFollowProblems ==
    ASSUME "enqueue" \notin StoreFaults
    PROVE  Spec => NoOrphanRecovery
<1> DEFINE Owed == \A t \in Targets : \A c \in Channels(t) :
             Enqueue(t) /\ c \in handler[t].fired /\ ~Bad(alerts'[t][c])
               => Bad(alerts[t][c])
<1>1. Init => ToldInv
  BY ToldInit
<1>2. ToldInv /\ [Next]_vars => ToldInv'
  BY ToldStep
<1>3. ASSUME ToldInv PROVE Owed
  <2> SUFFICES ASSUME NEW t \in Targets, NEW c \in Channels(t), Enqueue(t),
                      c \in handler[t].fired, ~Bad(alerts'[t][c])
               PROVE  Bad(alerts[t][c])
    OBVIOUS
  <2>1. Told(t, c) /\ c \in Notifiers /\ TypeOK
    BY <1>3, ChannelTypes DEF ToldInv, LiveInv, AlertedInv
  <2>2. handler[t].at = "enqueue" /\ alerts'[t][c] = View(handler[t].rec.reading, c)
    BY <2>1 DEF Enqueue, TypeOK, View
  <2> QED
    BY <2>1, <2>2 DEF Told, Due
<1> QED
  BY <1>1, <1>2, <1>3, PTL DEF Spec, NoOrphanRecovery

(***************************************************************************)
(* A notifier that wants recoveries, of a target that no configuration     *)
(* leaves out: it was last told its view of the table's state and, outside *)
(* of the moment before a commit, of memory's.  So a write that fails, of  *)
(* a record whose notices nobody was owed, changes nothing for it.         *)
(***************************************************************************)
Recovered(t, c) ==
    /\ alerts[t][c] = View(alert_state[t].reading, c)
    /\ up /\ ~Due(t, c) => alerts[t][c] = View(states[t].reading, c)

RecoveredInv ==
    /\ ToldInv
    /\ \A t \in Targets : \A c \in Channels(t) : SendRecovery[c] => Recovered(t, c)

LEMMA RecoveredInit == Init => RecoveredInv
  BY ToldInit, HealthyViews, ChannelTypes DEF Init, RecoveredInv, Recovered, CleanRecord

LEMMA RecoveredStep ==
    ASSUME "enqueue" \notin StoreFaults, Configs = {Targets},
           RecoveredInv, [Next]_vars
    PROVE  RecoveredInv'
<1>1. ToldInv' /\ LiveInv /\ TypeOK /\ TypeOK'
  BY ToldStep, TypeStep, ManagerAssumption DEF RecoveredInv, ToldInv, LiveInv, AlertedInv
<1> SUFFICES ASSUME NEW t \in Targets, NEW c \in Channels(t), SendRecovery[c]
             PROVE  Recovered(t, c)'
  BY <1>1 DEF RecoveredInv, Channels
<1>2. Told(t, c) /\ Live(t) /\ Recovered(t, c)
  BY <1>1 DEF RecoveredInv, ToldInv, LiveInv
<1>3. c \in TargetNotifiers[t] /\ c \in Notifiers
  BY ChannelTypes
<1>i. Idle.at = "idle"
  BY DEF Idle
\* Steps that leave alone what the notifier was told and what it sees.
<1>4. ASSUME UNCHANGED << up, alerts[t], alert_state[t], states[t].reading >>,
             ~Due(t, c)
      PROVE  Recovered(t, c)'
  BY <1>2, <1>4 DEF Recovered, View
<1>5. CASE Started(t)
  <2>1. t \in configured'
    BY <1>5 DEF Started
  <2>2. PICK n \in Legible(t) : states'[t] = Restored(t, n)
    BY <1>5, <2>1 DEF Started
  <2>3. states'[t].reading = alert_state[t].reading
    BY <2>2 DEF Restored, InMemory
  <2> QED
    BY <1>2, <1>5, <2>1, <2>3 DEF Started, Recovered, View
<1>6. CASE Crashed(t)
  BY <1>2, <1>6 DEF Crashed, Tables, Recovered, View
<1>7. CASE Untouched(t)
  BY <1>2, <1>7 DEF Untouched, Place, Tables, Recovered, Due, View
<1>8. CASE Recorded(t)
  BY <1>4, <1>8 DEF Recorded, Place, Due
<1>9. CASE Held(t)
  <2>1. states[t] \in TargetState
    BY <1>1 DEF TypeOK
  <2>2. UNCHANGED states[t].reading
    BY <1>9, <2>1 DEF Held, TargetState
  <2> QED
    BY <1>4, <1>9, <2>2 DEF Held, Place, Tables, Due
<1>10. CASE Adopted(t)
  <2> DEFINE r == handler[t].rec.reading
             was == View(states[t].reading, c)
             is == View(r, c)
  <2>1. /\ handler[t].at = "process" /\ UNCHANGED << alerts[t], alert_state[t] >>
        /\ up /\ states[t].reading \in Readings /\ r \in Readings
    BY <1>1, <1>2, <1>10, <1>i DEF Adopted, Tables, Live, TypeOK, TargetState, Handler,
       StateRecord
  <2>2. alerts[t][c] = was
    BY <1>2, <2>1 DEF Recovered, Due
  <2>3. /\ Due(t, c)' <=> c \in Fired(t, r)
        /\ states'[t].reading = r
    BY <1>10, AdoptedDue
  <2>4. ASSUME c \notin Fired(t, r) PROVE is = was
    <3>1. CASE Bad(is)
      BY <1>3, <2>4, <3>1, FiresByViews
    <3>2. CASE ~Bad(is)
      <4>1. ~Bad(was)
        BY <1>3, <2>4, <3>2, FiresByViews
      <4> QED
        BY <1>3, <2>1, <3>2, <4>1, ViewWithoutProblem
    <3> QED
      BY <3>1, <3>2
  <2> QED
    BY <1>2, <2>1, <2>2, <2>3, <2>4 DEF Recovered, View
<1>11. CASE Persisted(t)
  <2>1. /\ ~Due(t, c) /\ UNCHANGED << up, alerts[t], states[t] >>
        /\ alert_state'[t] \in {alert_state[t], handler[t].rec}
        /\ states[t].reading = handler[t].rec.reading /\ up
    BY <1>2, <1>11, <1>i DEF Persisted, Place, Due, Live, InMemory
  <2> QED
    BY <1>2, <2>1 DEF Recovered, View
<1>12. CASE Enqueued(t)
  <2>1. /\ states'[t] = states[t] /\ alert_state'[t] = handler[t].rec
        /\ states[t].reading = handler[t].rec.reading
    BY <1>2, <1>12 DEF Enqueued, Live, InMemory
  <2>2. alerts'[t][c] = View(handler[t].rec.reading, c)
    <3>1. CASE c \in handler[t].fired
      BY <1>3, <1>12, <3>1 DEF Enqueued
    <3>2. CASE c \notin handler[t].fired
      <4>1. alerts'[t][c] = alerts[t][c] /\ up
        BY <1>2, <1>3, <1>12, <3>2, <1>i DEF Enqueued, Live
      <4> QED
        BY <1>2, <2>1, <3>2, <4>1 DEF Recovered, Due
    <3> QED
      BY <3>1, <3>2
  <2> QED
    BY <2>1, <2>2 DEF Recovered, View
<1>13. CASE Released(t)
  BY <1>4, <1>13 DEF Released, Place, Tables, Due
<1>14. StepOf(t)
  BY <1>1, StepCases, ManagerAssumption
<1> QED
  BY <1>5, <1>6, <1>7, <1>8, <1>9, <1>10, <1>11, <1>12, <1>13, <1>14 DEF StepOf

(***************************************************************************)
(* When Enqueue does not fail and the configurations do not differ in      *)
(* their targets (a target that leaves takes its state with it, and its    *)
(* recovery is never sent), every notifier that wants recoveries was last  *)
(* told exactly its view of the persisted state.                           *)
(***************************************************************************)
THEOREM ChannelsFollow ==
    ASSUME "enqueue" \notin StoreFaults, Configs = {Targets}
    PROVE  Spec => []ChannelsFollowState
<1>1. Init => RecoveredInv
  BY RecoveredInit
<1>2. RecoveredInv /\ [Next]_vars => RecoveredInv'
  BY RecoveredStep
<1>3. RecoveredInv => ChannelsFollowState
  BY DEF RecoveredInv, Recovered, ChannelsFollowState
<1> QED
  BY <1>1, <1>2, <1>3, PTL DEF Spec

-----------------------------------------------------------------------------
(***************************************************************************)
(* The reminder clock.  It runs in memory and is never behind the table's; *)
(* a problem always has one.  The notifiers of a target see the same in    *)
(* both, so that a problem that fires on top of the same one in the table  *)
(* does so because the reminder is due, by the clock of memory.  The last  *)
(* needs that a silent write fails only where silence means that nobody    *)
(* sees a difference: every body renders and everyone wants recoveries.    *)
(***************************************************************************)
SameViews(t, r, s) == \A c \in TargetNotifiers[t] : View(r, c) = View(s, c)

Clocks(t) ==
    /\ alert_state[t].last <= now /\ states[t].last <= now
    /\ Bad(alert_state[t].reading) => alert_state[t].last >= 1
    /\ Bad(states[t].reading) => states[t].last >= 1
    /\ up /\ t \in configured => alert_state[t].last <= states[t].last

Seen(t) ==
    /\ up /\ t \in configured /\ handler[t].at \notin {"persist", "enqueue"}
         => SameViews(t, alert_state[t].reading, states[t].reading)
    /\ handler[t].at = "persist" /\ "alert_state" \in StoreFaults
         => SameViews(t, alert_state[t].reading, handler[t].rec.reading)

Spaced(t, old, new) ==
    LET every == RepeatInterval[t][new.reading.severity]
    IN  Bad(new.reading) /\ new.reading = old.reading
          => new.last - old.last >= every /\ every < MaxDuration

DueSpaced(t) ==
    handler[t].at = "enqueue" => Spaced(t, alert_state[t], handler[t].rec)

SpacedInv == LiveInv /\ \A t \in Targets : Clocks(t) /\ Seen(t) /\ DueSpaced(t)

LEMMA TimeStep ==
    ASSUME TypeOK, [Next]_vars
    PROVE  now \in Nat /\ now' \in Nat /\ 1 <= now /\ now <= now' /\ now <= MaxTime + 1
<1>1. now' = now \/ now' = now + 1
  BY DEF Next, Start, Crash, Tick, Step, RecordProbe, Process, Hold, Adopt,
     PersistState, Enqueue, EnqueueFails, Notify, TakeWake, vars
<1> QED
  BY <1>1, ManagerAssumption DEF TypeOK, ManagerAssumption

LEMMA SpacedInit == Init => SpacedInv
<1> SUFFICES ASSUME Init PROVE SpacedInv
  OBVIOUS
<1>1. ~Bad(Healthy)
  BY DEF Bad, Healthy, Reading
<1> QED
  BY <1>1, LiveInit DEF Init, SpacedInv, Clocks, Seen, DueSpaced, Idle, CleanState,
     InMemory, CleanRecord

\* The decision, for the clocks: what fires leaves the time of it.
LEMMA AdoptedClocks ==
    ASSUME TypeOK, NEW t \in Targets, Clocks(t), up, t \in configured, 1 <= now
    PROVE  LET rec == Decided(t)
           IN  /\ rec \in StateRecord /\ rec.reading = handler[t].rec.reading
               /\ rec.last <= now /\ alert_state[t].last <= rec.last
               /\ Bad(rec.reading) => rec.last >= 1
<1>1. /\ states[t] \in TargetState /\ alert_state[t] \in StateRecord
      /\ handler[t].rec \in StateRecord /\ now \in Nat
  BY DEF TypeOK, Handler
<1> DEFINE r == handler[t].rec.reading
<1>2. CASE targetProblemFired(t, r)
  BY <1>1, <1>2 DEF Decided, Clocks, StateRecord, TargetState
<1>3. CASE ~targetProblemFired(t, r)
  <2>1. Bad(r) => r = states[t].reading
    BY <1>3 DEF targetProblemFired, shapeChange
  <2> QED
    BY <1>1, <1>3, <2>1 DEF Decided, Clocks, StateRecord, TargetState
<1> QED
  BY <1>2, <1>3

\* A problem that fires on top of the same one in the table is a reminder.
LEMMA FiredIsReminder ==
    ASSUME TypeOK, NEW t \in Targets, NEW r \in Readings, NEW c \in Fired(t, r),
           SameViews(t, r, states[t].reading), Bad(r)
    PROVE  repeatDue(t, r) /\ Bad(states[t].reading)
<1>1. c \in TargetNotifiers[t] /\ states[t].reading \in Readings
  BY DEF Fired, TypeOK, TargetState
<1>2. View(r, c) = View(states[t].reading, c)
  BY <1>1 DEF SameViews
<1>3. Bad(View(r, c)) /\ repeatDue(t, r)
  BY <1>1, <1>2, FiresByViews
<1>4. Bad(states[t].reading)
  BY <1>1, <1>2, <1>3, ProblemSeenWhole DEF View
<1> QED
  BY <1>3, <1>4

LEMMA AdoptedSpaced ==
    ASSUME TypeOK, NEW t \in Targets, Clocks(t), up, t \in configured,
           1 <= now, now <= MaxTime + 1,
           Fired(t, handler[t].rec.reading) # {},
           SameViews(t, alert_state[t].reading, states[t].reading)
    PROVE  Spaced(t, alert_state[t], Decided(t))
<1> DEFINE r == handler[t].rec.reading
           every == RepeatInterval[t][r.severity]
<1> SUFFICES ASSUME Bad(r), r = alert_state[t].reading
             PROVE  Decided(t).last - alert_state[t].last >= every /\ every < MaxDuration
  BY DEF Spaced, Decided
<1>1. /\ states[t] \in TargetState /\ alert_state[t] \in StateRecord /\ now \in Nat
      /\ r \in Readings
  BY DEF TypeOK, StateRecord
<1>2. every \in Nat
  <2>1. r.severity \in Severities \ {"ok"}
    BY <1>1 DEF Bad, Readings
  <2> HIDE DEF r
  <2> QED
    BY <2>1, ManagerAssumption DEF ManagerAssumption
<1>3. repeatDue(t, r) /\ Bad(states[t].reading)
  BY <1>1, FiredIsReminder
<1>4. Since(now, states[t].last, MaxDuration) >= every
  BY <1>3 DEF repeatDue
<1>5. Decided(t).last = now
  BY <1>3 DEF Decided, targetProblemFired
<1>6. states[t].last >= 1 /\ alert_state[t].last <= states[t].last
  BY <1>3 DEF Clocks
<1>7. /\ states[t].last \in Nat /\ alert_state[t].last \in Nat
      /\ MaxTime \in Nat /\ MaxDuration \in Nat /\ MaxTime < MaxDuration
  BY <1>1, ManagerAssumption DEF ManagerAssumption, TargetState, StateRecord
<1>8. now - states[t].last >= every
  BY <1>4, <1>6, <1>7 DEF Since
<1> HIDE DEF every, r
<1> QED
  BY <1>1, <1>2, <1>5, <1>6, <1>7, <1>8

\* Nobody fires on a record exactly when nobody sees a difference, if everyone
\* wants recoveries.
LEMMA NotFiredMeansSame ==
    ASSUME TypeOK, NEW t \in Targets, NEW r \in Readings, Fired(t, r) = {},
           \A c \in Notifiers : SendRecovery[c]
    PROVE  SameViews(t, r, states[t].reading)
<1> SUFFICES ASSUME NEW c \in TargetNotifiers[t]
             PROVE  View(r, c) = View(states[t].reading, c)
  BY DEF SameViews
<1>1. c \in Notifiers /\ states[t].reading \in Readings
  BY ManagerAssumption DEF ManagerAssumption, TypeOK, TargetState
<1>2. CASE Bad(View(r, c))
  BY <1>2, FiresByViews
<1>3. CASE ~Bad(View(r, c))
  <2>1. ~Bad(View(states[t].reading, c))
    BY <1>1, <1>3, FiresByViews
  <2> QED
    BY <1>1, <1>3, <2>1, ViewWithoutProblem
<1> QED
  BY <1>2, <1>3

LEMMA SpacedStep ==
    ASSUME "enqueue" \notin StoreFaults,
           \/ "alert_state" \notin StoreFaults
           \/ RenderFaults = {} /\ \A c \in Notifiers : SendRecovery[c],
           SpacedInv, [Next]_vars
    PROVE  SpacedInv'
<1>1. LiveInv' /\ LiveInv /\ TypeOK /\ TypeOK'
  BY LiveStep, TypeStep, ManagerAssumption DEF SpacedInv, LiveInv, AlertedInv
<1> SUFFICES ASSUME NEW t \in Targets PROVE Clocks(t)' /\ Seen(t)' /\ DueSpaced(t)'
  BY <1>1 DEF SpacedInv
<1>2. Live(t) /\ Clocks(t) /\ Seen(t) /\ DueSpaced(t)
  BY <1>1 DEF SpacedInv, LiveInv
<1>3. now \in Nat /\ now' \in Nat /\ 1 <= now /\ now <= now' /\ now <= MaxTime + 1
  BY <1>1, TimeStep
<1>4. /\ states[t] \in TargetState /\ states'[t] \in TargetState
      /\ alert_state[t] \in StateRecord /\ alert_state'[t] \in StateRecord
      /\ handler[t].rec \in StateRecord
  BY <1>1 DEF TypeOK, Handler
<1>5. /\ states[t].last \in Nat /\ states'[t].last \in Nat
      /\ alert_state[t].last \in Nat /\ alert_state'[t].last \in Nat
  BY <1>4 DEF TargetState, StateRecord
<1>i. Idle.at = "idle"
  BY DEF Idle
<1>c. /\ ~Bad(CleanState.reading) /\ CleanState.last = 0
      /\ ~Bad(CleanRecord.reading) /\ CleanRecord.last = 0
  BY DEF CleanState, InMemory, CleanRecord, Bad, Healthy, Reading
\* Steps that keep both records of t and both what its notifiers see.
<1>6. ASSUME UNCHANGED << Place, alert_state[t], states[t].reading, states[t].last >>,
             handler[t].at \in {"idle", "process", "notify"},
             handler'[t].at \in {"idle", "process"}
      PROVE  Clocks(t)' /\ Seen(t)' /\ DueSpaced(t)'
  <2>1. Clocks(t)'
    BY <1>2, <1>3, <1>5, <1>6 DEF Clocks, Place
  <2>2. Seen(t)' /\ DueSpaced(t)'
    BY <1>2, <1>6 DEF Seen, DueSpaced, SameViews, Place, View
  <2> QED
    BY <2>1, <2>2
\* Steps that write the record in memory to the table.
<1>7. ASSUME UNCHANGED << Place, states[t] >>, up, t \in configured,
             alert_state'[t] = handler[t].rec,
             states[t] = InMemory(handler[t].rec, NoCandidate),
             handler'[t].at \in {"idle", "notify"}
      PROVE  Clocks(t)' /\ Seen(t)' /\ DueSpaced(t)'
  <2>1. /\ alert_state'[t].reading = states[t].reading
        /\ alert_state'[t].last = states[t].last
    BY <1>7 DEF InMemory
  <2>2. Clocks(t)'
    BY <1>2, <1>3, <1>5, <1>7, <2>1 DEF Clocks, Place
  <2>3. Seen(t)' /\ DueSpaced(t)'
    BY <1>7, <2>1 DEF Seen, DueSpaced, SameViews, Place, View
  <2> QED
    BY <2>2, <2>3
<1>8. CASE Started(t)
  <2>1. handler'[t].at = "idle"
    BY <1>2, <1>8, <1>i DEF Started, Live
  <2>2. CASE t \in configured'
    <3>1. alert_state'[t] = alert_state[t]
      BY <1>8, <2>2 DEF Started
    <3>2. PICK n \in Legible(t) : states'[t] = Restored(t, n)
      BY <1>8, <2>2 DEF Started
    <3>3. /\ states'[t].reading = alert_state[t].reading
          /\ states'[t].last = alert_state[t].last
      BY <3>2 DEF Restored, InMemory
    <3>4. Clocks(t)'
      BY <1>2, <1>3, <1>5, <3>1, <3>3 DEF Clocks
    <3>5. Seen(t)' /\ DueSpaced(t)'
      BY <2>1, <3>1, <3>3 DEF Seen, DueSpaced, SameViews, View
    <3> QED
      BY <3>4, <3>5
  <2>3. CASE t \notin configured'
    <3>1. states'[t] = CleanState /\ alert_state'[t] \in {alert_state[t], CleanRecord}
      BY <1>8, <2>3 DEF Started
    <3>2. Clocks(t)'
      BY <1>2, <1>3, <1>5, <1>c, <2>3, <3>1 DEF Clocks
    <3>3. Seen(t)' /\ DueSpaced(t)'
      BY <2>1, <2>3 DEF Seen, DueSpaced
    <3> QED
      BY <3>2, <3>3
  <2> QED
    BY <2>2, <2>3
<1>9. CASE Crashed(t)
  <2>1. /\ ~up' /\ states'[t] = CleanState /\ handler'[t].at = "idle"
        /\ alert_state'[t] = alert_state[t]
    BY <1>9, <1>i DEF Crashed, Tables
  <2>2. Clocks(t)'
    BY <1>2, <1>3, <1>5, <1>c, <2>1 DEF Clocks
  <2> QED
    BY <2>1, <2>2 DEF Seen, DueSpaced
<1>10. CASE Untouched(t)
  <2>1. Clocks(t)'
    BY <1>2, <1>3, <1>5, <1>10 DEF Untouched, Place, Tables, Clocks
  <2>2. Seen(t)' /\ DueSpaced(t)'
    BY <1>2, <1>10 DEF Untouched, Place, Tables, Seen, DueSpaced, SameViews, View, Spaced
  <2> QED
    BY <2>1, <2>2
<1>11. CASE Recorded(t)
  BY <1>6, <1>11 DEF Recorded
<1>12. CASE Held(t)
  <2>1. UNCHANGED << states[t].reading, states[t].last >>
    BY <1>4, <1>12 DEF Held, TargetState
  <2> QED
    BY <1>6, <1>12, <1>i, <2>1 DEF Held, Tables
<1>13. CASE Adopted(t)
  <2> DEFINE r == handler[t].rec.reading
             rec == Decided(t)
             changed == r # states[t].reading \/ targetProblemFired(t, r)
  <2>1. /\ handler[t].at = "process" /\ up /\ t \in configured /\ r \in Readings
        /\ UNCHANGED << Place, alert_state[t] >>
    BY <1>2, <1>4, <1>13, <1>i DEF Adopted, Tables, Live, StateRecord
  <2>2. /\ rec \in StateRecord /\ rec.reading = r
        /\ rec.last <= now /\ alert_state[t].last <= rec.last
        /\ Bad(rec.reading) => rec.last >= 1
    BY <1>1, <1>2, <1>3, <2>1, AdoptedClocks
  <2>3. SameViews(t, alert_state[t].reading, states[t].reading)
    BY <1>2, <2>1 DEF Seen
  <2>4. PICK unrendered \in SUBSET RenderFaults :
          LET fired == Fired(t, r) \ unrendered
          IN  \/ /\ fired # {}
                 /\ handler'[t] = [at |-> "enqueue", rec |-> rec, fired |-> fired]
              \/ /\ fired = {}
                 /\ handler'[t] = [at |-> "persist", rec |-> rec, fired |-> {}]
              \/ /\ fired = {} /\ ~changed
                 /\ handler'[t] = Idle
    BY <1>13, Zenon DEF Adopted
  <2>5. states'[t].reading = rec.reading /\ states'[t].last = rec.last
    BY <1>13 DEF Adopted, InMemory
  <2> HIDE DEF rec
  <2>6. Clocks(t)'
    <3>1. rec.last \in Nat
      BY <2>2 DEF StateRecord
    <3> QED
      BY <1>2, <1>3, <1>5, <2>1, <2>2, <2>5, <3>1 DEF Clocks, Place
  <2> DEFINE fired == Fired(t, r) \ unrendered
  <2>7. CASE fired # {} /\ handler'[t] = [at |-> "enqueue", rec |-> rec, fired |-> fired]
    <3>1. Spaced(t, alert_state[t], rec)
      BY <1>1, <1>2, <1>3, <2>1, <2>3, <2>7, AdoptedSpaced DEF rec
    <3>2. handler'[t].at = "enqueue" /\ handler'[t].rec = rec
      BY <2>7
    <3>3. Seen(t)'
      BY <3>2 DEF Seen
    <3>4. DueSpaced(t)'
      BY <2>1, <3>1, <3>2 DEF DueSpaced, Spaced
    <3> QED
      BY <2>6, <3>3, <3>4
  <2>8. CASE fired = {} /\ handler'[t] = [at |-> "persist", rec |-> rec, fired |-> {}]
    <3>1. handler'[t].at = "persist" /\ handler'[t].rec.reading = r
      BY <2>2, <2>8
    <3>2. ASSUME "alert_state" \in StoreFaults
          PROVE  SameViews(t, alert_state[t].reading, r)
      <4>1. Fired(t, r) = {} /\ \A c \in Notifiers : SendRecovery[c]
        BY <2>8, <3>2
      <4>2. SameViews(t, r, states[t].reading)
        BY <1>1, <2>1, <4>1, NotFiredMeansSame
      <4> QED
        BY <2>3, <4>2 DEF SameViews
    <3>3. Seen(t)'
      BY <2>1, <3>1, <3>2 DEF Seen, SameViews, View
    <3>4. DueSpaced(t)'
      BY <3>1 DEF DueSpaced
    <3> QED
      BY <2>6, <3>3, <3>4
  <2>9. CASE ~changed /\ handler'[t] = Idle
    <3>1. states'[t].reading = states[t].reading
      BY <2>2, <2>5, <2>9
    <3>2. Seen(t)'
      BY <1>i, <2>1, <2>3, <2>9, <3>1 DEF Seen, SameViews, View
    <3>3. DueSpaced(t)'
      BY <1>i, <2>9 DEF DueSpaced
    <3> QED
      BY <2>6, <3>2, <3>3
  <2> QED
    BY <2>4, <2>7, <2>8, <2>9
<1>14. CASE Persisted(t)
  <2>1. /\ handler[t].at = "persist" /\ handler'[t].at = "idle" /\ up /\ t \in configured
        /\ states[t] = InMemory(handler[t].rec, NoCandidate)
        /\ UNCHANGED << Place, states[t] >>
    BY <1>2, <1>14, <1>i DEF Persisted, Live
  <2>2. CASE alert_state'[t] = handler[t].rec
    BY <1>7, <2>1, <2>2
  <2>3. CASE "alert_state" \in StoreFaults /\ UNCHANGED alert_state[t]
    <3>1. Clocks(t)'
      BY <1>2, <1>3, <1>5, <2>1, <2>3 DEF Clocks, Place
    <3>2. states[t].reading = handler[t].rec.reading
      BY <2>1 DEF InMemory
    <3>3. Seen(t)'
      BY <1>2, <2>1, <2>3, <3>2 DEF Seen, SameViews, View
    <3>4. DueSpaced(t)'
      BY <2>1 DEF DueSpaced
    <3> QED
      BY <3>1, <3>3, <3>4
  <2> QED
    BY <1>14, <2>2, <2>3 DEF Persisted
<1>15. CASE Enqueued(t)
  <2>1. /\ handler'[t].at = "notify" /\ up /\ t \in configured
        /\ states[t] = InMemory(handler[t].rec, NoCandidate)
        /\ alert_state'[t] = handler[t].rec
        /\ UNCHANGED << Place, states[t] >>
    <3>1. handler[t] \in Handler /\ handler[t].at = "enqueue"
      BY <1>1, <1>15 DEF Enqueued, TypeOK
    <3> QED
      BY <1>2, <1>15, <1>i, <3>1 DEF Enqueued, Live, Handler
  <2> QED
    BY <1>7, <2>1
<1>16. CASE Released(t)
  BY <1>6, <1>16, <1>i DEF Released, Tables
<1>17. StepOf(t)
  BY <1>1, StepCases, ManagerAssumption
<1> QED
  BY <1>8, <1>9, <1>10, <1>11, <1>12, <1>13, <1>14, <1>15, <1>16, <1>17 DEF StepOf

(***************************************************************************)
(* Restarts included, a problem is enqueued on top of the same persisted   *)
(* problem only when the repeat interval has passed since the alert before *)
(* it, and never under "never".  Needs Enqueue not to fail, since memory   *)
(* is then ahead of the table; and a silent write may fail only if every   *)
(* body renders and every notifier wants recoveries, since otherwise the   *)
(* end of a problem can be what was lost, and its return is an alert of    *)
(* its own that the table takes for the old one's.                         *)
(***************************************************************************)
THEOREM RemindersAreSpaced ==
    ASSUME "enqueue" \notin StoreFaults,
           \/ "alert_state" \notin StoreFaults
           \/ RenderFaults = {} /\ \A c \in Notifiers : SendRecovery[c]
    PROVE  Spec => RemindersSpaced
<1> DEFINE Distant == \A t \in Targets :
             LET old == alert_state[t]
                 new == alert_state'[t]
                 every == RepeatInterval[t][new.reading.severity]
             IN  Enqueue(t) /\ Bad(new.reading) /\ new.reading = old.reading
                   => new.last - old.last >= every /\ every < MaxDuration
<1>1. Init => SpacedInv
  BY SpacedInit
<1>2. SpacedInv /\ [Next]_vars => SpacedInv'
  BY SpacedStep
<1>3. ASSUME SpacedInv PROVE Distant
  <2> SUFFICES ASSUME NEW t \in Targets, Enqueue(t)
               PROVE  Spaced(t, alert_state[t], alert_state'[t])
    BY DEF Spaced
  <2>1. TypeOK /\ DueSpaced(t)
    BY <1>3 DEF SpacedInv, LiveInv, AlertedInv
  <2>2. handler[t].at = "enqueue" /\ alert_state'[t] = handler[t].rec
    BY <2>1 DEF Enqueue, TypeOK
  <2> QED
    BY <2>1, <2>2 DEF DueSpaced
<1> QED
  BY <1>1, <1>2, <1>3, PTL DEF Spec, RemindersSpaced

-----------------------------------------------------------------------------
(***************************************************************************)
(* Logs and runs.  A run of k readings is what TrailingRun counts, put in  *)
(* a form that a step extends by one.                                      *)
(***************************************************************************)
Run(k, r, log) == k <= Len(log) /\ \A i \in 1 .. k : log[i] = r

\* A run of readings has no gaps: what counts them has every one of them.
LEMMA TrailingRunCounts ==
    ASSUME NEW log \in Seq(Readings), NEW k \in Nat \ {0}
    PROVE  Run(k, log[1], log) <=> k <= TrailingRun(log)
<1> DEFINE counted == {j \in 1 .. Len(log) : \A i \in 1 .. j : log[i] = log[1]}
<1>1. Len(log) \in Nat /\ IsFiniteSet(1 .. Len(log))
  BY FS_Interval
<1>2. IsFiniteSet(counted) /\ Cardinality(counted) \in Nat
  BY <1>1, FS_Subset, FS_CardinalityType
<1>3. ASSUME Run(k, log[1], log) PROVE k <= Cardinality(counted)
  <2>1. 1 .. k \in SUBSET counted
    BY <1>1, <1>3 DEF Run
  <2>2. Cardinality(1 .. k) = k
    BY FS_Interval
  <2>3. Cardinality(1 .. k) <= Cardinality(counted)
    BY <1>2, <2>1, FS_Subset
  <2> QED
    BY <2>2, <2>3
<1>4. ASSUME ~Run(k, log[1], log) PROVE ~(k <= Cardinality(counted))
  <2>1. counted \in SUBSET (1 .. (k - 1))
    <3> SUFFICES ASSUME NEW j \in counted, k <= j PROVE FALSE
      BY <1>1
    <3>1. j \in 1 .. Len(log) /\ \A i \in 1 .. j : log[i] = log[1]
      OBVIOUS
    <3> QED
      BY <1>1, <1>4, <3>1 DEF Run
  <2>2. IsFiniteSet(1 .. (k - 1)) /\ Cardinality(1 .. (k - 1)) = k - 1
    BY FS_Interval
  <2>3. Cardinality(counted) <= Cardinality(1 .. (k - 1))
    BY <2>1, <2>2, FS_Subset
  <2> HIDE DEF counted
  <2> QED
    BY <1>2, <2>2, <2>3
<1> QED
  BY <1>3, <1>4 DEF TrailingRun

\* A row put in front: the log stays as long as it may, and moves by one.
LEMMA PushedLog ==
    ASSUME NEW t \in Targets, NEW r \in Readings, NEW log \in Seq(Readings),
           Len(log) <= FlapStreak[t]
    PROVE  LET new == Newest(t, << r >> \o log)
           IN  /\ new \in Seq(Readings) /\ Len(new) \in Nat
               /\ Len(new) <= FlapStreak[t]
               /\ Len(new) <= Len(log) + 1
               /\ Len(log) + 1 <= Len(new) \/ Len(new) = FlapStreak[t]
               /\ new # << >> /\ new[1] = r
               /\ \A i \in Nat \ {0} : i + 1 <= Len(new) => new[i + 1] = log[i]
<1> DEFINE all == << r >> \o log
           n == AtMost(FlapStreak[t], Len(all))
           new == Newest(t, all)
<1>1. FlapStreak[t] \in Nat \ {0} /\ Len(log) \in Nat
  BY ManagerAssumption DEF ManagerAssumption
<1>2. /\ all \in Seq(Readings) /\ Len(all) = Len(log) + 1 /\ all[1] = r
      /\ \A i \in 1 .. Len(log) : all[i + 1] = log[i]
  <2>1. << r >> \in Seq(Readings) /\ Len(<< r >>) = 1 /\ << r >>[1] = r
    OBVIOUS
  <2> QED
    BY <1>1, <2>1, ConcatProperties
<1> HIDE DEF all
<1>3. /\ n \in Nat /\ 1 <= n /\ n <= Len(all) /\ n <= FlapStreak[t]
      /\ n = FlapStreak[t] \/ n = Len(all)
  BY <1>1, <1>2 DEF AtMost
<1> HIDE DEF n
<1>4. \A i \in 1 .. n : all[i] \in Readings
  BY <1>1, <1>2, <1>3
<1>5. new = SubSeq(all, 1, n)
  BY DEF Newest, n
<1>6. /\ new \in Seq(Readings) /\ Len(new) = n
      /\ \A i \in 1 .. n : new[i] = all[i]
  BY <1>3, <1>4, <1>5, SubSeqProperties
<1> HIDE DEF new
<1>7. new # << >> /\ new[1] = r
  BY <1>2, <1>3, <1>6
<1>8. \A i \in Nat \ {0} : i + 1 <= Len(new) => new[i + 1] = log[i]
  BY <1>1, <1>2, <1>3, <1>6
<1> QED
  BY <1>1, <1>2, <1>3, <1>6, <1>7, <1>8 DEF new, all

\* So a run grows by one with a reading of its own, and only with that.
LEMMA RunPushed ==
    ASSUME NEW t \in Targets, NEW r \in Readings, NEW log \in Seq(Readings),
           Len(log) <= FlapStreak[t], NEW k \in Nat
    PROVE  LET new == Newest(t, << r >> \o log)
           IN  /\ Run(k, r, log) /\ k < FlapStreak[t] => Run(k + 1, r, new)
               /\ Run(k + 1, r, new) => Run(k, r, log)
<1> DEFINE new == Newest(t, << r >> \o log)
<1>1. /\ new \in Seq(Readings) /\ Len(new) \in Nat
      /\ Len(new) <= FlapStreak[t]
      /\ Len(new) <= Len(log) + 1
      /\ Len(log) + 1 <= Len(new) \/ Len(new) = FlapStreak[t]
      /\ new # << >> /\ new[1] = r
      /\ \A i \in Nat \ {0} : i + 1 <= Len(new) => new[i + 1] = log[i]
  BY PushedLog
<1>2. FlapStreak[t] \in Nat \ {0} /\ Len(log) \in Nat
  BY ManagerAssumption DEF ManagerAssumption
<1> HIDE DEF new
<1>3. ASSUME Run(k, r, log), k < FlapStreak[t] PROVE Run(k + 1, r, new)
  <2>1. k + 1 <= Len(new)
    BY <1>1, <1>2, <1>3 DEF Run
  <2>2. ASSUME NEW i \in 1 .. (k + 1) PROVE new[i] = r
    <3>1. CASE i = 1
      BY <1>1, <3>1
    <3>2. CASE i # 1
      <4>1. i - 1 \in 1 .. k /\ i - 1 \in Nat \ {0} /\ (i - 1) + 1 = i
        BY <3>2
      <4>2. new[i] = log[i - 1]
        BY <1>1, <2>1, <4>1
      <4> QED
        BY <1>3, <4>1, <4>2 DEF Run
    <3> QED
      BY <3>1, <3>2
  <2> QED
    BY <2>1, <2>2 DEF Run
<1>4. ASSUME Run(k + 1, r, new) PROVE Run(k, r, log)
  <2>1. k <= Len(log)
    BY <1>1, <1>2, <1>4 DEF Run
  <2>2. ASSUME NEW i \in 1 .. k PROVE log[i] = r
    BY <1>1, <1>2, <1>4, <2>2 DEF Run
  <2> QED
    BY <2>1, <2>2 DEF Run
<1> QED
  BY <1>3, <1>4 DEF new

\* What a restart reads is a beginning of the log; all of it when nothing is lost.
LEMMA LegibleLog ==
    ASSUME NEW t \in Targets, NEW log \in Seq(Readings), Len(log) <= FlapStreak[t],
           NEW n \in 0 .. Len(log)
    PROVE  LET read == Newest(t, SubSeq(log, 1, n))
           IN  /\ read \in Seq(Readings) /\ Len(read) = n
               /\ \A i \in 1 .. n : read[i] = log[i]
               /\ n = Len(log) => read = log
<1> DEFINE rows == SubSeq(log, 1, n)
<1>1. FlapStreak[t] \in Nat \ {0} /\ Len(log) \in Nat /\ n \in Nat /\ n <= Len(log)
  BY ManagerAssumption DEF ManagerAssumption
<1>2. \A i \in 1 .. n : log[i] \in Readings
  BY <1>1
<1>3. rows \in Seq(Readings) /\ Len(rows) = n /\ \A i \in 1 .. n : rows[i] = log[i]
  BY <1>1, <1>2, SubSeqProperties
<1>4. n = Len(log) => rows = log
  BY SubSeqFull
<1> HIDE DEF rows
<1>5. AtMost(FlapStreak[t], Len(rows)) = Len(rows)
  BY <1>1, <1>3 DEF AtMost
<1>6. Newest(t, rows) = rows
  BY <1>3, <1>5, SubSeqFull DEF Newest
<1> QED
  BY <1>3, <1>4, <1>6 DEF rows

-----------------------------------------------------------------------------
(***************************************************************************)
(* The count of the debounce, while RecordProbe does not fail: a candidate *)
(* is backed by as many rows of the probe log, over restarts, and the row  *)
(* of the result in hand is in front of them.                              *)
(***************************************************************************)
LogFits(t) == Len(probe_log[t]) <= FlapStreak[t]

InHand(t) ==
    handler[t].at = "process"
      => probe_log[t] # << >> /\ probe_log[t][1] = handler[t].rec.reading

Backed(t) ==
    LET p == states[t].pending
        log == probe_log[t]
    IN  /\ p.count < FlapStreak[t]
        /\ handler[t].at # "process" => Run(p.count, p.reading, log)
        /\ handler[t].at = "process" /\ p.reading = handler[t].rec.reading
             => Run(p.count + 1, p.reading, log)

CountsInv ==
    /\ LiveInv
    /\ \A t \in Targets : LogFits(t) /\ InHand(t) /\ Backed(t)

LEMMA LogTypes ==
    ASSUME TypeOK, NEW t \in Targets
    PROVE  /\ probe_log[t] \in Seq(Readings) /\ Len(probe_log[t]) \in Nat
           /\ FlapStreak[t] \in Nat \ {0}
           /\ states[t] \in TargetState /\ states[t].reading \in Readings
           /\ states[t].pending \in Candidates
           /\ states[t].pending.count \in Nat /\ states[t].pending.reading \in Readings
           /\ alert_state[t].reading \in Readings
           /\ handler[t].rec.reading \in Readings
<1>1. probe_log[t] \in Seq(Readings) /\ FlapStreak[t] \in Nat \ {0}
  BY ManagerAssumption DEF ManagerAssumption, TypeOK
<1>2. Len(probe_log[t]) \in Nat
  BY <1>1
<1>3. states[t] \in TargetState /\ alert_state[t] \in StateRecord
      /\ handler[t].rec \in StateRecord
  BY DEF TypeOK, Handler
<1> QED
  BY <1>1, <1>2, <1>3 DEF TargetState, Candidates, StateRecord

\* Restore never counts more than the log holds, and all of it if it reads all.
LEMMA RestoredCounts ==
    ASSUME TypeOK, NEW t \in Targets, LogFits(t), NEW n \in Legible(t)
    PROVE  LET p == Restored(t, n).pending
               log == probe_log[t]
           IN  /\ p.count < FlapStreak[t] /\ Run(p.count, p.reading, log)
               /\ n = Len(log) /\ log # << >>
                  /\ NeedsConfirmation(FlapStreak[t], alert_state[t].reading, log[1])
                    => /\ p.reading = log[1]
                       /\ \A k \in 1 .. FlapStreak[t] - 1 :
                            Run(k, log[1], log) => p.count >= k
<1> DEFINE p == Restored(t, n).pending
           log == probe_log[t]
           read == Newest(t, SubSeq(log, 1, n))
           needed == NeedsConfirmation(FlapStreak[t], alert_state[t].reading, read[1])
<1>1. /\ log \in Seq(Readings) /\ Len(log) \in Nat /\ Len(log) <= FlapStreak[t]
      /\ FlapStreak[t] \in Nat \ {0} /\ n \in 0 .. Len(log)
  BY LogTypes DEF LogFits, Legible
<1>2. /\ read \in Seq(Readings) /\ Len(read) = n
      /\ \A i \in 1 .. n : read[i] = log[i]
      /\ n = Len(log) => read = log
  BY <1>1, LegibleLog
<1>3. p = reconstructPending(FlapStreak[t], alert_state[t].reading, read)
  BY DEF Restored, InMemory
<1> HIDE DEF read, p, log
<1>4. CASE read # << >> /\ needed
  <2> DEFINE run == TrailingRun(read)
  <2>1. /\ p.reading = read[1] /\ p.count = AtMost(FlapStreak[t] - 1, run)
    BY <1>3, <1>4 DEF reconstructPending
  <2>2. FlapStreak[t] > 1 /\ run \in Nat
    BY <1>1, <1>2, <1>4, TrailingRunType DEF NeedsConfirmation
  <2>3. read[1] = log[1] /\ 1 <= n
    BY <1>1, <1>2, <1>4
  <2>4. p.count \in Nat /\ p.count < FlapStreak[t] /\ p.count <= run
        /\ \A k \in 1 .. FlapStreak[t] - 1 : k <= run => p.count >= k
    <3> HIDE DEF run
    <3> QED
      BY <1>1, <2>1, <2>2 DEF AtMost
  <2>5. Run(p.count, log[1], log)
    <3>1. CASE p.count = 0
      BY <1>1, <3>1 DEF Run
    <3>2. CASE p.count # 0
      <4>1. Run(p.count, read[1], read)
        BY <1>2, <2>4, <3>2, TrailingRunCounts
      <4> QED
        BY <1>1, <1>2, <2>3, <2>4, <4>1 DEF Run
    <3> QED
      BY <3>1, <3>2
  <2>6. ASSUME n = Len(log), NEW k \in 1 .. FlapStreak[t] - 1, Run(k, log[1], log)
        PROVE  p.count >= k
    <3>1. k \in Nat \ {0} /\ read = log
      BY <1>1, <1>2, <2>6
    <3>2. k <= run
      BY <1>2, <2>6, <3>1, TrailingRunCounts
    <3> QED
      BY <2>4, <3>2
  <2> QED
    BY <2>1, <2>3, <2>4, <2>5, <2>6 DEF p, log
<1>5. CASE ~(read # << >> /\ needed)
  <2>1. p.count = 0
    BY <1>3, <1>5 DEF reconstructPending, NoCandidate
  <2>2. Run(0, p.reading, log)
    BY <1>1 DEF Run
  <2>3. ~(n = Len(log) /\ log # << >>
          /\ NeedsConfirmation(FlapStreak[t], alert_state[t].reading, log[1]))
    BY <1>2, <1>5
  <2> QED
    BY <1>1, <2>1, <2>2, <2>3 DEF p, log
<1> QED
  BY <1>4, <1>5

LEMMA CountsInit == Init => CountsInv
<1> SUFFICES ASSUME Init PROVE CountsInv
  OBVIOUS
<1>1. ASSUME NEW t \in Targets PROVE LogFits(t) /\ InHand(t) /\ Backed(t)
  <2>1. /\ probe_log[t] = << >> /\ handler[t] = Idle /\ states[t].pending.count = 0
    BY DEF Init, CleanState, InMemory, NoCandidate
  <2>2. FlapStreak[t] \in Nat \ {0}
    BY ManagerAssumption DEF ManagerAssumption
  <2>3. Len(<< >>) = 0
    OBVIOUS
  <2> QED
    BY <2>1, <2>2, <2>3 DEF LogFits, InHand, Backed, Idle, Run
<1> QED
  BY <1>1, LiveInit DEF CountsInv

LEMMA CountsStep ==
    ASSUME "probe_log" \notin StoreFaults, CountsInv, [Next]_vars
    PROVE  CountsInv'
<1>1. LiveInv' /\ LiveInv /\ TypeOK /\ TypeOK'
  BY LiveStep, TypeStep, ManagerAssumption DEF CountsInv, LiveInv, AlertedInv
<1> SUFFICES ASSUME NEW t \in Targets PROVE LogFits(t)' /\ InHand(t)' /\ Backed(t)'
  BY <1>1 DEF CountsInv
<1>2. Live(t) /\ LogFits(t) /\ InHand(t) /\ Backed(t)
  BY <1>1 DEF CountsInv, LiveInv
<1> DEFINE log == probe_log[t]
           p == states[t].pending
<1>3. /\ log \in Seq(Readings) /\ Len(log) \in Nat /\ FlapStreak[t] \in Nat \ {0}
      /\ states[t] \in TargetState
      /\ p \in Candidates /\ p.count \in Nat /\ p.reading \in Readings
  BY <1>1, LogTypes
<1>i. Idle.at = "idle"
  BY DEF Idle
\* Steps that end up with the log and the candidate they started with.
<1>4. ASSUME UNCHANGED << probe_log[t], states[t].pending >>,
             handler[t].at # "process", handler'[t].at # "process"
      PROVE  LogFits(t)' /\ InHand(t)' /\ Backed(t)'
  BY <1>2, <1>4 DEF LogFits, InHand, Backed, Run
\* Steps that end up without a candidate.
<1>5. ASSUME UNCHANGED probe_log[t], states'[t].pending.count = 0,
             handler'[t].at # "process"
      PROVE  LogFits(t)' /\ InHand(t)' /\ Backed(t)'
  <2>1. Run(0, states'[t].pending.reading, log)
    BY <1>3 DEF Run
  <2> QED
    BY <1>2, <1>3, <1>5, <2>1 DEF LogFits, InHand, Backed, Run
<1>c. CleanState.pending.count = 0
  BY DEF CleanState, InMemory, NoCandidate
<1>6. CASE Started(t)
  <2>1. probe_log'[t] = probe_log[t] /\ handler'[t].at # "process"
    BY <1>2, <1>6, <1>i DEF Started, Live
  <2>2. CASE t \in configured'
    <3>1. PICK n \in Legible(t) : states'[t] = Restored(t, n)
      BY <1>6, <2>2 DEF Started
    <3>2. /\ states'[t].pending.count < FlapStreak[t]
          /\ Run(states'[t].pending.count, states'[t].pending.reading, log)
      BY <1>1, <1>2, <3>1, RestoredCounts
    <3> QED
      BY <1>2, <2>1, <3>2 DEF LogFits, InHand, Backed, Run
  <2>3. CASE t \notin configured'
    BY <1>5, <1>6, <1>c, <2>1, <2>3 DEF Started
  <2> QED
    BY <2>2, <2>3
<1>7. CASE Crashed(t)
  BY <1>5, <1>7, <1>c, <1>i DEF Crashed, Tables
<1>8. CASE Untouched(t)
  BY <1>2, <1>8 DEF Untouched, Tables, LogFits, InHand, Backed, Run
<1>9. CASE Recorded(t)
  <2>1. PICK r \in Observed :
          /\ handler[t].at = "idle"
          /\ handler'[t] = [at |-> "process", rec |-> [CleanRecord EXCEPT !.reading = r],
                            fired |-> {}]
          /\ probe_log'[t] = Newest(t, << r >> \o probe_log[t])
          /\ UNCHANGED states[t]
    BY <1>9 DEF Recorded
  <2>2. r \in Readings /\ handler'[t].at = "process" /\ handler'[t].rec.reading = r
    BY <2>1, ManagerAssumption DEF ManagerAssumption, CleanRecord
  <2>3. /\ Len(probe_log'[t]) <= FlapStreak[t]
        /\ probe_log'[t] # << >> /\ probe_log'[t][1] = r
    BY <1>2, <1>3, <2>1, <2>2, PushedLog DEF LogFits
  <2>4. ASSUME p.reading = r PROVE Run(p.count + 1, p.reading, probe_log'[t])
    <3>1. Run(p.count, r, log) /\ p.count < FlapStreak[t]
      BY <1>2, <2>1, <2>4 DEF Backed
    <3> QED
      BY <1>2, <1>3, <2>1, <2>2, <2>4, <3>1, RunPushed DEF LogFits
  <2> QED
    BY <1>2, <2>1, <2>2, <2>3, <2>4 DEF LogFits, InHand, Backed, Run
<1>10. CASE Held(t)
  <2> DEFINE r == handler[t].rec.reading
             counted == Counted(p, r)
  <2>1. /\ handler[t].at = "process" /\ Holds(t, r) /\ UNCHANGED probe_log[t]
        /\ handler'[t].at = "idle" /\ states'[t].pending = counted
    BY <1>3, <1>10, <1>i DEF Held, Tables, TargetState
  <2>2. log # << >> /\ log[1] = r /\ Len(log) >= 1
    BY <1>2, <1>3, <2>1 DEF InHand
  <2>3. counted.count < FlapStreak[t]
    BY <2>1 DEF Holds
  <2>4. Run(counted.count, counted.reading, log)
    <3>1. CASE p.count > 0 /\ p.reading = r
      <4>1. counted.count = p.count + 1 /\ counted.reading = p.reading
        BY <1>3, <3>1 DEF Counted, Candidates
      <4> QED
        BY <1>2, <2>1, <3>1, <4>1 DEF Backed
    <3>2. CASE ~(p.count > 0 /\ p.reading = r)
      <4>1. counted.count = 1 /\ counted.reading = r
        BY <3>2 DEF Counted
      <4> QED
        BY <2>2, <4>1 DEF Run
    <3> QED
      BY <3>1, <3>2
  <2> HIDE DEF counted
  <2> QED
    BY <1>2, <2>1, <2>3, <2>4 DEF LogFits, InHand, Backed, Run
<1>11. CASE Adopted(t)
  <2>1. UNCHANGED probe_log[t] /\ states'[t].pending.count = 0
    BY <1>11 DEF Adopted, Tables, InMemory, NoCandidate
  <2>2. handler'[t].at # "process"
    BY <1>11, <1>i DEF Adopted
  <2> QED
    BY <1>5, <2>1, <2>2
<1>12. CASE Persisted(t)
  BY <1>4, <1>12, <1>i DEF Persisted
<1>13. CASE Enqueued(t)
  <2>1. handler[t] \in Handler
    BY <1>1 DEF TypeOK
  <2> QED
    BY <1>4, <1>13, <2>1 DEF Enqueued, Handler
<1>14. CASE Released(t)
  BY <1>4, <1>14, <1>i DEF Released, Tables
<1>15. StepOf(t)
  BY <1>1, StepCases, ManagerAssumption
<1> QED
  BY <1>6, <1>7, <1>8, <1>9, <1>10, <1>11, <1>12, <1>13, <1>14, <1>15 DEF StepOf

THEOREM CountsIsInvariant ==
    ASSUME "probe_log" \notin StoreFaults
    PROVE  Spec => []CountsInv
<1>1. Init => CountsInv
  BY CountsInit
<1>2. CountsInv /\ [Next]_vars => CountsInv'
  BY CountsStep
<1> QED
  BY <1>1, <1>2, PTL DEF Spec

(***************************************************************************)
(* While RecordProbe does not fail, whatever else does, and however often  *)
(* the process is restarted and however much of the probe log a restart    *)
(* can read: no network-shaped transition is confirmed unless the newest   *)
(* flap_streak results in the log all agree on it.                         *)
(***************************************************************************)
THEOREM TransitionsAreConfirmed ==
    ASSUME "probe_log" \notin StoreFaults
    PROVE  Spec => ConfirmedTransitions
<1> DEFINE Confirmed == \A t \in Targets :
             LET old == states[t].reading
                 new == states'[t].reading
             IN  up /\ up' /\ NeedsConfirmation(FlapStreak[t], old, new)
                   => TrailingRun(probe_log[t]) >= FlapStreak[t]
                      /\ Head(probe_log[t]) = new
<1>1. ASSUME CountsInv, [Next]_vars PROVE Confirmed
  <2>1. TypeOK
    BY <1>1 DEF CountsInv, LiveInv, AlertedInv
  <2> SUFFICES ASSUME NEW t \in Targets, up, up',
                      NeedsConfirmation(FlapStreak[t], states[t].reading,
                                        states'[t].reading)
               PROVE  /\ TrailingRun(probe_log[t]) >= FlapStreak[t]
                      /\ Head(probe_log[t]) = states'[t].reading
    OBVIOUS
  <2> DEFINE r == handler[t].rec.reading
             p == states[t].pending
             log == probe_log[t]
  <2>2. /\ log \in Seq(Readings) /\ FlapStreak[t] \in Nat \ {0}
        /\ states[t] \in TargetState /\ p.count \in Nat /\ p \in Candidates
    BY <2>1, LogTypes
  <2>3. states'[t].reading # states[t].reading /\ FlapStreak[t] > 1
    BY DEF NeedsConfirmation
  <2>4. StepOf(t)
    BY <1>1, <2>1, StepCases, ManagerAssumption
  <2>5. Adopted(t)
    <3>1. ~Started(t) /\ ~Crashed(t)
      BY DEF Started, Crashed
    <3>2. ~Untouched(t) /\ ~Recorded(t) /\ ~Persisted(t) /\ ~Enqueued(t) /\ ~Released(t)
      BY <2>3 DEF Untouched, Recorded, Persisted, Enqueued, Released
    <3>3. ~Held(t)
      BY <2>2, <2>3 DEF Held, TargetState
    <3> QED
      BY <2>4, <3>1, <3>2, <3>3 DEF StepOf
  <2>6. states'[t].reading = r /\ ~Holds(t, r) /\ handler[t].at = "process"
    BY <2>5 DEF Adopted, Decided, InMemory
  <2>7. log # << >> /\ log[1] = r
    BY <1>1, <2>6 DEF CountsInv, InHand
  <2>8. Counted(p, r).count >= FlapStreak[t]
    <3>1. Counted(p, r).count \in Nat
      BY <2>1, <2>2, LogTypes, CountedType DEF Candidates
    <3>2. ~(Counted(p, r).count < FlapStreak[t])
      BY <2>6 DEF Holds
    <3> QED
      BY <2>2, <3>1, <3>2
  <2>9. p.reading = r /\ p.count + 1 >= FlapStreak[t]
    BY <2>2, <2>3, <2>8 DEF Counted, Candidates
  <2>10. Run(p.count + 1, log[1], log)
    BY <1>1, <2>6, <2>7, <2>9 DEF CountsInv, Backed
  <2>11. p.count + 1 <= TrailingRun(log)
    BY <2>2, <2>10, TrailingRunCounts
  <2>12. TrailingRun(log) \in Nat
    BY <2>2, TrailingRunType
  <2>13. Head(log) = r
    BY <2>2, <2>7
  <2> QED
    BY <2>2, <2>6, <2>9, <2>11, <2>12, <2>13
<1>2. CountsInv /\ [Next]_vars => Confirmed
  BY <1>1
<1> QED
  BY <1>2, CountsIsInvariant, PTL DEF Spec, ConfirmedTransitions

-----------------------------------------------------------------------------
(***************************************************************************)
(* The other direction, when a restart reads the whole log too: as long as *)
(* the newest reading awaits confirmation, the candidate is that reading   *)
(* and counts every row of its run, up to one less than the streak; with a *)
(* result in hand, every row but that one.                                 *)
(***************************************************************************)
Awaited(t) ==
    /\ up /\ t \in configured /\ probe_log[t] # << >>
    /\ NeedsConfirmation(FlapStreak[t], states[t].reading, probe_log[t][1])

Kept(t) ==
    LET p == states[t].pending
        log == probe_log[t]
        before == IF handler[t].at = "process" THEN 1 ELSE 0
    IN  Awaited(t) => \A k \in 1 .. FlapStreak[t] - 1 :
          Run(k + before, log[1], log) => p.reading = log[1] /\ p.count >= k

KeptInv == CountsInv /\ \A t \in Targets : Kept(t)

LEMMA KeptInit == Init => KeptInv
  BY CountsInit DEF Init, KeptInv, Kept, Awaited

LEMMA KeptStep ==
    ASSUME {"probe_log", "read", "retention"} \cap StoreFaults = {},
           KeptInv, [Next]_vars
    PROVE  KeptInv'
<1>1. CountsInv' /\ CountsInv /\ TypeOK /\ TypeOK'
  BY CountsStep, TypeStep, ManagerAssumption DEF KeptInv, CountsInv, LiveInv, AlertedInv
<1> SUFFICES ASSUME NEW t \in Targets PROVE Kept(t)'
  BY <1>1 DEF KeptInv
<1>2. Live(t) /\ LogFits(t) /\ InHand(t) /\ Kept(t)
  BY <1>1 DEF KeptInv, CountsInv, LiveInv
<1> DEFINE log == probe_log[t]
           p == states[t].pending
<1>3. /\ log \in Seq(Readings) /\ Len(log) \in Nat /\ FlapStreak[t] \in Nat \ {0}
      /\ states[t] \in TargetState
      /\ p \in Candidates /\ p.count \in Nat /\ p.reading \in Readings
  BY <1>1, LogTypes
<1>i. Idle.at = "idle"
  BY DEF Idle
\* Steps that keep the log, the candidate and the confirmed reading.
<1>4. ASSUME UNCHANGED << Place, probe_log[t], states[t] >>,
             handler[t].at # "process", handler'[t].at # "process"
      PROVE  Kept(t)'
  BY <1>2, <1>4 DEF Kept, Awaited, Place, Run
<1>5. CASE Started(t)
  <2> SUFFICES ASSUME Awaited(t)' PROVE Kept(t)'
    BY DEF Kept
  <2>1. /\ probe_log'[t] = log /\ handler'[t].at # "process"
        /\ t \in configured' /\ log # << >>
        /\ NeedsConfirmation(FlapStreak[t], states'[t].reading, log[1])
    BY <1>2, <1>5, <1>i DEF Started, Live, Awaited
  <2>2. PICK n \in Legible(t) : states'[t] = Restored(t, n)
    BY <1>5, <2>1 DEF Started
  <2>3. n = Len(log)
    BY <1>3 DEF Legible
  <2>4. states'[t].reading = alert_state[t].reading
    BY <2>2 DEF Restored, InMemory
  <2>5. /\ states'[t].pending.reading = log[1]
        /\ \A k \in 1 .. FlapStreak[t] - 1 :
             Run(k, log[1], log) => states'[t].pending.count >= k
    BY <1>1, <1>2, <2>1, <2>2, <2>3, <2>4, RestoredCounts
  <2> QED
    BY <1>3, <2>1, <2>5 DEF Kept, Run
<1>6. CASE Crashed(t)
  BY <1>6 DEF Crashed, Kept, Awaited
<1>7. CASE Untouched(t)
  BY <1>2, <1>7 DEF Untouched, Place, Tables, Kept, Awaited, Run
<1>8. CASE Recorded(t)
  <2>1. PICK r \in Observed :
          /\ up /\ t \in configured /\ handler[t].at = "idle"
          /\ handler'[t] = [at |-> "process", rec |-> [CleanRecord EXCEPT !.reading = r],
                            fired |-> {}]
          /\ probe_log'[t] = Newest(t, << r >> \o probe_log[t])
          /\ UNCHANGED << Place, states[t] >>
    BY <1>8 DEF Recorded
  <2>2. r \in Readings /\ handler'[t].at = "process"
    BY <2>1, ManagerAssumption DEF ManagerAssumption
  <2>3. probe_log'[t][1] = r
    BY <1>2, <1>3, <2>1, <2>2, PushedLog DEF LogFits
  <2> SUFFICES ASSUME Awaited(t)', NEW k \in 1 .. FlapStreak[t] - 1,
                      Run(k + 1, r, probe_log'[t])
               PROVE  p.reading = r /\ p.count >= k
    BY <2>1, <2>2, <2>3 DEF Kept, Run
  <2>4. k \in Nat /\ 1 <= k
    BY <1>3
  <2>5. Run(k, r, log)
    BY <1>2, <1>3, <2>1, <2>2, <2>4, RunPushed DEF LogFits
  <2>6. log # << >> /\ log[1] = r
    BY <1>3, <2>4, <2>5 DEF Run
  <2>7. Awaited(t)
    BY <2>1, <2>3, <2>6 DEF Awaited
  <2>8. Run(k + 0, log[1], log)
    BY <2>4, <2>5, <2>6
  <2> QED
    BY <1>2, <2>1, <2>6, <2>7, <2>8 DEF Kept
<1>9. CASE Held(t)
  <2> DEFINE r == handler[t].rec.reading
             counted == Counted(p, r)
  <2>1. /\ handler[t].at = "process" /\ Holds(t, r) /\ UNCHANGED << Place, probe_log[t] >>
        /\ handler'[t].at = "idle" /\ states'[t].pending = counted
        /\ states'[t].reading = states[t].reading /\ up /\ t \in configured
    BY <1>2, <1>3, <1>9, <1>i DEF Held, Tables, TargetState, Live
  <2>2. log # << >> /\ log[1] = r /\ Awaited(t)
    BY <1>2, <2>1 DEF InHand, Holds, Awaited
  <2>3. ASSUME NEW k \in 1 .. FlapStreak[t] - 1, Run(k, r, log)
        PROVE  counted.reading = r /\ counted.count >= k
    <3>1. CASE k = 1
      BY <1>3, <3>1 DEF Counted, Candidates
    <3>2. CASE k # 1
      <4>1. k - 1 \in 1 .. FlapStreak[t] - 1 /\ k \in Nat /\ (k - 1) + 1 = k
        BY <1>3, <3>2
      <4>2. Run((k - 1) + 1, log[1], log)
        BY <2>2, <2>3, <4>1
      <4>3. p.reading = r /\ p.count >= k - 1
        BY <1>2, <2>1, <2>2, <4>1, <4>2 DEF Kept
      <4> QED
        BY <1>3, <3>2, <4>1, <4>3 DEF Counted, Candidates
    <3> QED
      BY <3>1, <3>2
  <2> HIDE DEF counted
  <2> QED
    BY <1>3, <2>1, <2>2, <2>3 DEF Kept, Run
<1>10. CASE Adopted(t)
  <2>1. /\ states'[t].reading = handler[t].rec.reading /\ UNCHANGED probe_log[t]
        /\ handler[t].at = "process"
    BY <1>10 DEF Adopted, Tables, Decided, InMemory
  <2>2. ~Awaited(t)'
    BY <1>2, <2>1 DEF InHand, Awaited, NeedsConfirmation
  <2> QED
    BY <2>2 DEF Kept
<1>11. CASE Persisted(t)
  BY <1>4, <1>11, <1>i DEF Persisted
<1>12. CASE Enqueued(t)
  <2>1. handler[t] \in Handler
    BY <1>1 DEF TypeOK
  <2> QED
    BY <1>4, <1>12, <2>1 DEF Enqueued, Handler
<1>13. CASE Released(t)
  BY <1>4, <1>13, <1>i DEF Released, Tables
<1>14. StepOf(t)
  BY <1>1, StepCases, ManagerAssumption
<1> QED
  BY <1>5, <1>6, <1>7, <1>8, <1>9, <1>10, <1>11, <1>12, <1>13, <1>14 DEF StepOf

(***************************************************************************)
(* When every result is recorded and a restart reads the log back: the     *)
(* handler of the result that completes a streak adopts it, wherever in    *)
(* the streak the process was restarted.                                   *)
(***************************************************************************)
THEOREM StreaksAreNotLost ==
    ASSUME {"probe_log", "read", "retention"} \cap StoreFaults = {}
    PROVE  Spec => ConfirmationNotLost
<1> DEFINE NotLost == \A t \in Targets :
             Process(t) /\ TrailingRun(probe_log[t]) >= FlapStreak[t]
               => states'[t].reading = Head(probe_log[t])
<1>1. Init => KeptInv
  BY KeptInit
<1>2. KeptInv /\ [Next]_vars => KeptInv'
  BY KeptStep
<1>3. ASSUME KeptInv PROVE NotLost
  <2>1. TypeOK /\ CountsInv
    BY <1>3 DEF KeptInv, CountsInv, LiveInv, AlertedInv
  <2> SUFFICES ASSUME NEW t \in Targets, Process(t),
                      TrailingRun(probe_log[t]) >= FlapStreak[t]
               PROVE  states'[t].reading = Head(probe_log[t])
    OBVIOUS
  <2> DEFINE r == handler[t].rec.reading
             p == states[t].pending
             log == probe_log[t]
             n == FlapStreak[t]
  <2>2. /\ log \in Seq(Readings) /\ n \in Nat \ {0}
        /\ p.count \in Nat /\ p \in Candidates
    BY <2>1, LogTypes
  <2>3. handler[t].at = "process" /\ up /\ t \in configured
    <3>1. handler[t].at = "process"
      BY DEF Process, Hold, Adopt
    <3> QED
      BY <2>1, <3>1 DEF CountsInv, LiveInv, Live, Idle
  <2>4. log # << >> /\ log[1] = r /\ Head(log) = r
    BY <2>1, <2>2, <2>3 DEF CountsInv, InHand
  <2>5. Run(n, log[1], log)
    <3>1. TrailingRun(log) \in Nat
      BY <2>2, TrailingRunType
    <3> QED
      BY <2>2, <3>1, TrailingRunCounts
  <2>6. CASE Adopt(t)
    <3>1. Adopted(t)
      BY <2>1, <2>6, AdoptCase
    <3> QED
      BY <2>4, <3>1 DEF Adopted, Decided, InMemory
  <2>7. ~Hold(t)
    <3> SUFFICES ASSUME Hold(t) PROVE FALSE
      OBVIOUS
    <3>1. NeedsConfirmation(n, states[t].reading, r) /\ Counted(p, r).count < n
      BY DEF Hold, Holds
    <3>2. Awaited(t) /\ n > 1
      BY <2>3, <2>4, <3>1 DEF Awaited, NeedsConfirmation
    <3>3. n - 1 \in 1 .. n - 1 /\ (n - 1) + 1 = n
      BY <2>2, <3>2
    <3>4. Run((n - 1) + 1, log[1], log)
      BY <2>5, <3>3
    <3>5. p.reading = r /\ p.count >= n - 1
      BY <1>3, <2>3, <2>4, <3>2, <3>3, <3>4 DEF KeptInv, Kept
    <3>6. Counted(p, r).count = p.count + 1
      BY <2>2, <3>2, <3>5 DEF Counted, Candidates
    <3> QED
      BY <2>2, <3>1, <3>5, <3>6
  <2> QED
    BY <2>6, <2>7 DEF Process
<1> QED
  BY <1>1, <1>2, <1>3, PTL DEF Spec, ConfirmationNotLost
=============================================================================
