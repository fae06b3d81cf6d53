-------------------------- MODULE SchedulerProofs --------------------------
(***************************************************************************)
(* Theorems about Scheduler, for any targets, any concurrency and any      *)
(* numbers of retries.                                                     *)
(***************************************************************************)
EXTENDS Scheduler, FiniteSetTheorems, TLAPS

-----------------------------------------------------------------------------
(***************************************************************************)
(* The invariant.  Every goroutine is of the current cycle, because        *)
(* wg.Wait ends a cycle, so two cycles never share a target or the slots.  *)
(***************************************************************************)
OfThisCycle ==
    /\ \A g \in goroutines : g.cycle = cycle /\ g.target \notin unlaunched
    /\ run # "cycle" => goroutines = {} /\ unlaunched = {}

\* What a goroutine knows of its attempts, before and at its end.
Attempts(g) ==
    /\ g.at \in {"attempt", "pause", "handle"}
         => g.attempt \in 1 .. ConnectRetries[g.target] + 1
    /\ g.at = "pause" => g.failed
    /\ g.at = "handle" /\ g.result = "unreachable" /\ ~ctxDone
         => g.attempt = ConnectRetries[g.target] + 1 /\ g.failed

AttemptsCounted == \A g \in goroutines : Attempts(g)

SlotsCounted ==
    /\ IsFiniteSet(goroutines)
    /\ Cardinality(Holding(cycle)) <= Concurrency

SchedulerInv ==
    TypeOK /\ OneGoroutinePerTarget /\ OfThisCycle /\ AttemptsCounted /\ SlotsCounted

(***************************************************************************)
(* The steps of a goroutine g replace it by one of the same target and     *)
(* cycle, or remove it.                                                    *)
(***************************************************************************)
Moves(g, h) ==
    /\ h \in Goroutines
    /\ h.target = g.target /\ h.cycle = g.cycle
    /\ Attempts(h)
    /\ Replace(g, h)
    /\ \/ h.at \in {"jitter", "slot"}
       \/ g.at \in {"attempt", "pause", "handle"}
       \/ Cardinality(Holding(g.cycle)) < Concurrency

LEMMA GoroutineSteps ==
    ASSUME SchedulerAssumption, TypeOK, AttemptsCounted,
           NEW g \in goroutines, Goroutine(g)
    PROVE  /\ UNCHANGED << ctxDone, run, cycle, unlaunched >>
           /\ Done(g) \/ \E h : Moves(g, h)
<1> USE DEF Goroutines, Places, Results
<1>0. /\ g \in Goroutines /\ Attempts(g)
      /\ ConnectRetries[g.target] \in Nat
  BY DEF TypeOK, AttemptsCounted, SchedulerAssumption
<1>1. CASE JitterOver(g)
  <2> DEFINE h == [g EXCEPT !.at = "slot"]
  <2>1. h \in Goroutines /\ h.target = g.target /\ h.cycle = g.cycle /\ h.at = "slot"
    BY <1>0, <1>1 DEF JitterOver
  <2>2. Moves(g, h)
    BY <1>1, <2>1 DEF JitterOver, Moves, Attempts
  <2> QED
    BY <1>1, <2>2 DEF JitterOver
<1>2. CASE TakeSlot(g)
  <2> DEFINE h == [g EXCEPT !.at = "attempt", !.attempt = 1]
  <2>1. /\ h \in Goroutines /\ h.target = g.target /\ h.cycle = g.cycle
        /\ h.at = "attempt" /\ h.attempt = 1
    BY <1>0, <1>2 DEF TakeSlot
  <2>2. Attempts(h)
    BY <1>0, <2>1 DEF Attempts
  <2>3. Moves(g, h)
    BY <1>2, <2>1, <2>2 DEF TakeSlot, Moves
  <2> QED
    BY <1>2, <2>3 DEF TakeSlot
<1>3. CASE GiveUp(g) \/ Handle(g)
  BY <1>3 DEF GiveUp, Handle
<1>4. CASE Answered(g)
  <2> DEFINE h == [g EXCEPT !.at = "handle", !.result = "answered"]
  <2>1. /\ h \in Goroutines /\ h.target = g.target /\ h.cycle = g.cycle
        /\ h.at = "handle" /\ h.result = "answered" /\ h.attempt = g.attempt
    BY <1>0
  <2>2. Attempts(h) /\ g.at = "attempt"
    BY <1>0, <1>4, <2>1 DEF Attempts, Answered
  <2>3. Moves(g, h)
    BY <1>4, <2>1, <2>2 DEF Answered, Moves
  <2> QED
    BY <1>4, <2>3 DEF Answered
<1>5. CASE Fails(g)
  <2>1. PICK own \in (IF ctxDone THEN BOOLEAN ELSE {TRUE}) :
          LET h == [g EXCEPT !.failed = @ \/ own]
          IN  Replace(g, IF ctxDone
                         THEN [h EXCEPT !.at = "handle", !.result = "unreachable"]
                         ELSE [h EXCEPT !.at = "pause"])
    BY <1>5 DEF Fails
  <2>2. g.at = "attempt"
    BY <1>5 DEF Fails
  <2> DEFINE f == [g EXCEPT !.failed = @ \/ own]
  <2>3. own \in BOOLEAN /\ g.failed \in BOOLEAN
    BY <1>0, <2>1
  <2>4. /\ f \in Goroutines /\ f.target = g.target /\ f.cycle = g.cycle
        /\ f.attempt = g.attempt /\ f.failed = (g.failed \/ own)
        /\ f.at = g.at
    BY <1>0, <2>3
  <2> HIDE DEF f
  <2>5. CASE ctxDone
    <3> DEFINE h == [f EXCEPT !.at = "handle", !.result = "unreachable"]
    <3>1. /\ h \in Goroutines /\ h.target = g.target /\ h.cycle = g.cycle
          /\ h.at = "handle" /\ h.attempt = g.attempt
      BY <2>4
    <3>2. Replace(g, h)
      BY <2>1, <2>5 DEF f
    <3>3. Attempts(h)
      BY <1>0, <2>2, <2>5, <3>1 DEF Attempts
    <3> QED
      BY <1>5, <2>2, <3>1, <3>2, <3>3 DEF Fails, Moves
  <2>6. CASE ~ctxDone
    <3> DEFINE h == [f EXCEPT !.at = "pause"]
    <3>1. /\ h \in Goroutines /\ h.target = g.target /\ h.cycle = g.cycle
          /\ h.at = "pause" /\ h.attempt = g.attempt /\ h.failed = f.failed
      BY <2>2, <2>4
    <3>2. Replace(g, h)
      BY <2>1, <2>6 DEF f
    <3>3. f.failed
      BY <2>1, <2>4, <2>6
    <3>4. Attempts(h)
      BY <1>0, <2>2, <3>1, <3>3 DEF Attempts
    <3> QED
      BY <1>5, <2>2, <3>1, <3>2, <3>4 DEF Fails, Moves
  <2> QED
    BY <2>5, <2>6
<1>6. CASE PauseOver(g)
  <2>1. g.at = "pause" /\ g.failed /\ g.attempt \in 1 .. ConnectRetries[g.target] + 1
    BY <1>0, <1>6 DEF PauseOver, Attempts
  <2>2. CASE g.attempt <= ConnectRetries[g.target]
    <3> DEFINE h == [g EXCEPT !.at = "attempt", !.attempt = @ + 1]
    <3>1. /\ h \in Goroutines /\ h.target = g.target /\ h.cycle = g.cycle
          /\ h.at = "attempt" /\ h.attempt = g.attempt + 1
      <4>1. g.attempt + 1 \in Nat
        BY <1>0
      <4> QED
        BY <1>0, <2>1, <4>1
    <3>2. Attempts(h)
      BY <1>0, <2>1, <2>2, <3>1 DEF Attempts
    <3>3. Replace(g, h)
      BY <1>6, <2>2 DEF PauseOver
    <3> QED
      BY <1>6, <2>1, <3>1, <3>2, <3>3 DEF PauseOver, Moves
  <2>3. CASE ~(g.attempt <= ConnectRetries[g.target])
    <3> DEFINE h == [g EXCEPT !.at = "handle", !.result = "unreachable"]
    <3>1. /\ h \in Goroutines /\ h.target = g.target /\ h.cycle = g.cycle
          /\ h.at = "handle" /\ h.attempt = g.attempt /\ h.failed = g.failed
      BY <1>0
    <3>2. g.attempt = ConnectRetries[g.target] + 1
      BY <1>0, <2>1, <2>3
    <3>3. Attempts(h)
      BY <1>0, <2>1, <3>1, <3>2 DEF Attempts
    <3>4. Replace(g, h)
      BY <1>6, <2>3 DEF PauseOver
    <3> QED
      BY <1>6, <2>1, <3>1, <3>3, <3>4 DEF PauseOver, Moves
  <2> QED
    BY <2>2, <2>3
<1> QED
  BY <1>1, <1>2, <1>3, <1>4, <1>5, <1>6 DEF Goroutine, Check

-----------------------------------------------------------------------------
LEMMA InitInv == SchedulerAssumption /\ Init => SchedulerInv
<1> SUFFICES ASSUME SchedulerAssumption, Init
             PROVE  SchedulerInv
  OBVIOUS
<1> USE DEF Init
<1>1. TypeOK /\ OneGoroutinePerTarget /\ OfThisCycle /\ AttemptsCounted
  BY DEF TypeOK, OneGoroutinePerTarget, OfThisCycle, AttemptsCounted, RunStates
<1>2. Holding(cycle) = {}
  BY DEF Holding
<1>3. SlotsCounted
  BY <1>2, FS_EmptySet DEF SlotsCounted, SchedulerAssumption
<1> QED
  BY <1>1, <1>3 DEF SchedulerInv

(***************************************************************************)
(* The holders of the slots are finitely many.                             *)
(***************************************************************************)
LEMMA HoldingFinite ==
    ASSUME SlotsCounted
    PROVE  IsFiniteSet(Holding(cycle)) /\ Cardinality(Holding(cycle)) \in Nat
<1>1. IsFiniteSet(Holding(cycle))
  BY FS_Subset DEF SlotsCounted, Holding
<1> QED
  BY <1>1, FS_CardinalityType

(***************************************************************************)
(* Removing goroutines of which none is added keeps the invariant, as long *)
(* as the rest of the state does not move.                                 *)
(***************************************************************************)
LEMMA DoneKeepsInv ==
    ASSUME SchedulerAssumption, SchedulerInv, NEW g \in goroutines, Done(g),
           UNCHANGED << ctxDone, run, cycle, unlaunched >>
    PROVE  SchedulerInv'
<1> USE DEF SchedulerInv, Done
<1>1. TypeOK'
  BY DEF TypeOK
<1>2. OneGoroutinePerTarget'
  BY DEF OneGoroutinePerTarget
<1>3. OfThisCycle'
  BY DEF OfThisCycle
<1>4. AttemptsCounted'
  BY DEF AttemptsCounted, Attempts
<1>5. SlotsCounted'
  <2>1. IsFiniteSet(goroutines')
    BY FS_RemoveElement DEF SlotsCounted
  <2>2. Holding(cycle)' \in SUBSET Holding(cycle)
    BY DEF Holding
  <2>3. Cardinality(Holding(cycle)') <= Cardinality(Holding(cycle))
    BY <2>2, HoldingFinite, FS_Subset
  <2>4. Cardinality(Holding(cycle)') \in Nat
    BY <2>2, HoldingFinite, FS_Subset, FS_CardinalityType
  <2> QED
    BY <2>1, <2>3, <2>4, HoldingFinite DEF SlotsCounted, SchedulerAssumption
<1> QED
  BY <1>1, <1>2, <1>3, <1>4, <1>5

(***************************************************************************)
(* Replacing g by h keeps the number within a bound, when h is not         *)
(* counted, g was, or there was room.                                      *)
(***************************************************************************)
Swapped(H, H2, g, h, C) ==
    /\ IsFiniteSet(H) /\ Cardinality(H) <= C
    /\ H2 \subseteq (H \ {g}) \cup {h}
    /\ H2 \subseteq H \/ g \in H \/ Cardinality(H) < C

LEMMA SwapBounded ==
    ASSUME NEW H, NEW H2, NEW g, NEW h, NEW C \in Nat, Swapped(H, H2, g, h, C)
    PROVE  Cardinality(H2) <= C
<1> USE DEF Swapped
<1> DEFINE R == (H \ {g}) \cup {h}
<1>1. Cardinality(H) \in Nat
  BY FS_CardinalityType
<1>2. /\ IsFiniteSet(H \ {g})
      /\ Cardinality(H \ {g}) = IF g \in H THEN Cardinality(H) - 1 ELSE Cardinality(H)
  BY FS_RemoveElement
<1>3. Cardinality(H \ {g}) \in Nat
  BY <1>2, FS_CardinalityType
<1>4. /\ IsFiniteSet(R)
      /\ Cardinality(R) <= Cardinality(H \ {g}) + 1
      /\ Cardinality(R) \in Nat
  <2>1. /\ IsFiniteSet(R)
        /\ Cardinality(R) = IF h \in H \ {g} THEN Cardinality(H \ {g})
                            ELSE Cardinality(H \ {g}) + 1
    BY ONLY <1>2, FS_AddElement
  <2> QED
    BY <1>3, <2>1, FS_CardinalityType
<1> HIDE DEF R
<1>5. CASE H2 \subseteq H
  <2>1. Cardinality(H2) <= Cardinality(H) /\ Cardinality(H2) \in Nat
    BY <1>5, FS_Subset, FS_CardinalityType
  <2> QED
    BY <1>1, <2>1
<1>6. CASE g \in H \/ Cardinality(H) < C
  <2>1. Cardinality(H2) <= Cardinality(R) /\ Cardinality(H2) \in Nat
    <3>1. H2 \in SUBSET R
      BY DEF R
    <3> QED
      BY <3>1, <1>4, FS_Subset, FS_CardinalityType
  <2>2. Cardinality(R) <= C
    BY <1>1, <1>2, <1>4, <1>6
  <2> QED
    BY <1>4, <2>1, <2>2
<1> QED
  BY <1>5, <1>6

(***************************************************************************)
(* A step that takes no slot, or for which one is free, or made by a       *)
(* goroutine that has one, keeps the invariant.                            *)
(***************************************************************************)
LEMMA MoveKeepsInv ==
    ASSUME SchedulerAssumption, SchedulerInv, NEW g \in goroutines, NEW h,
           Moves(g, h), UNCHANGED << ctxDone, run, cycle, unlaunched >>
    PROVE  SchedulerInv'
<1> USE DEF SchedulerInv, Moves, Replace
<1>1. TypeOK'
  BY DEF TypeOK
<1>2. OneGoroutinePerTarget'
  BY DEF OneGoroutinePerTarget
<1>3. OfThisCycle'
  BY DEF OfThisCycle
<1>4. AttemptsCounted'
  BY DEF AttemptsCounted, Attempts
<1>5. SlotsCounted'
  <2> DEFINE H == Holding(cycle)
             H2 == Holding(cycle)'
  <2>1. IsFiniteSet(goroutines')
    BY FS_AddElement, FS_RemoveElement DEF SlotsCounted
  <2>2. IsFiniteSet(H) /\ Cardinality(H) \in Nat /\ Cardinality(H) <= Concurrency
    BY HoldingFinite DEF SlotsCounted
  <2>3. H2 \subseteq (H \ {g}) \cup {h}
    BY DEF Holding
  <2>4. g.cycle = cycle /\ Concurrency \in Nat
    BY DEF OfThisCycle, SchedulerAssumption
  <2>5. H2 \subseteq H \/ g \in H \/ Cardinality(H) < Concurrency
    <3>1. CASE h.at \in {"jitter", "slot"}
      BY <3>1, <2>3 DEF Holding
    <3>2. CASE g.at \in {"attempt", "pause", "handle"}
      BY <3>2, <2>4 DEF Holding
    <3>3. CASE Cardinality(Holding(g.cycle)) < Concurrency
      BY <3>3, <2>4
    <3> QED
      BY <3>1, <3>2, <3>3
  <2>6. Swapped(H, H2, g, h, Concurrency)
    BY ONLY <2>2, <2>3, <2>5 DEF Swapped
  <2>7. Cardinality(H2) <= Concurrency
    BY ONLY <2>4, <2>6, SwapBounded
  <2> QED
    BY <2>1, <2>7 DEF SlotsCounted
<1> QED
  BY <1>1, <1>2, <1>3, <1>4, <1>5

-----------------------------------------------------------------------------
LEMMA LaunchStep ==
    ASSUME SchedulerAssumption, SchedulerInv, NEW t \in Targets, Launch(t)
    PROVE  SchedulerInv'
<1> USE DEF SchedulerInv, Launch
<1> DEFINE n == Launched(t)
<1>1. /\ n \in Goroutines /\ n.target = t /\ n.cycle = cycle
      /\ n.at = "jitter"
  BY DEF Launched, Goroutines, Places, Results, TypeOK
<1> HIDE DEF n
<1>2. goroutines' = goroutines \cup {n}
  BY DEF n
<1>3. TypeOK'
  BY <1>1, <1>2 DEF TypeOK
<1>4. \A g \in goroutines : g.target # t
  BY DEF OfThisCycle
<1>5. OneGoroutinePerTarget'
  BY <1>1, <1>2, <1>4 DEF OneGoroutinePerTarget
<1>6. OfThisCycle'
  BY <1>1, <1>2 DEF OfThisCycle
<1>7. AttemptsCounted'
  BY <1>1, <1>2 DEF AttemptsCounted, Attempts
<1>8. SlotsCounted'
  <2>1. IsFiniteSet(goroutines')
    BY <1>2, FS_AddElement DEF SlotsCounted
  <2>2. Holding(cycle)' = Holding(cycle)
    BY <1>1, <1>2 DEF Holding
  <2> QED
    BY <2>1, <2>2 DEF SlotsCounted
<1> QED
  BY <1>3, <1>5, <1>6, <1>7, <1>8

(***************************************************************************)
(* The steps that move no goroutine.  A new cycle starts with none left,   *)
(* so all its slots are free.                                              *)
(***************************************************************************)
LEMMA RunSteps ==
    ASSUME SchedulerAssumption, SchedulerInv,
           Cancel \/ BreakLaunch \/ EndCycle \/ NextCycle \/ Return \/ UNCHANGED vars
    PROVE  SchedulerInv'
<1> USE DEF SchedulerInv, Cancel, BreakLaunch, EndCycle, NextCycle, Return, vars
<1>1. TypeOK'
  <2>1. CASE NextCycle
    <3>1. 1 - cycle \in {0, 1}
      BY DEF TypeOK
    <3> QED
      BY <2>1, <3>1 DEF TypeOK, RunStates
  <2>2. CASE Cancel \/ BreakLaunch \/ EndCycle \/ Return \/ UNCHANGED vars
    BY <2>2 DEF TypeOK, RunStates
  <2> QED
    BY <2>1, <2>2
<1>2. goroutines' = goroutines /\ OneGoroutinePerTarget'
  BY DEF OneGoroutinePerTarget
<1>3. OfThisCycle'
  BY DEF OfThisCycle
<1>4. AttemptsCounted'
  BY DEF AttemptsCounted, Attempts, TypeOK
<1>5. SlotsCounted'
  <2>1. CASE cycle' = cycle
    BY <2>1, <1>2 DEF SlotsCounted, Holding
  <2>2. CASE NextCycle
    <3>1. Holding(cycle)' = {}
      BY <2>2 DEF OfThisCycle, Holding
    <3> QED
      BY <3>1, <1>2, FS_EmptySet DEF SlotsCounted, SchedulerAssumption
  <2> QED
    BY <2>1, <2>2
<1> QED
  BY <1>1, <1>2, <1>3, <1>4, <1>5

LEMMA NextInv ==
    ASSUME SchedulerAssumption, SchedulerInv, [Next]_vars
    PROVE  SchedulerInv'
<1>1. ASSUME NEW t \in Targets, Launch(t)
      PROVE  SchedulerInv'
  BY <1>1, LaunchStep
<1>2. ASSUME NEW g \in goroutines, Goroutine(g)
      PROVE  SchedulerInv'
  <2>1. /\ UNCHANGED << ctxDone, run, cycle, unlaunched >>
        /\ Done(g) \/ \E h : Moves(g, h)
    BY <1>2, GoroutineSteps DEF SchedulerInv
  <2> QED
    BY <2>1, DoneKeepsInv, MoveKeepsInv
<1> QED
  BY <1>1, <1>2, RunSteps DEF Next

(***************************************************************************)
(* The scheduler keeps its invariant.                                      *)
(***************************************************************************)
THEOREM Invariant == Spec => []SchedulerInv
<1>1. Init => SchedulerInv
  BY InitInv, SchedulerAssumption
<1>2. SchedulerInv /\ [Next]_vars => SchedulerInv'
  BY NextInv, SchedulerAssumption
<1> QED
  BY <1>1, <1>2, PTL DEF Spec

(***************************************************************************)
(* Every variable keeps its type.                                          *)
(***************************************************************************)
THEOREM TypeCorrect == Spec => []TypeOK
<1>1. SchedulerInv => TypeOK
  BY DEF SchedulerInv
<1> QED
  BY <1>1, Invariant, PTL

(***************************************************************************)
(* Results of one target are handled one after the other, in the order of  *)
(* the checks: Process is called sequentially per target.                  *)
(***************************************************************************)
THEOREM SequentialPerTarget == Spec => []OneGoroutinePerTarget
<1>1. SchedulerInv => OneGoroutinePerTarget
  BY DEF SchedulerInv
<1> QED
  BY <1>1, Invariant, PTL

(***************************************************************************)
(* However many targets there are, at most probe.concurrency are being     *)
(* checked or handled, over all the semaphores that were ever made.        *)
(***************************************************************************)
THEOREM Bounded == Spec => []ConcurrencyBounded
<1>1. SchedulerInv => ConcurrencyBounded
  <2> SUFFICES ASSUME SchedulerInv
               PROVE  ConcurrencyBounded
    OBVIOUS
  <2>1. Holding(0) \cup Holding(1) = Holding(cycle)
    BY DEF SchedulerInv, OfThisCycle, TypeOK, Holding
  <2> QED
    BY <2>1 DEF SchedulerInv, SlotsCounted, ConcurrencyBounded
<1> QED
  BY <1>1, Invariant, PTL

(***************************************************************************)
(* Run returns with nothing of it left running, so closing the store after *)
(* it is safe.                                                             *)
(***************************************************************************)
THEOREM Quiescent == Spec => []NothingAfterReturn
<1>1. SchedulerInv => NothingAfterReturn
  BY DEF SchedulerInv, OfThisCycle, NothingAfterReturn
<1> QED
  BY <1>1, Invariant, PTL

(***************************************************************************)
(* Unless the program is being stopped, a target is reported unreachable   *)
(* only after connect_retries + 1 attempts that all failed.                *)
(***************************************************************************)
THEOREM Retried == Spec => []RetriedBeforeUnreachable
<1>1. SchedulerInv => RetriedBeforeUnreachable
  BY DEF SchedulerInv, AttemptsCounted, Attempts, RetriedBeforeUnreachable
<1> QED
  BY <1>1, Invariant, PTL
=============================================================================
