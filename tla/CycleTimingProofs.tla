-------------------------- MODULE CycleTimingProofs --------------------------
(***************************************************************************)
(* A bound on the length of a cycle, for any number of targets, slots and  *)
(* retries, and with it the slack that livenessThreshold needs.            *)
(*                                                                         *)
(* A cycle has Waves waves.  Think of every slot as having a cell for each *)
(* of them, open as long as the slot will be free when the wave is due.  A *)
(* check that takes a slot shuts one cell, time shuts none while a         *)
(* goroutine could not use it: there are always cells enough for whoever   *)
(* has not started.                                                        *)
(***************************************************************************)
EXTENDS CycleTiming, Integers, FiniteSetTheorems, WellFoundedInduction, TLAPS

\* The longest check, and what may follow the n-th attempt and its pause.
Longest == (ConnectRetries + 1) * (Timeout + 1)
After(n) == (ConnectRetries + 1 - n) * (Timeout + 1)

\* The seconds a check may yet hold its slot.
Remaining(c) == IF c.at = "free" THEN 0
                ELSE c.left + After(c.attempt) + (IF c.at = "attempt" THEN 1 ELSE 0)

Waves  == (TargetCount + Concurrency - 1) \div Concurrency
Due(w) == Jitter + (w - 1) * Longest
Bound  == Due(Waves) + Longest

Open(e, slots) == {c \in Slots \X (1..Waves) : e + Remaining(slots[c[1]]) <= Due(c[2])}

Checks == {Free}
          \cup [at : {"attempt"}, attempt : 1..ConnectRetries + 1, left : 0..Timeout]
          \cup [at : {"pause"}, attempt : 1..ConnectRetries + 1, left : 0..1]

TypeOK ==
    /\ run \in {"cycle", "select"}
    /\ {elapsed, jittering, waiting, age} \subseteq Nat
    /\ ticker \in 0..CheckInterval
    /\ tick \in BOOLEAN
    /\ slot \in [Slots -> Checks]

\* Whoever has not started finds a cell, and no check ends after the bound.
EnoughCells == waiting + jittering <= Cardinality(Open(elapsed, slot))
InBound ==
    /\ elapsed <= Bound
    /\ \A s \in Slots : elapsed + Remaining(slot[s]) <= Bound

\* Between cycles nothing is left of the last, and the next tick is near.
Between == run = "select" =>
    /\ elapsed = 0 /\ jittering = 0 /\ waiting = 0
    /\ \A s \in Slots : slot[s] = Free
    /\ ticker > 0
    /\ tick \/ age + ticker <= CheckInterval

Aged == age <= CheckInterval + elapsed

TimingInv == TypeOK /\ EnoughCells /\ InBound /\ Between /\ Aged

-----------------------------------------------------------------------------
(***************************************************************************)
(* Arithmetic.                                                             *)
(***************************************************************************)
LEMMA Constants ==
    /\ TargetCount \in Nat /\ TargetCount > 0
    /\ Concurrency \in Nat /\ Concurrency > 0
    /\ CheckInterval \in Nat /\ CheckInterval > 0
    /\ Timeout \in Nat /\ Timeout > 0
    /\ Jitter \in Nat /\ ConnectRetries \in Nat /\ Slack \in Nat
BY CycleTimingAssumption

LEMMA ProductNat ==
    ASSUME NEW a \in Nat, NEW b \in Nat
    PROVE  a * b \in Nat
OBVIOUS

LEMMA ProductGrows ==
    ASSUME NEW a \in Nat, NEW b \in Nat, NEW c \in Nat, a <= b
    PROVE  a * c <= b * c
<1>1. (b - a) * c \in Nat
  BY ProductNat
<1>2. (b - a) * c = b * c - a * c
  OBVIOUS
<1>3. a * c \in Nat /\ b * c \in Nat
  BY ProductNat
<1> QED BY <1>1, <1>2, <1>3

LEMMA AfterSteps ==
    /\ \A n \in 1..ConnectRetries + 1 : After(n) \in Nat
    /\ \A n \in 1..ConnectRetries : After(n) = Timeout + 1 + After(n + 1)
    /\ Longest = Timeout + 1 + After(1)
    /\ Longest \in Nat
<1> USE Constants
<1>1. ASSUME NEW n \in 1..ConnectRetries + 1 PROVE After(n) \in Nat
  <2>1. ConnectRetries + 1 - n \in Nat /\ Timeout + 1 \in Nat
    OBVIOUS
  <2> QED BY <2>1, ProductNat DEF After
<1>2. ASSUME NEW n \in 1..ConnectRetries PROVE After(n) = Timeout + 1 + After(n + 1)
  <2>1. \A k, t \in Int : (k + 1) * t = t + k * t
    OBVIOUS
  <2>2. /\ ConnectRetries + 1 - (n + 1) \in Int /\ Timeout + 1 \in Int
        /\ ConnectRetries + 1 - (n + 1) + 1 = ConnectRetries + 1 - n
    OBVIOUS
  <2> QED BY <2>1, <2>2 DEF After
<1>3. Longest = Timeout + 1 + After(1)
  <2>1. \A k, t \in Int : (k + 1) * t = t + k * t
    OBVIOUS
  <2>2. ConnectRetries + 1 - 1 = ConnectRetries /\ Timeout + 1 \in Int /\ ConnectRetries \in Int
    OBVIOUS
  <2> QED BY <2>1, <2>2 DEF After, Longest
<1>4. Longest \in Nat
  BY <1>3, <1>1
<1> QED BY <1>1, <1>2, <1>3, <1>4

LEMMA DueSteps ==
    /\ \A w \in Nat \ {0} : Due(w) \in Nat /\ Jitter <= Due(w)
    /\ \A v, w \in Nat \ {0} : v <= w => Due(v) <= Due(w)
    /\ \A v, w \in Nat \ {0} : v < w => Due(v) + Longest <= Due(w)
<1> USE Constants, AfterSteps
<1>1. ASSUME NEW w \in Nat \ {0} PROVE Due(w) \in Nat /\ Jitter <= Due(w)
  <2>1. w - 1 \in Nat
    OBVIOUS
  <2>2. (w - 1) * Longest \in Nat
    BY <2>1, ProductNat
  <2> QED BY <2>2 DEF Due
<1>2. ASSUME NEW v \in Nat \ {0}, NEW w \in Nat \ {0}, v <= w PROVE Due(v) <= Due(w)
  <2>1. v - 1 \in Nat /\ w - 1 \in Nat /\ v - 1 <= w - 1
    BY <1>2
  <2>2. (v - 1) * Longest <= (w - 1) * Longest
    BY <2>1, ProductGrows
  <2>3. (v - 1) * Longest \in Nat /\ (w - 1) * Longest \in Nat
    BY <2>1, ProductNat
  <2> QED BY <2>2, <2>3 DEF Due
<1>3. ASSUME NEW v \in Nat \ {0}, NEW w \in Nat \ {0}, v < w
      PROVE  Due(v) + Longest <= Due(w)
  <2>1. v + 1 \in Nat \ {0} /\ v + 1 <= w
    BY <1>3
  <2>2. Due(v + 1) <= Due(w)
    BY <2>1, <1>2
  <2>3. Due(v + 1) = Due(v) + Longest
    <3>1. \A k, t \in Int : (k + 1) * t = k * t + t
      OBVIOUS
    <3>2. v - 1 \in Int /\ v - 1 + 1 = v /\ v + 1 - 1 = v
      OBVIOUS
    <3>3. v * Longest = (v - 1) * Longest + Longest
      BY <3>1, <3>2
    <3>4. (v - 1) * Longest \in Int /\ v * Longest \in Int
      OBVIOUS
    <3> QED BY <3>2, <3>3, <3>4 DEF Due
  <2> QED BY <2>2, <2>3
<1> QED BY <1>1, <1>2, <1>3

\* Rounding up leaves no target without a cell.
LEMMA WavesSuffice ==
    /\ Waves \in Nat \ {0}
    /\ TargetCount <= Concurrency * Waves
<1> USE Constants
<1> DEFINE a == TargetCount + Concurrency - 1
<1>1. a \in Nat /\ a >= Concurrency
  OBVIOUS
<1>2. \A x \in Nat, c \in Nat : c > 0 => x \div c \in Int /\ x < c * (x \div c) + c
  OBVIOUS
<1>3. Waves = a \div Concurrency
  BY DEF Waves
<1> HIDE DEF a
<1>4. Waves \in Int /\ Concurrency * Waves \in Int
  <2>1. Waves \in Int
    BY <1>1, <1>2, <1>3
  <2> QED BY <2>1
<1>5. a < Concurrency * Waves + Concurrency
  BY <1>1, <1>2, <1>3
<1>6. TargetCount <= Concurrency * Waves
  BY <1>5, <1>4 DEF a
<1>7. Waves > 0
  <2>1. \A c \in Nat, w \in Int : w <= 0 => c * w <= 0
    OBVIOUS
  <2> QED BY <2>1, <1>6, <1>4
<1> QED BY <1>4, <1>6, <1>7

LEMMA LeastNatural ==
    ASSUME NEW S, S \subseteq Nat, S # {}
    PROVE  \E m \in S : \A n \in S : m <= n
<1>1. IsWellFoundedOn(OpToRel(<, Nat), Nat)
  BY NatLessThanWellFounded
<1>2. PICK m \in S : \A n \in S : ~ (<< n, m >> \in OpToRel(<, Nat))
  BY <1>1, WFMin
<1>3. \A n \in S : << n, m >> \in OpToRel(<, Nat) <=> n < m
  BY DEF OpToRel
<1>4. \A n \in S : ~(n < m)
  BY <1>2, <1>3, Zenon
<1>5. \A n \in S : m <= n
  BY <1>4
<1> QED BY <1>5

-----------------------------------------------------------------------------
(***************************************************************************)
(* Checks and cells.                                                       *)
(***************************************************************************)
LEMMA CheckFacts ==
    /\ Free \in Checks /\ Free.at = "free" /\ Remaining(Free) = 0
    /\ \A c \in Checks : Remaining(c) \in Nat /\ (c.at = "free" => c = Free)
    /\ Attempt(1) \in Checks /\ Remaining(Attempt(1)) = Longest
<1> USE Constants, AfterSteps
<1>1. Free \in Checks /\ Free.at = "free" /\ Remaining(Free) = 0
  BY DEF Checks, Free, Remaining
<1>2. ASSUME NEW c \in Checks PROVE Remaining(c) \in Nat /\ (c.at = "free" => c = Free)
  <2>1. CASE c = Free
    BY <2>1, <1>1
  <2>2. CASE c # Free
    <3>1. /\ c.at \in {"attempt", "pause"} /\ c.attempt \in 1..ConnectRetries + 1
          /\ c.left \in Nat
      BY <2>2 DEF Checks
    <3> QED BY <3>1 DEF Remaining
  <2> QED BY <2>1, <2>2
<1>3. Attempt(1) \in Checks
  BY DEF Checks, Attempt
<1>4. Remaining(Attempt(1)) = Longest
  BY DEF Attempt, Remaining
<1> QED BY <1>1, <1>2, <1>3, <1>4

LEMMA OpenFinite ==
    ASSUME NEW e, NEW slots
    PROVE  IsFiniteSet(Open(e, slots)) /\ Cardinality(Open(e, slots)) \in Nat
<1>1. IsFiniteSet(Slots) /\ IsFiniteSet(1..Waves)
  BY FS_Interval, Constants, WavesSuffice DEF Slots
<1>2. IsFiniteSet(Slots \X (1..Waves))
  BY <1>1, FS_Product
<1>3. Open(e, slots) \in SUBSET (Slots \X (1..Waves))
  BY DEF Open
<1>4. IsFiniteSet(Open(e, slots))
  BY <1>2, <1>3, FS_Subset
<1> QED BY <1>4, FS_CardinalityType

\* Before anybody has started every cell is open.
LEMMA AllOpen ==
    ASSUME NEW slots, \A s \in Slots : slots[s] = Free
    PROVE  TargetCount <= Cardinality(Open(0, slots))
<1>1. /\ IsFiniteSet(Slots) /\ Cardinality(Slots) = Concurrency
      /\ IsFiniteSet(1..Waves) /\ Cardinality(1..Waves) = Waves
  BY FS_Interval, Constants, WavesSuffice DEF Slots
<1>2. Cardinality(Slots \X (1..Waves)) = Concurrency * Waves
  BY <1>1, FS_Product
<1>3. Open(0, slots) = Slots \X (1..Waves)
  <2>1. \A c \in Slots \X (1..Waves) : 0 + Remaining(slots[c[1]]) <= Due(c[2])
    BY CheckFacts, DueSteps, WavesSuffice
  <2> QED BY <2>1 DEF Open
<1> QED BY <1>2, <1>3, WavesSuffice

\* What delays no slot shuts no cell.
LEMMA NoneShut ==
    ASSUME NEW d \in Nat, NEW e \in Nat,
           NEW before \in [Slots -> Checks], NEW after \in [Slots -> Checks],
           \A s \in Slots : \/ e + Remaining(after[s]) <= d + Remaining(before[s])
                           \/ e + Remaining(after[s]) <= Jitter
    PROVE  Cardinality(Open(d, before)) <= Cardinality(Open(e, after))
<1>1. \A c \in Slots \X (1..Waves) :
        d + Remaining(before[c[1]]) <= Due(c[2]) => e + Remaining(after[c[1]]) <= Due(c[2])
  <2> SUFFICES ASSUME NEW s \in Slots, NEW w \in 1..Waves, d + Remaining(before[s]) <= Due(w)
               PROVE  e + Remaining(after[s]) <= Due(w)
    OBVIOUS
  <2>1. w \in Nat \ {0}
    BY WavesSuffice
  <2>2. Due(w) \in Nat /\ Jitter <= Due(w) /\ Jitter \in Nat
    BY <2>1, DueSteps, Constants
  <2>3. Remaining(before[s]) \in Nat /\ Remaining(after[s]) \in Nat
    BY CheckFacts
  <2> QED BY <2>2, <2>3
<1>2. Open(d, before) \in SUBSET Open(e, after)
  BY <1>1 DEF Open
<1> QED BY <1>2, OpenFinite, FS_Subset

\* A check that starts shuts one cell at most: the first one open in its slot.
LEMMA OneShut ==
    ASSUME NEW e \in Nat, NEW slots \in [Slots -> Checks], NEW s \in Slots, slots[s] = Free
    PROVE  Cardinality(Open(e, slots))
             <= Cardinality(Open(e, [slots EXCEPT ![s] = Attempt(1)])) + 1
<1> DEFINE later == [slots EXCEPT ![s] = Attempt(1)]
           W     == {w \in 1..Waves : e <= Due(w)}
<1> USE CheckFacts
<1>1. /\ later \in [Slots -> Checks]
      /\ Remaining(slots[s]) = 0 /\ Remaining(later[s]) = Longest
      /\ \A t \in Slots \ {s} : later[t] = slots[t]
  OBVIOUS
<1>2. /\ \A w \in 1..Waves : << s, w >> \in Open(e, slots) <=> w \in W
      /\ \A w \in 1..Waves : << s, w >> \in Open(e, later) <=> e + Longest <= Due(w)
  BY <1>1 DEF Open
<1>3. ASSUME NEW t \in Slots \ {s}, NEW w \in 1..Waves
      PROVE  << t, w >> \in Open(e, slots) <=> << t, w >> \in Open(e, later)
  BY <1>1 DEF Open
<1>4. Open(e, slots) \subseteq Slots \X (1..Waves)
  BY DEF Open
<1> HIDE DEF later
<1>5. \E c : Open(e, slots) \ {c} \subseteq Open(e, later)
  <2>1. CASE W = {}
    <3>1. \A c \in Open(e, slots) : c \in Open(e, later)
      BY <2>1, <1>2, <1>3, <1>4
    <3> QED BY <3>1
  <2>2. CASE W # {}
    <3>1. PICK v \in W : \A w \in W : v <= w
      <4>1. W \subseteq Nat
        BY WavesSuffice
      <4> HIDE DEF W
      <4> QED BY <2>2, <4>1, LeastNatural
    <3>2. ASSUME NEW w \in W, w # v PROVE << s, w >> \in Open(e, later)
      <4>1. v \in Nat \ {0} /\ w \in Nat \ {0} /\ v < w /\ e <= Due(v)
        BY <3>1, <3>2, WavesSuffice
      <4>2. Due(v) + Longest <= Due(w) /\ Due(v) \in Nat /\ Due(w) \in Nat /\ Longest \in Nat
        BY <4>1, DueSteps, AfterSteps
      <4>3. e + Longest <= Due(w)
        BY <4>1, <4>2
      <4> QED BY <4>3, <1>2
    <3>3. \A c \in Open(e, slots) \ {<< s, v >>} : c \in Open(e, later)
      <4> HIDE DEF W
      <4> QED BY <3>2, <1>2, <1>3, <1>4
    <3> QED BY <3>3
  <2> QED BY <2>1, <2>2
<1>6. PICK c : Open(e, slots) \ {c} \subseteq Open(e, later)
  BY <1>5
<1>7. /\ IsFiniteSet(Open(e, slots) \ {c})
      /\ Cardinality(Open(e, slots)) <= Cardinality(Open(e, slots) \ {c}) + 1
  <2>1. IsFiniteSet(Open(e, slots)) /\ Cardinality(Open(e, slots)) \in Nat
    BY OpenFinite
  <2>2. /\ IsFiniteSet(Open(e, slots) \ {c})
        /\ Cardinality(Open(e, slots) \ {c}) = IF c \in Open(e, slots)
             THEN Cardinality(Open(e, slots)) - 1 ELSE Cardinality(Open(e, slots))
    BY <2>1, FS_RemoveElement
  <2> QED BY <2>1, <2>2
<1>8. Cardinality(Open(e, slots) \ {c}) <= Cardinality(Open(e, later))
  BY <1>6, OpenFinite, FS_Subset
<1>9. Cardinality(Open(e, slots) \ {c}) \in Nat
  BY <1>7, FS_CardinalityType
<1> QED BY <1>7, <1>8, <1>9, OpenFinite DEF later

LEMMA BoundFacts ==
    /\ Bound \in Nat /\ Jitter <= Bound
    /\ \A w \in 1..Waves : Due(w) \in Nat /\ Due(w) + Longest <= Bound
<1>1. Due(Waves) \in Nat /\ Jitter <= Due(Waves) /\ Longest \in Nat /\ Jitter \in Nat
  BY WavesSuffice, DueSteps, AfterSteps, Constants
<1>2. ASSUME NEW w \in 1..Waves PROVE Due(w) \in Nat /\ Due(w) + Longest <= Bound
  <2>1. w \in Nat \ {0} /\ w <= Waves
    BY WavesSuffice
  <2>2. Due(w) \in Nat /\ Due(w) <= Due(Waves)
    BY <2>1, WavesSuffice, DueSteps
  <2> QED BY <2>2, <1>1 DEF Bound
<1> QED BY <1>1, <1>2 DEF Bound

\* A goroutine with a cell left to it can still finish in time.
LEMMA CellInBound ==
    ASSUME NEW e \in Nat, NEW slots \in [Slots -> Checks], Cardinality(Open(e, slots)) > 0
    PROVE  e + Longest <= Bound
<1>1. Open(e, slots) # {}
  BY FS_EmptySet
<1>2. PICK s \in Slots, w \in 1..Waves : e + Remaining(slots[s]) <= Due(w)
  BY <1>1 DEF Open
<1>3. Remaining(slots[s]) \in Nat
  BY CheckFacts
<1> QED BY <1>2, <1>3, BoundFacts, AfterSteps

-----------------------------------------------------------------------------
LEMMA InitTiming == Init => TimingInv
<1> SUFFICES ASSUME Init PROVE TimingInv
  OBVIOUS
<1> USE Constants, CheckFacts
<1>1. TypeOK
  <2>1. slot \in [Slots -> Checks]
    BY DEF Init
  <2>2. ticker \in 0..CheckInterval
    BY DEF Init
  <2> QED BY <2>1, <2>2 DEF Init, TypeOK
<1>2. EnoughCells
  <2>1. \A s \in Slots : slot[s] = Free
    BY DEF Init
  <2>2. TargetCount <= Cardinality(Open(0, slot))
    BY <2>1, AllOpen
  <2>3. elapsed = 0 /\ waiting = 0 /\ jittering = TargetCount
    BY DEF Init
  <2> QED BY <2>2, <2>3 DEF EnoughCells
<1>3. InBound
  BY BoundFacts DEF Init, InBound
<1>4. Between /\ Aged
  BY DEF Init, Between, Aged
<1> QED BY <1>1, <1>2, <1>3, <1>4 DEF TimingInv

\* What a step does to one slot, without time passing.
LEMMA SlotStep ==
    ASSUME TimingInv, TypeOK', NEW s \in Slots, NEW c \in Checks,
           slot[s] # Free, slot' = [slot EXCEPT ![s] = c], Remaining(c) <= Remaining(slot[s]),
           UNCHANGED << run, elapsed, jittering, waiting, ticker, tick, age >>
    PROVE  TimingInv'
<1> USE CheckFacts
<1>1. slot \in [Slots -> Checks] /\ slot' \in [Slots -> Checks] /\ elapsed \in Nat
      /\ waiting \in Nat /\ jittering \in Nat
  BY DEF TimingInv, TypeOK
<1>2. \A t \in Slots : Remaining(slot'[t]) \in Nat /\ Remaining(slot[t]) \in Nat
                      /\ Remaining(slot'[t]) <= Remaining(slot[t])
  BY <1>1
<1>3. \A t \in Slots : elapsed + Remaining(slot'[t]) <= elapsed + Remaining(slot[t])
  BY <1>1, <1>2
<1>4. EnoughCells'
  <2>1. Cardinality(Open(elapsed, slot)) <= Cardinality(Open(elapsed, slot'))
    BY <1>1, <1>3, NoneShut
  <2>2. waiting + jittering <= Cardinality(Open(elapsed, slot))
    BY DEF TimingInv, EnoughCells
  <2>3. waiting + jittering <= Cardinality(Open(elapsed, slot'))
    BY <2>1, <2>2, <1>1, OpenFinite
  <2> QED BY <2>3 DEF EnoughCells
<1>5. InBound'
  BY <1>1, <1>2, BoundFacts DEF TimingInv, InBound
<1>6. run = "cycle"
  BY DEF TimingInv, TypeOK, Between
<1>7. Between' /\ Aged'
  BY <1>6 DEF TimingInv, Between, Aged
<1> QED BY <1>4, <1>5, <1>7 DEF TimingInv

LEMMA JitterOverTiming == TimingInv /\ JitterOver => TimingInv'
<1> SUFFICES ASSUME TimingInv, JitterOver PROVE TimingInv'
  OBVIOUS
<1> USE Constants DEF JitterOver
<1>1. jittering \in Nat /\ waiting \in Nat /\ run = "cycle"
  BY DEF TimingInv, TypeOK, Between
<1>2. jittering' \in Nat /\ waiting' \in Nat /\ waiting' + jittering' = waiting + jittering
  BY <1>1
<1>3. TypeOK'
  BY <1>2 DEF TimingInv, TypeOK
<1>4. EnoughCells'
  BY <1>2 DEF TimingInv, EnoughCells
<1>5. InBound' /\ Aged'
  BY DEF TimingInv, InBound, Aged
<1>6. Between'
  BY <1>1 DEF Between
<1> QED BY <1>3, <1>4, <1>5, <1>6 DEF TimingInv

LEMMA TakeSlotTiming == ASSUME NEW s \in Slots, TimingInv, TakeSlot(s) PROVE TimingInv'
<1> USE Constants, CheckFacts
<1>1. /\ slot \in [Slots -> Checks] /\ elapsed \in Nat
      /\ waiting \in Nat /\ waiting > 0 /\ jittering \in Nat
      /\ run = "cycle"
  BY DEF TimingInv, TypeOK, TakeSlot, Between
<1>2. slot[s] = Free /\ slot' = [slot EXCEPT ![s] = Attempt(1)] /\ elapsed' = elapsed
  BY <1>1 DEF TakeSlot
<1>3. TypeOK'
  <2>1. slot' \in [Slots -> Checks] /\ waiting' \in Nat
    BY <1>1, <1>2 DEF TakeSlot
  <2> QED BY <2>1 DEF TimingInv, TypeOK, TakeSlot
<1>4. waiting + jittering <= Cardinality(Open(elapsed, slot))
  BY DEF TimingInv, EnoughCells
<1>5. EnoughCells'
  <2>1. Cardinality(Open(elapsed, slot)) <= Cardinality(Open(elapsed, slot')) + 1
    BY <1>1, <1>2, OneShut
  <2>2. waiting' + jittering' = waiting + jittering - 1
    BY <1>1 DEF TakeSlot
  <2>3. waiting' + jittering' <= Cardinality(Open(elapsed, slot'))
    BY <2>1, <2>2, <1>1, <1>4, OpenFinite
  <2> QED BY <2>3, <1>2 DEF EnoughCells
<1>6. InBound'
  <2>1. elapsed + Longest <= Bound
    BY <1>1, <1>4, OpenFinite, CellInBound
  <2>2. ASSUME NEW t \in Slots PROVE elapsed + Remaining(slot'[t]) <= Bound
    <3>1. CASE t = s
      BY <3>1, <2>1, <1>1, <1>2
    <3>2. CASE t # s
      BY <3>2, <1>1, <1>2 DEF TimingInv, InBound
    <3> QED BY <3>1, <3>2
  <2> QED BY <2>2, <1>2 DEF TimingInv, InBound
<1>7. Between' /\ Aged'
  BY <1>1 DEF TakeSlot, TimingInv, Between, Aged
<1> QED BY <1>3, <1>5, <1>6, <1>7 DEF TimingInv

\* A busy slot, and what its check is.
LEMMA Busy ==
    ASSUME TypeOK, NEW s \in Slots, slot[s].at # "free"
    PROVE  /\ slot[s] # Free
           /\ slot[s].at \in {"attempt", "pause"}
           /\ slot[s].attempt \in 1..ConnectRetries + 1
           /\ slot[s].left \in Nat
           /\ slot[s].left <= IF slot[s].at = "attempt" THEN Timeout ELSE 1
           /\ slot[s] = [at |-> slot[s].at, attempt |-> slot[s].attempt, left |-> slot[s].left]
           /\ After(slot[s].attempt) \in Nat
<1>1. slot[s] \in Checks /\ slot[s] # Free
  BY DEF TypeOK, Free
<1> QED BY <1>1, AfterSteps, Constants DEF Checks

LEMMA AnsweredTiming == ASSUME NEW s \in Slots, TimingInv, Answered(s) PROVE TimingInv'
<1>1. TypeOK
  BY DEF TimingInv
<1>2. slot[s] # Free /\ Remaining(slot[s]) \in Nat
  BY <1>1, Busy, CheckFacts DEF Answered, TypeOK
<1>3. Free \in Checks /\ Remaining(Free) <= Remaining(slot[s])
  BY <1>2, CheckFacts
<1>4. TypeOK'
  BY <1>1, <1>3 DEF Answered, TypeOK
<1> QED BY <1>2, <1>3, <1>4, SlotStep DEF Answered

LEMMA FailsTiming == ASSUME NEW s \in Slots, TimingInv, Fails(s) PROVE TimingInv'
<1> DEFINE c == Pause(slot[s].attempt)
<1>1. TypeOK
  BY DEF TimingInv
<1>2. /\ slot[s] # Free /\ slot[s].at = "attempt" /\ slot[s].left \in Nat
      /\ slot[s].attempt \in 1..ConnectRetries + 1 /\ After(slot[s].attempt) \in Nat
  BY <1>1, Busy DEF Fails
<1>3. c \in Checks
  BY <1>2 DEF Checks, Pause
<1>4. Remaining(c) <= Remaining(slot[s])
  BY <1>2 DEF Remaining, Pause
<1>5. slot' = [slot EXCEPT ![s] = c]
  BY <1>1 DEF Fails, TypeOK
<1> HIDE DEF c
<1>6. TypeOK'
  BY <1>1, <1>3, <1>5 DEF Fails, TypeOK
<1> QED BY <1>2, <1>3, <1>4, <1>5, <1>6, SlotStep DEF Fails

LEMMA PauseOverTiming == ASSUME NEW s \in Slots, TimingInv, PauseOver(s) PROVE TimingInv'
<1> DEFINE c == IF slot[s].attempt <= ConnectRetries THEN Attempt(slot[s].attempt + 1) ELSE Free
<1>1. TypeOK
  BY DEF TimingInv
<1>2. /\ slot[s] # Free /\ slot[s].at = "pause" /\ slot[s].left = 0
      /\ slot[s].attempt \in 1..ConnectRetries + 1 /\ After(slot[s].attempt) \in Nat
  BY <1>1, Busy DEF PauseOver
<1>3. c \in Checks
  BY <1>2, Constants, CheckFacts DEF Checks, Attempt
<1>4. Remaining(c) <= Remaining(slot[s])
  <2>1. Remaining(slot[s]) = After(slot[s].attempt)
    BY <1>2 DEF Remaining
  <2>2. CASE slot[s].attempt <= ConnectRetries
    <3>1. slot[s].attempt \in 1..ConnectRetries
      BY <1>2, <2>2, Constants
    <3>2. slot[s].attempt + 1 \in 1..ConnectRetries + 1
      BY <3>1, Constants
    <3>3. After(slot[s].attempt + 1) \in Nat
      BY <3>2, AfterSteps
    <3>4. Remaining(c) = Timeout + 1 + After(slot[s].attempt + 1)
      BY <2>2, <3>3, Constants DEF Remaining, Attempt
    <3> QED BY <2>1, <3>1, <3>4, <1>2, AfterSteps
  <2>3. CASE ~(slot[s].attempt <= ConnectRetries)
    BY <2>1, <2>3, <1>2, CheckFacts
  <2> QED BY <2>2, <2>3
<1>5. slot' = [slot EXCEPT ![s] = c]
  BY <1>1 DEF PauseOver, TypeOK
<1> HIDE DEF c
<1>6. TypeOK'
  BY <1>1, <1>3, <1>5 DEF PauseOver, TypeOK
<1> QED BY <1>2, <1>3, <1>4, <1>5, <1>6, SlotStep DEF PauseOver

LEMMA EndCycleTiming == TimingInv /\ EndCycle => TimingInv'
<1> SUFFICES ASSUME TimingInv, EndCycle PROVE TimingInv'
  OBVIOUS
<1> USE Constants, CheckFacts
<1>1. /\ jittering = 0 /\ waiting = 0 /\ \A s \in Slots : slot[s] = Free
      /\ elapsed' = 0 /\ age' = 0 /\ run' = "select" /\ slot' = slot
      /\ jittering' = 0 /\ waiting' = 0
  BY DEF EndCycle, CycleOver, TimingInv, TypeOK
<1>2. ticker' \in 1..CheckInterval
  BY DEF EndCycle, TimingInv, TypeOK
<1>3. TypeOK'
  <2>1. ticker' \in 0..CheckInterval
    BY <1>2
  <2> QED BY <2>1, <1>1 DEF EndCycle, TimingInv, TypeOK
<1>4. EnoughCells'
  BY <1>1, OpenFinite DEF EnoughCells
<1>5. InBound'
  BY <1>1, BoundFacts DEF InBound
<1>6. Between' /\ Aged'
  <2>1. age' = 0 /\ elapsed' = 0
    BY <1>1
  <2>2. \A t \in 1..CheckInterval : 0 + t <= CheckInterval /\ t > 0
    BY Constants
  <2>3. age' + ticker' <= CheckInterval /\ ticker' > 0
    BY <2>1, <2>2, <1>2, Zenon
  <2>4. 0 <= CheckInterval + 0
    BY Constants
  <2>5. age' <= CheckInterval + elapsed'
    BY <2>1, <2>4, Zenon
  <2> QED BY <2>3, <2>5, <1>1 DEF Between, Aged
<1> QED BY <1>3, <1>4, <1>5, <1>6 DEF TimingInv

LEMMA NextCycleTiming == TimingInv /\ NextCycle => TimingInv'
<1> SUFFICES ASSUME TimingInv, NextCycle PROVE TimingInv'
  OBVIOUS
<1> USE Constants, CheckFacts
<1>1. /\ elapsed = 0 /\ elapsed' = 0 /\ waiting' = 0 /\ jittering' = TargetCount
      /\ run' = "cycle" /\ slot' = slot /\ \A s \in Slots : slot[s] = Free
  BY DEF NextCycle, TimingInv, Between
<1>2. TypeOK'
  BY <1>1 DEF NextCycle, TimingInv, TypeOK
<1>3. EnoughCells'
  <2>1. TargetCount <= Cardinality(Open(0, slot))
    BY <1>1, AllOpen
  <2> QED BY <2>1, <1>1 DEF EnoughCells
<1>4. InBound' /\ Between' /\ Aged'
  BY <1>1 DEF NextCycle, TimingInv, InBound, Between, Aged
<1> QED BY <1>2, <1>3, <1>4 DEF TimingInv

LEMMA TickTiming == TimingInv /\ Tick => TimingInv'
<1> SUFFICES ASSUME TimingInv, Tick PROVE TimingInv'
  OBVIOUS
<1>1. TypeOK /\ Quiet
  BY DEF TimingInv, Tick
<1>2. ASSUME NEW s \in Slots, slot[s].at = "free"
      PROVE  /\ slot'[s] = Free /\ slot[s] = Free /\ waiting = 0
  BY <1>1, <1>2, CheckFacts DEF Tick, Quiet, TypeOK
<1>3. ASSUME NEW s \in Slots, slot[s].at # "free"
      PROVE  /\ slot'[s] \in Checks
             /\ Remaining(slot[s]) \in Nat /\ Remaining(slot[s]) > 0
             /\ Remaining(slot'[s]) = Remaining(slot[s]) - 1
  <2> DEFINE c == [at |-> slot[s].at, attempt |-> slot[s].attempt, left |-> slot[s].left - 1]
  <2>1. /\ slot[s].at \in {"attempt", "pause"} /\ slot[s].attempt \in 1..ConnectRetries + 1
        /\ slot[s].left \in Nat /\ slot[s].left > 0 /\ After(slot[s].attempt) \in Nat
        /\ slot[s].left <= IF slot[s].at = "attempt" THEN Timeout ELSE 1
        /\ slot[s] = [at |-> slot[s].at, attempt |-> slot[s].attempt, left |-> slot[s].left]
    BY <1>1, <1>3, Busy DEF Quiet
  <2>2. slot'[s] = c
    <3>1. slot'[s] = [slot[s] EXCEPT !.left = slot[s].left - 1]
      BY <1>3 DEF Tick
    <3>2. [slot[s] EXCEPT !.left = slot[s].left - 1] = c
      BY <2>1
    <3> QED BY <3>1, <3>2
  <2>3. c \in Checks
    BY <2>1, Constants DEF Checks
  <2>4. Remaining(c) = Remaining(slot[s]) - 1 /\ Remaining(slot[s]) \in Nat /\ Remaining(slot[s]) > 0
    BY <2>1 DEF Remaining
  <2> QED BY <2>2, <2>3, <2>4
<1>4. slot' \in [Slots -> Checks]
  <2>1. \A s \in Slots : slot'[s] \in Checks
    BY <1>2, <1>3, CheckFacts
  <2>2. slot' = [s \in Slots |-> slot'[s]]
    BY DEF Tick
  <2> QED BY <2>1, <2>2
<1>5. /\ elapsed \in Nat /\ age \in Nat /\ jittering \in Nat /\ waiting \in Nat
      /\ ticker \in 0..CheckInterval /\ tick \in BOOLEAN /\ run \in {"cycle", "select"}
      /\ slot \in [Slots -> Checks] /\ age' = age + 1
      /\ jittering' = jittering /\ waiting' = waiting /\ run' = run
  BY <1>1 DEF TypeOK, Tick
<1>6. ticker' \in 0..CheckInterval /\ (ticker > 0 => ticker' > 0)
      /\ (ticker > 1 => ticker' = ticker - 1)
  BY <1>5, Constants DEF Tick
<1>7. tick' \in BOOLEAN /\ (ticker = 1 => tick') /\ (tick => tick')
  <2>1. tick' = (tick \/ ticker = 1)
    BY DEF Tick
  <2> HIDE DEF Tick
  <2> QED BY <2>1, <1>5, Zenon
<1>8. TypeOK'
  <2>1. elapsed' \in Nat /\ age' \in Nat
    BY <1>5 DEF Tick
  <2> QED BY <2>1, <1>4, <1>5, <1>6, <1>7 DEF TypeOK
<1>9. CASE run = "cycle"
  <2>1. elapsed' = elapsed + 1
    BY <1>9 DEF Tick
  <2>2. jittering = 0 \/ elapsed < Jitter
    BY <1>1, <1>5, Constants DEF Quiet
  <2>3. \A s \in Slots : slot[s].at # "free" =>
          elapsed' + Remaining(slot'[s]) = elapsed + Remaining(slot[s])
    BY <1>3, <1>5, <2>1
  <2>4. EnoughCells'
    <3>1. CASE waiting = 0 /\ jittering = 0
      BY <3>1, <1>5, OpenFinite DEF EnoughCells
    <3>2. CASE ~(waiting = 0 /\ jittering = 0)
      <4>1. ASSUME NEW s \in Slots
            PROVE  \/ elapsed' + Remaining(slot'[s]) <= elapsed + Remaining(slot[s])
                   \/ elapsed' + Remaining(slot'[s]) <= Jitter
        <5>1. CASE slot[s].at = "free"
          <6>1. waiting = 0 /\ slot'[s] = Free
            BY <5>1, <1>2
          <6>2. elapsed < Jitter
            BY <6>1, <3>2, <2>2
          <6> QED BY <6>1, <6>2, <2>1, <1>5, CheckFacts, Constants
        <5>2. CASE slot[s].at # "free"
          BY <5>2, <2>3, <1>3, <1>5, <2>1
        <5> QED BY <5>1, <5>2
      <4>2. elapsed' \in Nat
        BY <2>1, <1>5
      <4>3. Cardinality(Open(elapsed, slot)) <= Cardinality(Open(elapsed', slot'))
        BY <4>1, <4>2, <1>4, <1>5, NoneShut
      <4>4. waiting + jittering <= Cardinality(Open(elapsed, slot))
        BY DEF TimingInv, EnoughCells
      <4>5. waiting' + jittering' <= Cardinality(Open(elapsed', slot'))
        BY <4>3, <4>4, <1>5, OpenFinite
      <4> QED BY <4>5 DEF EnoughCells
    <3> QED BY <3>1, <3>2
  <2>5. elapsed' <= Bound
    <3>1. CASE elapsed < Jitter
      BY <3>1, <2>1, <1>5, BoundFacts, Constants
    <3>2. CASE \E s \in Slots : slot[s].at # "free"
      <4>1. PICK s \in Slots : slot[s].at # "free"
        BY <3>2
      <4>2. elapsed + Remaining(slot[s]) <= Bound
        BY DEF TimingInv, InBound
      <4> QED BY <4>1, <4>2, <1>3, <1>5, <2>1, BoundFacts
    <3>3. CASE jittering = 0 /\ \A s \in Slots : slot[s].at = "free"
      <4>1. waiting = 0
        <5>1. 1 \in Slots
          BY Constants DEF Slots
        <5> QED BY <5>1, <3>3, <1>2
      <4>2. CycleOver
        BY <4>1, <3>3, <1>9 DEF CycleOver
      <4> QED BY <4>2, <1>1 DEF Quiet
    <3> QED BY <3>1, <3>2, <3>3, <2>2
  <2>6. InBound'
    <3>1. ASSUME NEW s \in Slots PROVE elapsed' + Remaining(slot'[s]) <= Bound
      <4>1. CASE slot[s].at = "free"
        BY <4>1, <1>2, <2>1, <2>5, <1>5, CheckFacts
      <4>2. CASE slot[s].at # "free"
        BY <4>2, <2>3 DEF TimingInv, InBound
      <4> QED BY <4>1, <4>2
    <3> QED BY <3>1, <2>5 DEF InBound
  <2>7. Between'
    BY <1>9, <1>5 DEF Between
  <2>8. Aged'
    BY <2>1, <1>5, Constants DEF TimingInv, Aged
  <2> QED BY <1>8, <2>4, <2>6, <2>7, <2>8 DEF TimingInv
<1>10. CASE run = "select"
  <2>1. /\ elapsed = 0 /\ jittering = 0 /\ waiting = 0 /\ ticker > 0
        /\ \A s \in Slots : slot[s] = Free
        /\ tick \/ age + ticker <= CheckInterval
    BY <1>10 DEF TimingInv, Between
  <2>2. ~tick
    BY <1>10, <1>1 DEF Quiet
  <2>3. elapsed' = 0 /\ \A s \in Slots : slot'[s] = Free
    BY <1>10, <1>2, <2>1, CheckFacts DEF Tick
  <2>4. EnoughCells'
    BY <2>1, <1>5, OpenFinite DEF EnoughCells
  <2>5. InBound'
    BY <2>3, BoundFacts, CheckFacts DEF InBound
  <2>6. age + ticker <= CheckInterval
    BY <2>1, <2>2
  <2>7. Aged'
    BY <2>6, <2>3, <2>1, <1>5, Constants DEF Aged
  <2>8. ticker # 1 => age' + ticker' <= CheckInterval
    <3>1. ticker # 1 => ticker' = ticker - 1
      BY <2>1, <1>5, <1>6, Constants
    <3>2. age' = age + 1 /\ age \in Nat /\ ticker \in Nat
      BY <1>5, Constants
    <3> HIDE DEF Tick
    <3> QED BY <2>6, <3>1, <3>2, Constants
  <2>9. tick' \/ age' + ticker' <= CheckInterval
    BY <2>8, <1>7
  <2>10. ticker' > 0
    BY <1>6, <2>1
  <2>11. Between'
    BY <2>1, <2>3, <2>9, <2>10, <1>5 DEF Between
  <2> QED BY <1>8, <2>4, <2>5, <2>7, <2>11 DEF TimingInv
<1> QED BY <1>5, <1>9, <1>10

-----------------------------------------------------------------------------
LEMMA NextTiming == TimingInv /\ [Next]_vars => TimingInv'
<1> SUFFICES ASSUME TimingInv, [Next]_vars PROVE TimingInv'
  OBVIOUS
<1>1. CASE JitterOver
  BY <1>1, JitterOverTiming
<1>2. ASSUME NEW s \in Slots, TakeSlot(s) PROVE TimingInv'
  BY <1>2, TakeSlotTiming
<1>3. ASSUME NEW s \in Slots, Answered(s) PROVE TimingInv'
  BY <1>3, AnsweredTiming
<1>4. ASSUME NEW s \in Slots, Fails(s) PROVE TimingInv'
  BY <1>4, FailsTiming
<1>5. ASSUME NEW s \in Slots, PauseOver(s) PROVE TimingInv'
  BY <1>5, PauseOverTiming
<1>6. CASE EndCycle
  BY <1>6, EndCycleTiming
<1>7. CASE NextCycle
  BY <1>7, NextCycleTiming
<1>8. CASE Tick
  BY <1>8, TickTiming
<1>9. CASE UNCHANGED vars
  BY <1>9 DEF vars, TimingInv, TypeOK, EnoughCells, InBound, Between, Aged
<1> QED BY <1>1, <1>2, <1>3, <1>4, <1>5, <1>6, <1>7, <1>8, <1>9 DEF Next

LEMMA TimingInvariant == Spec => []TimingInv
BY InitTiming, NextTiming, PTL DEF Spec

(***************************************************************************)
(* No cycle is longer than the jitter and its waves, every one as long as  *)
(* a check that fails to the end, the last pause included.                 *)
(***************************************************************************)
CycleInBound == elapsed <= Jitter + Waves * ((ConnectRetries + 1) * (Timeout + 1))

LEMMA BoundValue == Bound = Jitter + Waves * Longest
<1>1. \A k, t \in Int : (k - 1) * t + t = k * t
  OBVIOUS
<1>2. (Waves - 1) * Longest \in Int /\ Waves \in Int /\ Longest \in Int /\ Jitter \in Int
  BY WavesSuffice, AfterSteps, Constants
<1> QED BY <1>1, <1>2 DEF Bound, Due

THEOREM CycleIsBounded == Spec => []CycleInBound
<1>1. TimingInv => CycleInBound
  BY BoundValue DEF TimingInv, InBound, CycleInBound, Longest
<1> QED BY <1>1, TimingInvariant, PTL

(***************************************************************************)
(* A slack of one second more than there are waves makes /healthz hold,    *)
(* for any number of targets, slots and retries and any interval: the      *)
(* pauses that livenessThreshold leaves out are all it leaves out.         *)
(***************************************************************************)
THEOREM SlackIsEnough == Spec => []SlackForPauses
<1>1. TimingInv => SlackForPauses
  <2> SUFFICES ASSUME TimingInv, Slack > Waves PROVE age < livenessThreshold
    BY DEF SlackForPauses, cycleFresh, Waves
  <2> DEFINE perTarget == (ConnectRetries + 1) * Timeout + ConnectRetries
  <2>1. age <= CheckInterval + Jitter + Waves * Longest
    <3>1. age <= CheckInterval + elapsed /\ elapsed <= Bound /\ age \in Nat /\ elapsed \in Nat
      BY DEF TimingInv, Aged, InBound, TypeOK
    <3>2. Waves * Longest \in Int
      BY WavesSuffice, AfterSteps
    <3> QED BY <3>1, <3>2, BoundValue, Constants
  <2>2. perTarget \in Int /\ Longest = perTarget + 1
    <3>1. \A r, t \in Int : (r + 1) * t \in Int /\ (r + 1) * (t + 1) = (r + 1) * t + r + 1
      OBVIOUS
    <3> QED BY <3>1, Constants DEF Longest
  <2> HIDE DEF perTarget
  <2>3. Waves * Longest = Waves * perTarget + Waves /\ Waves * perTarget \in Int
    <3>1. \A w, p \in Int : w * p \in Int /\ w * (p + 1) = w * p + w
      OBVIOUS
    <3> QED BY <3>1, <2>2, WavesSuffice
  <2>4. livenessThreshold = CheckInterval + Jitter + Waves * perTarget + Slack
    BY DEF livenessThreshold, Waves, perTarget
  <2>5. age \in Nat
    BY DEF TimingInv, TypeOK
  <2> QED BY <2>1, <2>3, <2>4, <2>5, WavesSuffice, Constants
<1> QED BY <1>1, TimingInvariant, PTL

=============================================================================
