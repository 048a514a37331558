-------------------------- MODULE LapicTimerProofs --------------------------
(***************************************************************************)
(* Proof that the timer never interrupts a process before its quantum has  *)
(* passed, for every width of the two counters, every ratio of their       *)
(* clocks and every delay of the processor that LapicTimerAssumption       *)
(* allows.                                                                 *)
(***************************************************************************)
EXTENDS LapicTimer, TLAPS

Quantum == UsecTicks(QUANTUM_USEC)

TypeOK ==
  /\ pc \in {"hpet_init", "start", "usec_to_ticks", "wait", "mask", "read", "unmask", "arm",
             "user"}
  /\ main_counter \in 0 .. COUNTER - 1 /\ target \in Nat /\ delay \in 0 .. MaxDelay
  /\ count \in Nat /\ timer_quantum \in Nat /\ slice \in Nat
  /\ hpet_on = TRUE /\ masked \in BOOLEAN /\ pending \in BOOLEAN

\* The timer has counted for the quantum, and for some delays of the processor.
Counted(delays) ==
  /\ count <= MAX_COUNT - RATE * Quantum
  /\ count >= MAX_COUNT - RATE * (Quantum + delays * MaxDelay + delay)

\* Ticks of the HPET since hpet_usec_to_ticks() read it.
Since == main_counter - (target - Quantum)

\* What the calibration has come to at each of its steps: the timer has run for
\* as long as the sleep, and longer, and has not come to zero.
Calibration ==
  /\ pc \notin {"arm", "user"} => masked
  /\ pc # "user" => ~pending
  /\ pc = "start" => main_counter <= delay
  /\ pc = "usec_to_ticks" => main_counter <= MaxDelay + delay /\ count = MAX_COUNT - RATE * delay
  /\ pc = "wait" => /\ target >= Quantum /\ target <= Quantum + 2 * MaxDelay
                    /\ Since >= 0 /\ main_counter <= target + delay
                    /\ count <= MAX_COUNT - RATE * Since
                    /\ count >= MAX_COUNT - RATE * (Since + MaxDelay)
  /\ pc = "mask" => Counted(2)
  /\ pc = "read" => Counted(3)
  /\ pc = "unmask" => Counted(4)
  /\ pc = "arm" => Counted(5)
  /\ pc \in {"unmask", "arm", "user"} => timer_quantum >= RATE * Quantum

\* What is left of the count and what has passed of the slice make a quantum.
SliceLeft ==
  pc = "user" => IF pending THEN slice >= Quantum ELSE count + RATE * slice >= RATE * Quantum

IInv == TypeOK /\ Calibration /\ SliceLeft
-----------------------------------------------------------------------------
(* Arithmetic.                                                             *)

\* The constants as numbers.
LEMMA Numbers ==
  ASSUME LapicTimerAssumption
  PROVE  /\ COUNTER \in Nat /\ COUNTER > 0 /\ MAX_COUNT \in Nat /\ RATE \in Nat /\ RATE > 0
         /\ MaxDelay \in Nat /\ MaxDelay > 0 /\ Quantum \in Nat
         /\ Quantum + 3 * MaxDelay < COUNTER
         /\ RATE * (Quantum + 6 * MaxDelay) < MAX_COUNT
  <1>1. /\ {COUNTER, MAX_COUNT, RATE, femtosecond, counter_tick_period, MaxDelay} \subseteq Nat \ {0}
        /\ Quantum + 3 * MaxDelay < COUNTER
        /\ RATE * (Quantum + 6 * MaxDelay) < MAX_COUNT
    BY DEF LapicTimerAssumption, Quantum
  <1>2. 2000 * femtosecond \in Nat /\ counter_tick_period \in Nat /\ counter_tick_period > 0
    BY <1>1
  <1>3. (2000 * femtosecond) \div counter_tick_period \in Nat
    BY <1>2
  <1>4. Quantum \in Nat
    BY <1>3 DEF Quantum, UsecTicks, QUANTUM_USEC
  <1> QED
    BY <1>1, <1>4

\* Multiplication by a number keeps the order, and so does its inverse.
LEMMA TimesMonotonic == \A r, a, b \in Nat : a <= b => r * a <= r * b
  OBVIOUS

LEMMA TimesReflects == \A r, a, b \in Nat : r > 0 /\ r * a >= r * b => a >= b
  OBVIOUS

\* One more tick of the HPET is RATE more ticks of the timer.
LEMMA OneTickMore == \A r, a \in Int : r * (a + 1) = r * a + r
  OBVIOUS

\* What the hardware's countdown comes to.
LEMMA CountDown ==
  ASSUME NEW c \in Nat, NEW r \in Nat
  PROVE  Max({0, c - r}) = IF c >= r THEN c - r ELSE 0
  BY DEF Max
-----------------------------------------------------------------------------
(* Time passes.                                                            *)

\* While the count is large, a tick takes RATE from it and requests nothing.
LEMMA TickCounts ==
  ASSUME LapicTimerAssumption, IInv, Tick
  PROVE  /\ count' = IF count >= RATE THEN count - RATE ELSE 0
         /\ delay' = delay + 1 /\ delay' \in 0 .. MaxDelay
         /\ main_counter' = IF main_counter = COUNTER - 1 THEN 0 ELSE main_counter + 1
         /\ count > RATE => pending' = pending
  <1> USE Numbers
  <1>1. count \in Nat /\ RATE \in Nat /\ delay \in Nat /\ delay < MaxDelay /\ pending \in BOOLEAN
    BY DEF IInv, TypeOK, Tick
  <1>2. count' = IF count >= RATE THEN count - RATE ELSE 0
    BY <1>1, CountDown DEF Tick
  <1>3. delay' = delay + 1 /\ delay' \in 0 .. MaxDelay
    BY <1>1 DEF Tick
  <1>4. main_counter' = IF main_counter = COUNTER - 1 THEN 0 ELSE main_counter + 1
    <2>1. main_counter' = (main_counter + 1) % COUNTER /\ main_counter \in 0 .. COUNTER - 1
      BY DEF IInv, TypeOK, Tick
    <2>2. CASE main_counter = COUNTER - 1
      BY <2>1, <2>2
    <2>3. CASE main_counter # COUNTER - 1
      <3>1. main_counter + 1 \in 0 .. COUNTER - 1
        BY <2>1, <2>3
      <3>2. (main_counter + 1) % COUNTER = main_counter + 1
        BY <3>1
      <3> QED
        BY <2>1, <2>3, <3>2
    <2> QED
      BY <2>2, <2>3
  <1>5. count > RATE => pending' = pending
    BY <1>1, <1>2 DEF Tick
  <1> QED
    BY <1>2, <1>3, <1>4, <1>5

LEMMA TickType ==
  ASSUME LapicTimerAssumption, IInv, Tick
  PROVE  TypeOK'
  <1>1. count' \in Nat /\ delay' \in 0 .. MaxDelay /\ main_counter' \in 0 .. COUNTER - 1
    BY TickCounts, Numbers DEF IInv, TypeOK
  <1>2. pending' \in BOOLEAN
    BY DEF Tick, IInv, TypeOK
  <1>3. slice' \in Nat
    BY DEF Tick, IInv, TypeOK
  <1> QED
    BY <1>1, <1>2, <1>3 DEF Tick, IInv, TypeOK

\* A countdown that has room for the delays that are still to come goes on.
LEMMA TickCounted ==
  ASSUME LapicTimerAssumption, IInv, Tick, NEW k \in 2 .. 5, Counted(k)
  PROVE  Counted(k)' /\ pending' = pending
  <1> USE Numbers
  <1> DEFINE n == Quantum + k * MaxDelay + delay
  <1>1. /\ n \in Nat /\ n + 1 <= Quantum + 6 * MaxDelay /\ n + 1 \in Nat
        /\ Quantum + 6 * MaxDelay \in Nat
    <2>1. delay \in Nat /\ delay + 1 <= MaxDelay
      BY DEF IInv, TypeOK, Tick
    <2>2. k * MaxDelay <= 5 * MaxDelay /\ k * MaxDelay \in Nat
      OBVIOUS
    <2> QED
      BY <2>1, <2>2
  <1>2. RATE * (n + 1) <= RATE * (Quantum + 6 * MaxDelay)
    BY <1>1, TimesMonotonic
  <1>3. RATE * (n + 1) = RATE * n + RATE /\ RATE * n \in Nat /\ RATE * (Quantum + 6 * MaxDelay) \in Nat
    BY <1>1
  <1>4. count >= MAX_COUNT - RATE * n /\ count <= MAX_COUNT - RATE * Quantum /\ count \in Nat
    BY DEF Counted, IInv, TypeOK
  <1>5. RATE * n + RATE < MAX_COUNT
    BY <1>2, <1>3
  <1>6. count > RATE
    <2> HIDE DEF n
    <2> QED BY <1>3, <1>4, <1>5
  <1>7. count' = count - RATE /\ pending' = pending
    BY <1>4, <1>6, TickCounts
  <1>8. count' >= MAX_COUNT - RATE * (n + 1) /\ count' <= MAX_COUNT - RATE * Quantum
    <2> HIDE DEF n
    <2>1. RATE * Quantum \in Nat
      OBVIOUS
    <2> QED BY <2>1, <1>3, <1>4, <1>7
  <1>9. n + 1 = Quantum + k * MaxDelay + delay'
    <2>1. delay' = delay + 1 /\ delay \in Nat /\ k * MaxDelay \in Nat
      BY TickCounts DEF IInv, TypeOK
    <2> QED
      BY <2>1
  <1>10. Quantum' = Quantum
    BY DEF Quantum, UsecTicks
  <1> QED
    BY <1>7, <1>8, <1>9, <1>10 DEF Counted

\* The sleep: the HPET and the timer count the same ticks.
LEMMA TickSleep ==
  ASSUME LapicTimerAssumption, IInv, Tick, pc = "wait"
  PROVE  /\ Since' >= 0 /\ main_counter' <= target' + delay'
         /\ count' <= MAX_COUNT - RATE * Since'
         /\ count' >= MAX_COUNT - RATE * (Since' + MaxDelay)
         /\ pending' = pending
  <1> USE Numbers
  <1>1. /\ target \in Nat /\ main_counter \in Nat /\ delay \in Nat /\ count \in Nat
        /\ delay + 1 <= MaxDelay /\ target >= Quantum /\ target <= Quantum + 2 * MaxDelay
        /\ main_counter <= target + delay /\ Since >= 0
        /\ count <= MAX_COUNT - RATE * Since
        /\ count >= MAX_COUNT - RATE * (Since + MaxDelay)
    BY DEF IInv, TypeOK, Calibration, Tick
  <1>2. main_counter' = main_counter + 1 /\ delay' = delay + 1 /\ target' = target
    BY <1>1, TickCounts DEF Tick
  <1>3. Since \in Nat /\ Since' = Since + 1 /\ Since <= Quantum + delay
    <2>1. Quantum' = Quantum
      BY DEF Quantum, UsecTicks
    <2> QED
      BY <1>1, <1>2, <2>1 DEF Since
  <1> DEFINE n == Since + MaxDelay
  <1>4. n \in Nat /\ n + 1 \in Nat /\ n + 1 <= Quantum + 6 * MaxDelay /\ Quantum + 6 * MaxDelay \in Nat
    BY <1>1, <1>3
  <1>5. RATE * (n + 1) <= RATE * (Quantum + 6 * MaxDelay)
    BY <1>4, TimesMonotonic
  <1>6. /\ RATE * (n + 1) = RATE * n + RATE /\ RATE * n \in Nat
        /\ RATE * (Since + 1) = RATE * Since + RATE /\ RATE * Since \in Nat
        /\ RATE * (Quantum + 6 * MaxDelay) \in Nat
    BY <1>3, <1>4
  <1>7. Since' + MaxDelay = n + 1
    BY <1>3
  <1>8. count >= MAX_COUNT - RATE * n
    BY <1>1
  <1> HIDE DEF n
  <1>9. count > RATE
    BY <1>1, <1>5, <1>6, <1>8
  <1>10. count' = count - RATE /\ pending' = pending
    BY <1>1, <1>9, TickCounts
  <1>11. count' <= MAX_COUNT - RATE * (Since + 1) /\ count' >= MAX_COUNT - RATE * (n + 1)
    BY <1>1, <1>6, <1>8, <1>10
  <1> QED
    BY <1>1, <1>2, <1>3, <1>7, <1>10, <1>11

LEMMA TickCalibration ==
  ASSUME LapicTimerAssumption, IInv, Tick
  PROVE  Calibration'
  <1> USE Numbers
  <1>1. pc' = pc /\ masked' = masked /\ timer_quantum' = timer_quantum /\ target' = target
    BY DEF Tick
  <1>2. Quantum' = Quantum
    BY DEF Quantum, UsecTicks
  <1>3. pc \notin {"arm", "user"} => masked
    BY DEF IInv, Calibration
  <1>4. pc # "user" => ~pending
    BY DEF IInv, Calibration
  <1>5. masked /\ ~pending => ~pending'
    BY Zenon DEF Tick
  <1>6. pc # "user" => ~pending'
    <2>1. CASE pc = "arm"
      BY <2>1, <1>4, TickCounted DEF IInv, Calibration
    <2>2. CASE pc # "arm"
      BY <2>2, <1>3, <1>4, <1>5
    <2> QED
      BY <2>1, <2>2
  <1>7. pc = "start" => main_counter' <= delay'
    BY TickCounts DEF IInv, TypeOK, Calibration
  <1>8. ASSUME pc = "usec_to_ticks"
        PROVE  main_counter' <= MaxDelay + delay' /\ count' = MAX_COUNT - RATE * delay'
    <2>1. /\ delay \in Nat /\ delay' = delay + 1 /\ delay' \in Nat /\ delay' <= Quantum + 6 * MaxDelay
          /\ main_counter \in 0 .. COUNTER - 1 /\ main_counter <= MaxDelay + delay
          /\ count = MAX_COUNT - RATE * delay
      BY <1>8, TickCounts DEF IInv, TypeOK, Calibration
    <2>2. main_counter' <= MaxDelay + delay'
      BY <2>1, TickCounts
    <2>3. RATE * delay' <= RATE * (Quantum + 6 * MaxDelay)
      BY <2>1, TimesMonotonic
    <2>4. /\ RATE * delay' = RATE * delay + RATE /\ RATE * delay \in Nat
          /\ RATE * (Quantum + 6 * MaxDelay) \in Nat
      BY <2>1
    <2>5. count >= RATE /\ count - RATE = MAX_COUNT - RATE * delay'
      BY <2>1, <2>3, <2>4
    <2> QED
      BY <2>2, <2>5, TickCounts
  <1>9. pc = "wait" => /\ target' >= Quantum' /\ target' <= Quantum' + 2 * MaxDelay
                       /\ Since' >= 0 /\ main_counter' <= target' + delay'
                       /\ count' <= MAX_COUNT - RATE * Since'
                       /\ count' >= MAX_COUNT - RATE * (Since' + MaxDelay)
    BY <1>1, <1>2, TickSleep DEF IInv, Calibration
  <1>10. /\ pc = "mask" => Counted(2)'
         /\ pc = "read" => Counted(3)'
         /\ pc = "unmask" => Counted(4)'
         /\ pc = "arm" => Counted(5)'
    BY TickCounted DEF IInv, Calibration
  <1>11. pc \in {"unmask", "arm", "user"} => timer_quantum' >= RATE * Quantum'
    BY <1>1, <1>2 DEF IInv, Calibration
  <1> QED
    BY <1>1, <1>3, <1>6, <1>7, <1>8, <1>9, <1>10, <1>11 DEF Calibration

LEMMA TickSlice ==
  ASSUME LapicTimerAssumption, IInv, Tick
  PROVE  SliceLeft'
  <1> USE Numbers
  <1>1. Quantum' = Quantum /\ pc' = pc
    BY DEF Quantum, UsecTicks, Tick
  <1>2. /\ count \in Nat /\ slice \in Nat /\ RATE * slice \in Nat /\ RATE * Quantum \in Nat
        /\ RATE * (slice + 1) = RATE * slice + RATE /\ slice + 1 \in Nat
    <2>1. count \in Nat /\ slice \in Nat
      BY DEF IInv, TypeOK
    <2> QED
      BY <2>1
  <1>3. CASE pc = "user" /\ pending
    <2>1. pending' /\ slice' = slice /\ slice >= Quantum
      BY Zenon, <1>3 DEF Tick, IInv, SliceLeft
    <2> QED
      BY <2>1, <1>1 DEF SliceLeft
  <1>4. CASE pc = "user" /\ ~pending
    <2>1. slice' = slice + 1 /\ count + RATE * slice >= RATE * Quantum
      BY <1>4 DEF Tick, IInv, SliceLeft
    <2>2. count' + RATE * (slice + 1) >= RATE * Quantum
      BY <1>2, <2>1, TickCounts
    <2>3. pending' => count' = 0
      BY Zenon, <1>4 DEF Tick
    <2>4. pending' => slice + 1 >= Quantum
      BY <1>2, <2>2, <2>3, TimesReflects
    <2> QED
      BY <1>1, <2>1, <2>2, <2>4 DEF SliceLeft
  <1>5. CASE pc # "user"
    BY <1>1, <1>5 DEF SliceLeft
  <1> QED
    BY <1>3, <1>4, <1>5
-----------------------------------------------------------------------------
(* The processor's steps.                                                  *)

\* The HPET starts from zero, the timer from its largest count.
LEMMA StartPreserves ==
  ASSUME LapicTimerAssumption, IInv, hpet_init \/ CalibrateStart
  PROVE  IInv'
  <1> USE Numbers
  <1>1. CASE hpet_init
    BY <1>1 DEF hpet_init, Goto, IInv, TypeOK, Calibration, SliceLeft
  <1>2. CASE CalibrateStart
    <2>1. /\ delay \in 0 .. MaxDelay /\ main_counter <= delay /\ main_counter' = main_counter
          /\ delay' = 0 /\ count' = MAX_COUNT /\ main_counter \in Nat
      BY <1>2 DEF CalibrateStart, Goto, lapic_oneshot_timer, IInv, TypeOK, Calibration
    <2>2. main_counter' <= MaxDelay + delay' /\ count' = MAX_COUNT - RATE * delay'
      BY <2>1
    <2>3. TypeOK'
      BY <1>2, <2>1 DEF CalibrateStart, Goto, IInv, TypeOK
    <2> QED
      BY <1>2, <2>2, <2>3 DEF CalibrateStart, Goto, IInv, Calibration, SliceLeft
  <1> QED
    BY <1>1, <1>2

\* The sleep begins with the HPET's count, after the timer has started.
LEMMA SleepStartPreserves ==
  ASSUME LapicTimerAssumption, IInv, SleepStart
  PROVE  IInv'
  <1> USE Numbers
  <1>1. /\ pc = "usec_to_ticks" /\ pc' = "wait" /\ delay' = 0 /\ target' = main_counter + Quantum
        /\ UNCHANGED <<main_counter, hpet_on, count, masked, pending, timer_quantum, slice>>
    BY DEF SleepStart, Goto, hpet_usec_to_ticks, Quantum
  <1>2. /\ main_counter \in Nat /\ delay \in Nat /\ delay <= MaxDelay /\ count \in Nat
        /\ main_counter <= MaxDelay + delay /\ count = MAX_COUNT - RATE * delay
    BY <1>1 DEF IInv, TypeOK, Calibration
  <1>3. Quantum' = Quantum
    BY DEF Quantum, UsecTicks
  <1>4. Since' = 0
    BY <1>1, <1>2, <1>3 DEF Since
  <1>5. RATE * delay <= RATE * MaxDelay /\ RATE * delay \in Nat /\ RATE * MaxDelay \in Nat
    BY <1>2, TimesMonotonic
  <1>6. count' <= MAX_COUNT - RATE * Since' /\ count' >= MAX_COUNT - RATE * (Since' + MaxDelay)
    BY <1>1, <1>2, <1>4, <1>5
  <1>7. TypeOK'
    BY <1>1, <1>2 DEF IInv, TypeOK
  <1>8. /\ target' >= Quantum' /\ target' <= Quantum' + 2 * MaxDelay
        /\ main_counter' <= target' + delay'
    BY <1>1, <1>2, <1>3
  <1> QED
    BY <1>1, <1>4, <1>6, <1>7, <1>8 DEF IInv, Calibration, SliceLeft

\* When the sleep is over, the timer has counted for the quantum.
LEMMA SleepWaitPreserves ==
  ASSUME LapicTimerAssumption, IInv, SleepWait
  PROVE  IInv'
  <1> USE Numbers
  <1>1. /\ pc = "wait" /\ pc' = (IF Asleep THEN "wait" ELSE "mask") /\ delay' = 0
        /\ UNCHANGED <<main_counter, hpet_on, target, count, masked, pending, timer_quantum, slice>>
    BY DEF SleepWait, Goto
  <1>2. /\ target \in Nat /\ main_counter \in Nat /\ delay \in Nat /\ count \in Nat
        /\ delay <= MaxDelay /\ target >= Quantum /\ target <= Quantum + 2 * MaxDelay
        /\ main_counter <= target + delay /\ Since >= 0
        /\ count <= MAX_COUNT - RATE * Since
        /\ count >= MAX_COUNT - RATE * (Since + MaxDelay)
    BY <1>1 DEF IInv, TypeOK, Calibration
  <1>3. TypeOK'
    BY <1>1 DEF IInv, TypeOK
  <1>4. Quantum' = Quantum /\ Since' = Since
    BY <1>1 DEF Quantum, UsecTicks, Since
  <1>5. CASE Asleep
    <2>1. main_counter' <= target' + delay'
      BY <1>1, <1>2, <1>5 DEF Asleep
    <2> QED
      BY <1>1, <1>2, <1>3, <1>4, <1>5, <2>1 DEF IInv, Calibration, SliceLeft
  <1>6. CASE ~Asleep
    <2>1. Since \in Nat /\ Quantum <= Since /\ Since + MaxDelay <= Quantum + 2 * MaxDelay
      BY <1>2, <1>6 DEF Asleep, Since
    <2>2. RATE * Quantum <= RATE * Since /\ RATE * Quantum \in Nat /\ RATE * Since \in Nat
      BY <2>1, TimesMonotonic
    <2>3. /\ RATE * (Since + MaxDelay) <= RATE * (Quantum + 2 * MaxDelay)
          /\ RATE * (Since + MaxDelay) \in Nat /\ RATE * (Quantum + 2 * MaxDelay) \in Nat
      BY <2>1, TimesMonotonic
    <2>4. Counted(2)'
      BY <1>1, <1>2, <1>4, <2>2, <2>3 DEF Counted
    <2> QED
      BY <1>1, <1>3, <1>6, <2>4 DEF IInv, Calibration, SliceLeft
  <1> QED
    BY <1>5, <1>6

\* A step of the processor restarts the count of its delay.
LEMMA CountedGoesOn ==
  ASSUME LapicTimerAssumption, IInv, NEW k \in 2 .. 4, Counted(k), delay' = 0, count' = count
  PROVE  Counted(k + 1)'
  <1> USE Numbers
  <1>1. delay \in Nat /\ delay <= MaxDelay /\ count \in Nat
    BY DEF IInv, TypeOK
  <1>2. /\ Quantum + k * MaxDelay + delay \in Nat
        /\ Quantum + (k + 1) * MaxDelay \in Nat
        /\ Quantum + k * MaxDelay + delay <= Quantum + (k + 1) * MaxDelay
    BY <1>1
  <1>3. RATE * (Quantum + k * MaxDelay + delay) <= RATE * (Quantum + (k + 1) * MaxDelay)
    BY <1>2, TimesMonotonic
  <1>4. /\ RATE * (Quantum + k * MaxDelay + delay) \in Nat
        /\ RATE * (Quantum + (k + 1) * MaxDelay) \in Nat
    BY <1>2
  <1>5. count >= MAX_COUNT - RATE * (Quantum + (k + 1) * MaxDelay)
    BY <1>1, <1>3, <1>4 DEF Counted
  <1>6. Quantum' = Quantum
    BY DEF Quantum, UsecTicks
  <1>7. Quantum + (k + 1) * MaxDelay + delay' = Quantum + (k + 1) * MaxDelay
    BY <1>2
  <1> QED
    BY <1>5, <1>6, <1>7 DEF Counted

\* The quantum is what the timer has counted.
LEMMA CalibratePreserves ==
  ASSUME LapicTimerAssumption, IInv, CalibrateMask \/ CalibrateRead \/ CalibrateUnmask
  PROVE  IInv'
  <1> USE Numbers
  <1>1. delay' = 0 /\ count' = count /\ Quantum' = Quantum
    BY DEF CalibrateMask, CalibrateRead, CalibrateUnmask, Goto, Quantum, UsecTicks
  <1>2. CASE CalibrateMask
    <2>1. Counted(2) /\ Counted(3)'
      BY <1>1, <1>2, CountedGoesOn DEF CalibrateMask, Goto, IInv, Calibration
    <2> QED
      BY <1>2, <2>1 DEF CalibrateMask, Goto, IInv, TypeOK, Calibration, SliceLeft
  <1>3. CASE CalibrateRead
    <2>1. Counted(3) /\ Counted(4)'
      BY <1>1, <1>3, CountedGoesOn DEF CalibrateRead, Goto, IInv, Calibration
    <2>2. RATE * Quantum \in Nat /\ count \in Nat /\ timer_quantum' = MAX_COUNT - count
      BY <1>3 DEF CalibrateRead, IInv, TypeOK
    <2>3. timer_quantum' \in Nat /\ timer_quantum' >= RATE * Quantum
      BY <2>1, <2>2 DEF Counted
    <2> QED
      BY <1>1, <1>3, <2>1, <2>3 DEF CalibrateRead, Goto, IInv, TypeOK, Calibration, SliceLeft
  <1>4. CASE CalibrateUnmask
    <2>1. Counted(4) /\ Counted(5)'
      BY <1>1, <1>4, CountedGoesOn DEF CalibrateUnmask, Goto, IInv, Calibration
    <2>2. TypeOK'
      <3>1. masked' \in BOOLEAN
        BY <1>4, Zenon DEF CalibrateUnmask
      <3>2. delay' \in 0 .. MaxDelay
        BY <1>1
      <3> QED
        BY <1>4, <3>1, <3>2, Zenon DEF CalibrateUnmask, Goto, IInv, TypeOK
    <2> QED
      BY <1>1, <1>4, <2>1, <2>2 DEF CalibrateUnmask, Goto, IInv, Calibration, SliceLeft
  <1> QED
    BY <1>2, <1>3, <1>4

\* A slice begins with the whole quantum.
LEMMA SlicePreserves ==
  ASSUME LapicTimerAssumption, IInv, Arm \/ timer_irq \/ User
  PROVE  IInv'
  <1> USE Numbers
  <1>1. Quantum' = Quantum
    BY DEF Quantum, UsecTicks
  <1>2. ASSUME Arm \/ timer_irq
        PROVE  IInv'
    <2>1. pending' = FALSE
      <3>1. CASE Arm
        BY <3>1 DEF Arm, Goto, IInv, TypeOK, Calibration
      <3>2. CASE timer_irq
        BY <3>2 DEF timer_irq
      <3> QED
        BY Zenon, <1>2, <3>1, <3>2
    <2>2. /\ pc \in {"arm", "user"} /\ pc' = "user" /\ count' = timer_quantum /\ slice' = 0 /\ delay' = 0
          /\ UNCHANGED <<main_counter, hpet_on, target, masked, timer_quantum>>
      BY <1>2 DEF Arm, timer_irq, Goto, lapic_oneshot_timer
    <2>3. timer_quantum >= RATE * Quantum /\ timer_quantum \in Nat
      BY <2>2 DEF IInv, TypeOK, Calibration
    <2>4. count' + RATE * slice' >= RATE * Quantum
      BY <2>2, <2>3
    <2>5. TypeOK'
      <3>1. hpet_on' = TRUE /\ masked' \in BOOLEAN /\ pending' \in BOOLEAN
        BY <2>1, <2>2, Zenon DEF IInv, TypeOK
      <3>2. /\ main_counter' \in 0 .. COUNTER - 1 /\ target' \in Nat /\ delay' \in 0 .. MaxDelay
            /\ count' \in Nat /\ timer_quantum' \in Nat /\ slice' \in Nat
        BY <2>2, <2>3 DEF IInv, TypeOK
      <3> QED
        BY <2>2, <3>1, <3>2, Zenon DEF TypeOK
    <2> QED
      BY <1>1, <2>1, <2>2, <2>3, <2>4, <2>5 DEF IInv, Calibration, SliceLeft
  <1>3. CASE User
    BY <1>1, <1>3 DEF User, Goto, IInv, TypeOK, Calibration, SliceLeft
  <1> QED
    BY <1>2, <1>3
-----------------------------------------------------------------------------
\* The invariant holds in every state of arch_start_scheduler_timer() and of the
\* interrupts that follow it.
THEOREM TimerInvariant ==
  ASSUME LapicTimerAssumption
  PROVE  Spec => []IInv
  <1>1. Init => IInv
    <2>1. COUNTER \div 2 \in 0 .. COUNTER - 1
      BY Numbers
    <2>2. {0, COUNTER \div 2, COUNTER - 1} \subseteq 0 .. COUNTER - 1
      BY <2>1, Numbers
    <2>3. Init => TypeOK
      <3> SUFFICES ASSUME Init PROVE TypeOK
        OBVIOUS
      <3>1. hpet_on = TRUE /\ masked \in BOOLEAN /\ pending \in BOOLEAN
        BY Zenon DEF Init
      <3>2. /\ main_counter \in 0 .. COUNTER - 1 /\ target \in Nat /\ delay \in 0 .. MaxDelay
            /\ count \in Nat /\ timer_quantum \in Nat /\ slice \in Nat
        BY <2>2, Numbers DEF Init
      <3> QED
        BY <3>1, <3>2, Zenon DEF Init, TypeOK
    <2>4. Init => Calibration /\ SliceLeft
      BY DEF Init, Calibration, SliceLeft
    <2> QED
      BY <2>3, <2>4 DEF IInv
  <1>2. IInv /\ [Next]_vars => IInv'
    <2> SUFFICES ASSUME IInv, [Next]_vars PROVE IInv'
      OBVIOUS
    <2>1. CASE Tick
      BY <2>1, TickType, TickCalibration, TickSlice DEF IInv
    <2>2. CASE Processor
      BY <2>2, StartPreserves, SleepStartPreserves, SleepWaitPreserves, CalibratePreserves,
         SlicePreserves DEF Processor
    <2>3. CASE UNCHANGED vars
      BY <2>3 DEF vars, IInv, TypeOK, Calibration, SliceLeft, Counted, Since, Quantum, UsecTicks
    <2> QED
      BY <2>1, <2>2, <2>3 DEF Next
  <1> QED
    BY <1>1, <1>2, PTL DEF Spec

\* However the calibration's accesses to the two clocks fall between their
\* ticks, and however long the processor takes for its steps, timer_irq() comes
\* no sooner than the quantum after the timer was armed.
THEOREM SlicesAreFull ==
  ASSUME LapicTimerAssumption
  PROVE  Spec => []FullSlice
  <1>1. IInv => FullSlice
    BY DEF IInv, TypeOK, Calibration, SliceLeft, FullSlice, Quantum
  <1> QED
    BY <1>1, TimerInvariant, PTL
=============================================================================
