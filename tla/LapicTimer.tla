----------------------------- MODULE LapicTimer -----------------------------
(***************************************************************************)
(* The scheduler's timer: arch_start_scheduler_timer() lets the local      *)
(* APIC's timer run while it waits for the HPET, takes the ticks it has    *)
(* counted for the quantum, and arms the timer; timer_irq() arms it again. *)
(*                                                                         *)
(* Time passes in ticks of the HPET, and RATE ticks of the local APIC in   *)
(* each.  The processor may be slow: up to MaxDelay ticks go by between    *)
(* two of its steps.                                                       *)
(***************************************************************************)
EXTENDS Integers, FiniteSetsExt

CONSTANTS
  COUNTER,              \* the HPET counts modulo COUNTER (2^32 or 2^64)
  MAX_COUNT,            \* ~0U, the largest count of the timer
  RATE,                 \* ticks of the timer per tick of the HPET
  femtosecond,          \* femtoseconds in a microsecond (10^9)
  counter_tick_period,  \* femtoseconds per tick of the HPET
  MaxDelay              \* bound: ticks between two steps of the processor

\* What arch_start_scheduler_timer() passes.
QUANTUM_USEC == 2000

UsecTicks(usec) == (usec * femtosecond) \div counter_tick_period

\* The HPET's counter and the timer's count do not come to their ends during the
\* calibration: both have 32 bits at least, and two milliseconds are some 28000
\* ticks of a common HPET.
LapicTimerAssumption ==
  /\ {COUNTER, MAX_COUNT, RATE, femtosecond, counter_tick_period, MaxDelay} \subseteq Nat \ {0}
  /\ UsecTicks(QUANTUM_USEC) + 3 * MaxDelay < COUNTER
  /\ RATE * (UsecTicks(QUANTUM_USEC) + 6 * MaxDelay) < MAX_COUNT

VARIABLES
  pc,             \* where the boot processor is
  main_counter,   \* the HPET's counter
  hpet_on,        \* general_configuration
  target,         \* required_hpet_ticks
  count,          \* the timer's current count, 0 when it is stopped
  masked,         \* the mask bit of the timer's LVT register
  pending,        \* the timer's interrupt is requested
  timer_quantum,
  delay,          \* ticks since the processor's last step
  slice           \* ticks of the HPET since the timer was armed

vars == <<pc, main_counter, hpet_on, target, count, masked, pending, timer_quantum, delay,
          slice>>

\* After a reset the timer is masked; the firmware may have used the HPET.
Init ==
  /\ pc = "hpet_init" /\ main_counter \in {0, COUNTER \div 2, COUNTER - 1} /\ hpet_on = TRUE
  /\ target = 0 /\ count = 0 /\ masked = TRUE /\ pending = FALSE
  /\ timer_quantum = 0 /\ delay = 0 /\ slice = 0
-----------------------------------------------------------------------------
(* The hardware.                                                           *)

\* The timer stops at zero, and requests an interrupt if it is not masked.
Tick ==
  /\ delay < MaxDelay
  /\ delay' = delay + 1
  /\ main_counter' = IF hpet_on THEN (main_counter + 1) % COUNTER ELSE main_counter
  /\ count' = Max({0, count - RATE})
  /\ pending' = (pending \/ (count > 0 /\ count' = 0 /\ ~masked))
  /\ slice' = IF pc = "user" /\ ~pending THEN slice + 1 ELSE slice
  /\ UNCHANGED <<pc, hpet_on, target, masked, timer_quantum>>

\* A step of the processor from one place to another.
Goto(from, to) == pc = from /\ pc' = to /\ delay' = 0
-----------------------------------------------------------------------------
(* The HPET.                                                               *)

hpet_init ==
  /\ Goto("hpet_init", "start") /\ hpet_on' = TRUE /\ main_counter' = 0
  /\ UNCHANGED <<target, count, masked, pending, timer_quantum, slice>>

\* Mutant: a number of ticks, where the counter's value then is meant.
hpet_usec_to_ticks_Absolute(usec) == UsecTicks(usec)
hpet_usec_to_ticks(usec) == main_counter + UsecTicks(usec)

\* The condition of hpet_usleep()'s loop, which reads the counter in each round.
Asleep == main_counter < target
-----------------------------------------------------------------------------
(* The local APIC's timer.                                                 *)

\* Writing a count starts the timer, or stops it if the count is zero.
lapic_oneshot_timer(ticks) == count' = ticks

\* lapic_calibrate_timer(): the timer starts at its largest count ...
CalibrateStart ==
  /\ Goto("start", "usec_to_ticks") /\ lapic_oneshot_timer(MAX_COUNT)
  /\ UNCHANGED <<main_counter, hpet_on, target, masked, pending, timer_quantum, slice>>

\* ... while usleep() waits for the HPET ...
SleepStart ==
  /\ Goto("usec_to_ticks", "wait") /\ target' = hpet_usec_to_ticks(QUANTUM_USEC)
  /\ UNCHANGED <<main_counter, hpet_on, count, masked, pending, timer_quantum, slice>>

SleepWait ==
  /\ Goto("wait", IF Asleep THEN "wait" ELSE "mask")
  /\ UNCHANGED <<main_counter, hpet_on, target, count, masked, pending, timer_quantum, slice>>

\* ... then its interrupt is masked, though it goes on counting ...
CalibrateMask ==
  /\ Goto("mask", "read") /\ masked' = TRUE
  /\ UNCHANGED <<main_counter, hpet_on, target, count, pending, timer_quantum, slice>>

\* ... the ticks are what it has counted ...
CalibrateRead ==
  /\ Goto("read", "unmask") /\ timer_quantum' = MAX_COUNT - count
  /\ UNCHANGED <<main_counter, hpet_on, target, count, masked, pending, slice>>

\* ... and the interrupt gets its vector and its mask is removed.
CalibrateUnmask ==
  /\ Goto("unmask", "arm") /\ masked' = FALSE
  /\ UNCHANGED <<main_counter, hpet_on, target, count, pending, timer_quantum, slice>>

\* The end of arch_start_scheduler_timer().
Arm ==
  /\ Goto("arm", "user") /\ lapic_oneshot_timer(timer_quantum) /\ slice' = 0
  /\ UNCHANGED <<main_counter, hpet_on, target, masked, pending, timer_quantum>>

\* The processor takes the interrupt; timer_irq() gives another process its
\* slice, acknowledges the interrupt and arms the timer.
timer_irq ==
  /\ pending /\ Goto("user", "user") /\ pending' = FALSE /\ slice' = 0
  /\ lapic_oneshot_timer(timer_quantum)
  /\ UNCHANGED <<main_counter, hpet_on, target, masked, timer_quantum>>

\* A process runs.
User ==
  /\ ~pending /\ Goto("user", "user")
  /\ UNCHANGED <<main_counter, hpet_on, target, count, masked, pending, timer_quantum, slice>>

Processor ==
  \/ hpet_init \/ CalibrateStart \/ SleepStart \/ SleepWait \/ CalibrateMask \/ CalibrateRead
  \/ CalibrateUnmask \/ Arm \/ timer_irq \/ User

Next == Tick \/ Processor

\* Time passes, and the processor executes: interrupts are enabled in user mode,
\* and nothing else keeps it from its next step.
Spec == Init /\ [][Next]_vars /\ WF_vars(Tick) /\ WF_vars(Processor)
-----------------------------------------------------------------------------
(* Properties.                                                             *)

\* No process is interrupted by the timer before the time that the quantum was
\* calibrated for has passed, however the steps of the calibration fall between
\* the ticks: lapic_calibrate_timer() starts the timer before it reads the HPET
\* and reads it after the sleep.
FullSlice == pending => pc = "user" /\ slice >= UsecTicks(QUANTUM_USEC)

\* The timer interrupts again and again, so that no process keeps the processor:
\* the calibration ends, and each interrupt leaves the timer armed.
KeepsTicking == []<>pending
=============================================================================
