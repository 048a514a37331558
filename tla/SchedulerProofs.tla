-------------------------- MODULE SchedulerProofs --------------------------
(***************************************************************************)
(* Proofs about the scheduler, for any number of process ids, any programs *)
(* and any number of creations and exits.                                  *)
(***************************************************************************)
EXTENDS Scheduler, TLAPS

\* The slots that matter: the live ones and, while the machine runs, the one
\* current_pid_index names, which an exit may have left past the end.
Slot(i) == i \in Pids /\ (i < processes.size \/ (Running /\ i = current_pid_index))

\* Every slot describes one process consistently.
SlotsConsistent ==
  \A i \in Pids : /\ processes.at[i].vm_space = processes.at[i].pid
                  /\ processes.at[i].registers.owner = processes.at[i].pid

\* UniquePids, extended to the slot past the end.
SlotsUnique ==
  /\ processes.size <= next_available_pid
  /\ \A i, j \in Pids :
       Slot(i) /\ Slot(j) =>
         /\ processes.at[i].pid < next_available_pid
         /\ processes.at[i].pid = processes.at[j].pid => i = j

\* Ids that have not been handed out yet have never run.
FreshIds ==
  \A p \in Pids : p >= next_available_pid => parked[p] = create_ec(p)

\* The index is in range while user code runs, and at most one past the end
\* while sys_exit waits for the timer.
IndexInRange ==
  Running => /\ current_pid_index <= processes.size
             /\ InUserCode => current_pid_index < processes.size

\* During boot nothing has run, and the first process is in slot 0.
BootState ==
  machine = "boot" =>
    /\ current_pid_index = 0
    /\ processes.size = next_available_pid

\* Until the first exit no saved context is inside the kernel.
NoKernelContext ==
  exited = {} => /\ \A i \in Pids : processes.at[i].registers.pc.at = "user"
                 /\ Running => cpu.ring = 3 /\ InUserCode

\* The timer interrupt is never lost: a running machine has an armed timer.
TimerArmed == Running => timer # "off"

\* The inductive invariant.
IInv ==
  /\ TypeOK
  /\ SlotsConsistent
  /\ SlotsUnique
  /\ FreshIds
  /\ IndexInRange
  /\ BootState
  /\ NoKernelContext
  /\ RunningIsCurrent
  /\ ResumesWhereParked
  /\ TimerArmed
-----------------------------------------------------------------------------
\* What C's % yields for a non-negative dividend: the index sched_reschedule()
\* computes is a valid one.
LEMMA ModRange ==
  \A a \in Nat : \A n \in Nat \ {0} : a % n \in 0 .. n - 1
OBVIOUS

\* The kernel's memmove does nothing when it should move down, so erase()
\* leaves the storage as it is and only lowers the size.
LEMMA EraseKeepsStorage ==
  ASSUME NEW v, NEW i \in Int
  PROVE  VecErase(v, i) = [at |-> v.at, size |-> v.size - 1]
BY DEF VecErase, memmove

\* A program counter stays in its set when the program moves on.
LEMMA AdvanceType ==
  ASSUME NEW r \in Registers, r.pc.at = "user"
  PROVE  /\ Advance(r) \in Registers
         /\ Advance(r).pc.at = "user"
         /\ Advance(r).owner = r.owner
<1>1. r.pc \in UserPc
  BY DEF Registers, UserPc, KernelPc
<1>2. (r.pc.n + 1) % UserPoints \in 0 .. UserPoints - 1
  <2>1. r.pc.n + 1 \in Nat
    BY <1>1, SchedAssumption DEF UserPc
  <2>2. QED
    BY Zenon, <2>1, ModRange, SchedAssumption
<1>3. QED
  BY <1>1, <1>2 DEF Advance, Registers, UserPc

\* A new process is well formed.
LEMMA NewSpaceType ==
  ASSUME NEW p \in Pids
  PROVE  /\ create_ec(p) \in Registers
         /\ NewSpace(p) \in ExecutionSpaces
<1>1. [at |-> "user", n |-> 0] \in UserPc
  BY SchedAssumption DEF UserPc
<1>2. create_ec(p) \in Registers
  BY <1>1 DEF create_ec, Registers
<1>3. QED
  BY <1>2 DEF NewSpace, ExecutionSpaces

\* The invariant holds before the first process is created.
LEMMA InitIInv == Init => IInv
<1> SUFFICES ASSUME Init PROVE IInv
  OBVIOUS
<1>1. 0 \in Pids
  BY SchedAssumption DEF Pids
<1>2. /\ Junk \in ExecutionSpaces
      /\ \A p \in Pids : create_ec(p) \in Registers
  BY <1>1, NewSpaceType DEF Junk
<1>3. /\ processes = [at |-> [i \in Pids |-> Junk], size |-> 0]
      /\ current_pid_index = 0
      /\ next_available_pid = 0
  BY DEF Init, sched_prepare, VecInit, Pids
<1>4. TypeOK
  <2>1. processes \in [at : [Pids -> ExecutionSpaces], size : 0 .. MAX_PIDS]
    BY <1>2, <1>3, SchedAssumption
  <2>2. cpu \in [registers : Registers, cr3 : Pids \cup {NoPid}, ring : {0, 3}]
    BY <1>1, <1>2 DEF Init
  <2>3. parked \in [Pids -> Registers]
    BY <1>2 DEF Init
  <2>4. /\ current_pid_index \in Pids
        /\ next_available_pid \in 0 .. MAX_PIDS
        /\ creates \in 0 .. MaxCreates
    BY <1>1, <1>3, SchedAssumption DEF Init
  <2>5. QED
    BY Zenon, <2>1, <2>2, <2>3, <2>4 DEF Init, TypeOK
<1>5. SlotsConsistent /\ SlotsUnique /\ NoKernelContext
  <2>1. \A i \in Pids : processes.at[i] = NewSpace(0)
    BY <1>3 DEF Junk
  <2>2. SlotsConsistent
    BY <2>1 DEF SlotsConsistent, NewSpace, create_ec
  <2>3. SlotsUnique
    BY <1>3 DEF Init, SlotsUnique, Slot, Running, Pids
  <2>4. NoKernelContext
    BY <2>1 DEF Init, NoKernelContext, Running, NewSpace, create_ec
  <2>5. QED
    BY <2>2, <2>3, <2>4
<1>6. FreshIds /\ IndexInRange /\ BootState /\ RunningIsCurrent /\ TimerArmed
  BY <1>3 DEF Init, FreshIds, IndexInRange, BootState, RunningIsCurrent,
              TimerArmed, Running
<1>7. ResumesWhereParked
  BY <1>3 DEF ResumesWhereParked, VecLive
<1>8. QED
  BY <1>4, <1>5, <1>6, <1>7 DEF IInv
-----------------------------------------------------------------------------
\* The registers and the page map on the CPU are well typed.
CpuType == [registers : Registers, cr3 : Pids \cup {NoPid}, ring : {0, 3}]

\* Steps that leave the list alone and run user code: the invariant only
\* depends on the owner of the registers and on the kind of program counter.
LEMMA UserCodeKeepsIInv ==
  ASSUME IInv, Running, InUserCode,
         cpu' \in CpuType,
         cpu'.registers = Advance(cpu.registers),
         cpu'.cr3 = cpu.cr3,
         cpu.ring = 3 => cpu'.ring = 3,
         UNCHANGED <<processes, current_pid_index, next_available_pid, timer,
                     machine, exited, parked, exitPanic, creates, capabilities>>
  PROVE  IInv'
<1>1. cpu.registers \in Registers /\ cpu.registers.pc.at = "user"
  BY DEF IInv, TypeOK, CpuType, InUserCode
<1>2. /\ cpu'.registers.owner = cpu.registers.owner
      /\ cpu'.registers.pc.at = "user"
  BY <1>1, AdvanceType
<1>3. TypeOK'
  BY DEF IInv, TypeOK, CpuType
<1>4. (SlotsConsistent /\ SlotsUnique /\ FreshIds /\ BootState)'
  BY DEF IInv, SlotsConsistent, SlotsUnique, FreshIds, BootState, Slot, Running
<1>5. (IndexInRange /\ NoKernelContext)'
  BY <1>2 DEF IInv, IndexInRange, NoKernelContext, Running, InUserCode
<1>6. (RunningIsCurrent /\ ResumesWhereParked /\ TimerArmed)'
  BY <1>2 DEF IInv, RunningIsCurrent, ResumesWhereParked, TimerArmed, Running
<1>7. QED
  BY <1>3, <1>4, <1>5, <1>6 DEF IInv

\* A step of a user program preserves the invariant.
LEMMA UserStepIInv == IInv /\ UserStep => IInv'
<1> SUFFICES ASSUME IInv, UserStep PROVE IInv'
  OBVIOUS
<1>1. cpu \in CpuType
  BY DEF IInv, TypeOK, CpuType
<1>2. cpu.registers \in Registers /\ cpu.registers.pc.at = "user"
  BY <1>1 DEF UserStep, InUserCode, CpuType
<1>3. Advance(cpu.registers) \in Registers
  BY <1>2, AdvanceType
<1>4. cpu' = [cpu EXCEPT !.registers = Advance(cpu.registers)]
  BY DEF UserStep
<1>5. /\ cpu' \in CpuType
      /\ cpu'.registers = Advance(cpu.registers)
      /\ cpu'.cr3 = cpu.cr3
      /\ cpu'.ring = cpu.ring
  BY <1>1, <1>3, <1>4 DEF CpuType
<1>6. Running /\ InUserCode
  BY DEF UserStep, CanExecute, IInv, TypeOK
<1>7. QED
  BY <1>5, <1>6, UserCodeKeepsIInv DEF UserStep

\* What sysret leaves on the CPU.
LEMMA SysretCpu ==
  ASSUME IInv, InUserCode, Sysret
  PROVE  /\ cpu' \in CpuType
         /\ cpu'.registers = Advance(cpu.registers)
         /\ cpu'.registers.owner = cpu.registers.owner
         /\ cpu'.registers.pc.at = "user"
         /\ cpu'.cr3 = cpu.cr3
         /\ cpu'.ring = 3
<1>1. cpu \in CpuType
  BY DEF IInv, TypeOK, CpuType
<1>2. cpu.registers \in Registers /\ cpu.registers.pc.at = "user"
  BY <1>1 DEF InUserCode, CpuType
<1>3. /\ Advance(cpu.registers) \in Registers
      /\ Advance(cpu.registers).owner = cpu.registers.owner
      /\ Advance(cpu.registers).pc.at = "user"
  BY <1>2, AdvanceType
<1>4. cpu' = [cpu EXCEPT !.registers = Advance(cpu.registers), !.ring = 3]
  BY DEF Sysret
<1>5. QED
  BY Zenon, <1>1, <1>3, <1>4 DEF CpuType

\* So does a system call that leaves the process list alone.
LEMMA OtherSyscallIInv == IInv /\ OtherSyscall => IInv'
<1> SUFFICES ASSUME IInv, OtherSyscall PROVE IInv'
  OBVIOUS
<1>1. Running /\ InUserCode /\ Sysret
  BY DEF OtherSyscall, EnterSyscall, CanExecute
<1>2. QED
  BY <1>1, SysretCpu, UserCodeKeepsIInv DEF OtherSyscall
-----------------------------------------------------------------------------
\* What pushing the next process id does to the list, in boot or in a system
\* call: the new slot is the one at index "size", and it is fresh.
LEMMA EnqueueFacts ==
  ASSUME IInv, next_available_pid < MAX_PIDS, sched_enqueue(next_available_pid)
  PROVE  /\ next_available_pid \in Pids
         /\ processes.size \in Pids
         /\ processes'.size = processes.size + 1
         /\ processes' \in [at : [Pids -> ExecutionSpaces], size : 0 .. MAX_PIDS]
         /\ processes'.at[processes.size] = NewSpace(next_available_pid)
         /\ \A i \in Pids : i # processes.size => processes'.at[i] = processes.at[i]
<1>1. /\ processes.size \in Nat
      /\ processes.size <= next_available_pid
      /\ next_available_pid \in Nat
      /\ processes.at \in [Pids -> ExecutionSpaces]
  BY DEF IInv, TypeOK, SlotsUnique
<1>2. next_available_pid \in Pids /\ processes.size \in Pids
  BY <1>1, SchedAssumption DEF Pids
<1>3. NewSpace(next_available_pid) \in ExecutionSpaces
  BY <1>2, NewSpaceType
<1>4. processes' = [at   |-> [processes.at EXCEPT
                                ![processes.size] = NewSpace(next_available_pid)],
                    size |-> processes.size + 1]
  BY DEF sched_enqueue, VecPush
<1>5. processes.size + 1 \in 0 .. MAX_PIDS
  BY <1>2, SchedAssumption DEF Pids
<1>6. QED
  BY <1>1, <1>2, <1>3, <1>4, <1>5

\* The parts of the invariant that only speak of the list, after a push.
LEMMA EnqueueKeepsSlots ==
  ASSUME IInv, next_available_pid < MAX_PIDS,
         sched_enqueue(next_available_pid), AllocatePid,
         Running => InUserCode,
         UNCHANGED <<current_pid_index, machine, parked, exited>>
  PROVE  (SlotsConsistent /\ SlotsUnique /\ FreshIds /\ ResumesWhereParked)'
<1> DEFINE n == next_available_pid
           sz == processes.size
<1>1. /\ n \in Pids /\ sz \in Pids
      /\ processes'.size = sz + 1
      /\ processes'.at[sz] = NewSpace(n)
      /\ \A i \in Pids : i # sz => processes'.at[i] = processes.at[i]
      /\ next_available_pid' = n + 1
  BY EnqueueFacts DEF AllocatePid
<1>2. sz <= n /\ (Running => current_pid_index < sz)
  BY DEF IInv, SlotsUnique, IndexInRange
<1>3. \A i \in Pids : Slot(i)' => Slot(i) \/ i = sz
  BY <1>1, <1>2 DEF Slot, Running, Pids
<1>4. processes'.at[sz].pid = n
  BY <1>1 DEF NewSpace
<1>5. SlotsConsistent'
  BY <1>1, SchedAssumption DEF IInv, SlotsConsistent, NewSpace, create_ec
<1>6. SlotsUnique'
  <2>1. processes'.size <= next_available_pid'
    BY <1>1, <1>2 DEF Pids
  <2>2. ASSUME NEW i \in Pids, NEW j \in Pids, Slot(i)', Slot(j)'
        PROVE  /\ processes'.at[i].pid < next_available_pid'
               /\ processes'.at[i].pid = processes'.at[j].pid => i = j
    <3>1. \A k \in Pids : Slot(k) => processes.at[k].pid < n
      BY DEF IInv, SlotsUnique
    <3>2. \A k \in Pids : processes.at[k].pid \in Pids
      BY DEF IInv, TypeOK, ExecutionSpaces
    <3>3. processes'.at[i].pid \in Pids /\ processes'.at[j].pid \in Pids
      BY <1>1, <1>4, <3>2
    <3>4. processes'.at[i].pid <= n
      BY <1>1, <1>3, <1>4, <2>2, <3>1, <3>2 DEF Pids
    <3>5. ASSUME i # sz, j # sz PROVE processes'.at[i].pid = processes'.at[j].pid => i = j
      BY <1>1, <1>3, <2>2, <3>5 DEF IInv, SlotsUnique
    <3>6. ASSUME i = sz, j # sz PROVE processes'.at[i].pid # processes'.at[j].pid
      BY <1>1, <1>3, <1>4, <2>2, <3>1, <3>2, <3>6 DEF Pids
    <3>7. ASSUME i # sz, j = sz PROVE processes'.at[i].pid # processes'.at[j].pid
      BY <1>1, <1>3, <1>4, <2>2, <3>1, <3>2, <3>7 DEF Pids
    <3>8. QED
      BY <1>1, <3>3, <3>4, <3>5, <3>6, <3>7 DEF Pids
  <2>3. QED
    BY <2>1, <2>2 DEF SlotsUnique
<1>7. FreshIds'
  BY <1>1 DEF IInv, FreshIds, Pids
<1>8. ResumesWhereParked'
  <2> SUFFICES ASSUME NEW i \in VecLive(processes')
               PROVE  processes'.at[i].registers = parked'[processes'.at[i].pid]
    BY DEF ResumesWhereParked
  <2>1. i \in Pids /\ i \in Int
    BY <1>1, SchedAssumption DEF VecLive, Pids
  <2>2. CASE i = sz
    <3>1. parked[n] = create_ec(n)
      BY <1>1 DEF IInv, FreshIds, Pids
    <3>2. processes'.at[i].registers = create_ec(n)
      BY <1>1, <2>2 DEF NewSpace
    <3>3. QED
      BY <1>4, <2>2, <3>1, <3>2
  <2>3. CASE i # sz
    <3>1. i \in VecLive(processes)
      BY <1>1, <2>1, <2>3 DEF VecLive, Pids
    <3>2. processes.at[i].registers = parked[processes.at[i].pid]
      BY <3>1 DEF IInv, ResumesWhereParked
    <3>3. QED
      BY <1>1, <2>1, <2>3, <3>2
  <2>4. QED
    BY <2>2, <2>3
<1>9. QED
  BY <1>5, <1>6, <1>7, <1>8

\* A new process has no kernel context.
LEMMA EnqueueUserContext ==
  ASSUME IInv, next_available_pid < MAX_PIDS,
         sched_enqueue(next_available_pid), exited' = exited
  PROVE  (exited = {} => \A i \in Pids : processes.at[i].registers.pc.at = "user")'
<1>1. /\ processes.size \in Pids
      /\ processes'.at[processes.size] = NewSpace(next_available_pid)
      /\ \A i \in Pids : i # processes.size => processes'.at[i] = processes.at[i]
  BY EnqueueFacts
<1>2. NewSpace(next_available_pid).registers.pc.at = "user"
  BY DEF NewSpace, create_ec
<1>3. QED
  BY <1>1, <1>2 DEF IInv, NoKernelContext

\* kern_main() fills slot 0 and takes id 0.
LEMMA EnqueueInitIInv == IInv /\ EnqueueInit => IInv'
<1> SUFFICES ASSUME IInv, EnqueueInit PROVE IInv'
  OBVIOUS
<1>1. /\ machine = "boot" /\ next_available_pid = 0
      /\ sched_enqueue(next_available_pid) /\ AllocatePid
      /\ next_available_pid' = 1
      /\ UNCHANGED <<current_pid_index, cpu, timer, machine, exited,
                     parked, exitPanic, creates, capabilities>>
  BY DEF EnqueueInit, AllocatePid
<1>2. next_available_pid < MAX_PIDS /\ ~Running
  BY <1>1, SchedAssumption DEF Running
<1>3. (SlotsConsistent /\ SlotsUnique /\ FreshIds /\ ResumesWhereParked)'
  BY <1>1, <1>2, EnqueueKeepsSlots
<1>4. TypeOK'
  <2>1. processes' \in [at : [Pids -> ExecutionSpaces], size : 0 .. MAX_PIDS]
    BY <1>1, <1>2, EnqueueFacts
  <2>2. next_available_pid' \in 0 .. MAX_PIDS
    BY <1>1, SchedAssumption
  <2>3. QED
    BY <1>1, <2>1, <2>2 DEF IInv, TypeOK
<1>5. (IndexInRange /\ RunningIsCurrent /\ TimerArmed)'
  BY <1>1 DEF IndexInRange, RunningIsCurrent, TimerArmed, Running
<1>6. BootState'
  BY <1>1, <1>2, EnqueueFacts DEF IInv, BootState
<1>7. NoKernelContext'
  BY <1>1, <1>2, EnqueueUserContext DEF NoKernelContext, Running
<1>8. QED
  BY <1>3, <1>4, <1>5, <1>6, <1>7 DEF IInv

\* sched_begin_work() starts the process in slot 0, which the index names.
LEMMA BeginWorkIInv == IInv /\ sched_begin_work => IInv'
<1> SUFFICES ASSUME IInv, sched_begin_work PROVE IInv'
  OBVIOUS
<1> DEFINE es == processes.at[0]
<1>1. /\ machine = "boot" /\ machine' = "running" /\ timer' = "quantum"
      /\ next_available_pid > 0
      /\ cpu' = [registers |-> es.registers, cr3 |-> es.vm_space, ring |-> 3]
      /\ UNCHANGED <<processes, current_pid_index, next_available_pid,
                     exited, parked, exitPanic, creates, capabilities>>
  BY DEF sched_begin_work, VecGet
<1>2. /\ current_pid_index = 0
      /\ processes.size = next_available_pid
      /\ processes.size \in Nat
      /\ next_available_pid \in Nat
  BY <1>1 DEF IInv, BootState, TypeOK
<1>3. 0 \in Pids /\ es \in ExecutionSpaces
  BY SchedAssumption DEF Pids, IInv, TypeOK
<1>4. cpu' \in CpuType
  BY <1>1, <1>3 DEF ExecutionSpaces, CpuType
<1>5. TypeOK'
  BY <1>1, <1>4 DEF IInv, TypeOK, CpuType
<1>6. \A i \in Pids : Slot(i)' => Slot(i)
  BY <1>1, <1>2 DEF Slot, Running
<1>7. (SlotsConsistent /\ FreshIds)'
  BY <1>1 DEF IInv, SlotsConsistent, FreshIds
<1>8. SlotsUnique'
  BY <1>1, <1>6 DEF IInv, SlotsUnique
<1>9. IndexInRange'
  BY <1>1, <1>2 DEF IndexInRange
<1>10. BootState' /\ TimerArmed'
  BY <1>1 DEF BootState, TimerArmed
<1>11. NoKernelContext'
  BY <1>1, <1>3 DEF IInv, NoKernelContext, InUserCode
<1>12. RunningIsCurrent'
  BY <1>1, <1>2, <1>3 DEF IInv, RunningIsCurrent, SlotsConsistent
<1>13. ResumesWhereParked'
  BY <1>1 DEF IInv, ResumesWhereParked, Running
<1>14. QED
  BY <1>5, <1>7, <1>8, <1>9, <1>10, <1>11, <1>12, <1>13 DEF IInv

\* A step that stops the machine: only the id counter may still move, and then
\* up.
LEMMA HaltKeepsIInv ==
  ASSUME IInv, machine' = "halted",
         next_available_pid' \in next_available_pid .. MAX_PIDS,
         timer' \in {"off", "quantum", "now"},
         creates' \in 0 .. MaxCreates,
         UNCHANGED <<processes, current_pid_index, cpu, exited, parked, exitPanic,
                     capabilities>>
  PROVE  IInv'
<1>1. /\ next_available_pid \in 0 .. MAX_PIDS
      /\ next_available_pid' \in 0 .. MAX_PIDS
      /\ next_available_pid' >= next_available_pid
  BY SchedAssumption DEF IInv, TypeOK
<1>2. TypeOK'
  BY <1>1 DEF IInv, TypeOK
<1>3. ~Running'
  BY DEF Running
<1>4. /\ processes \in [at : [Pids -> ExecutionSpaces], size : 0 .. MAX_PIDS]
      /\ \A i \in Pids : processes.at[i].pid \in Pids
  BY DEF IInv, TypeOK, ExecutionSpaces
<1>5. SlotsConsistent' /\ FreshIds'
  BY <1>1, SchedAssumption DEF IInv, SlotsConsistent, FreshIds, Pids
<1>6. SlotsUnique'
  <2>1. \A i \in Pids : Slot(i)' => Slot(i)
    BY <1>3 DEF Slot
  <2>2. QED
    BY <1>1, <1>4, <2>1, SchedAssumption DEF IInv, SlotsUnique, Pids
<1>7. (IndexInRange /\ BootState /\ NoKernelContext)'
  BY <1>3 DEF IInv, IndexInRange, BootState, NoKernelContext
<1>8. (RunningIsCurrent /\ ResumesWhereParked /\ TimerArmed)'
  BY <1>3 DEF IInv, RunningIsCurrent, ResumesWhereParked, TimerArmed
<1>9. QED
  BY <1>2, <1>5, <1>6, <1>7, <1>8 DEF IInv

\* sys_create_process() appends a fresh id, past the slot the index names.
LEMMA CreateIInv ==
  ASSUME NEW ok \in BOOLEAN, IInv, sys_create_process(ok)
  PROVE  IInv'
<1>1. /\ Running /\ InUserCode
      /\ creates < MaxCreates /\ creates' = creates + 1
      /\ UNCHANGED <<current_pid_index, timer, exited, parked, exitPanic, capabilities>>
  BY DEF sys_create_process, EnterSyscall, CanExecute
<1>2. creates' \in 0 .. MaxCreates
  BY <1>1, SchedAssumption DEF IInv, TypeOK, Registers
<1>3. CASE PidsExhausted \/ capabilities = "NULL"
  <2>1. machine' = "halted" /\ UNCHANGED <<processes, cpu>>
    BY <1>3 DEF sys_create_process
  <2>2. next_available_pid' \in next_available_pid .. MAX_PIDS
    BY SchedAssumption DEF sys_create_process, PidsExhausted, AllocatePid,
                           IInv, TypeOK
  <2>3. timer' \in {"off", "quantum", "now"}
    BY <1>1 DEF IInv, TypeOK
  <2>4. QED
    BY <1>1, <1>2, <2>1, <2>2, <2>3, HaltKeepsIInv
<1>4. CASE ~PidsExhausted /\ capabilities # "NULL"
  <2>0. next_available_pid < MAX_PIDS
    BY <1>4, SchedAssumption DEF PidsExhausted, IInv, TypeOK
  <2>1. /\ AllocatePid /\ Sysret /\ machine' = machine
        /\ IF ok THEN sched_enqueue(next_available_pid) ELSE UNCHANGED processes
    BY <1>4 DEF sys_create_process
  <2>2. /\ cpu' \in CpuType
        /\ cpu'.registers.owner = cpu.registers.owner
        /\ cpu'.registers.pc.at = "user"
        /\ cpu'.cr3 = cpu.cr3
        /\ cpu'.ring = 3
    BY <1>1, <2>1, SysretCpu
  <2>3. /\ next_available_pid \in Nat
        /\ next_available_pid' = next_available_pid + 1
        /\ next_available_pid' \in 0 .. MAX_PIDS
    BY <2>0, <2>1, SchedAssumption DEF AllocatePid, IInv, TypeOK
  <2>4. Running' /\ BootState' /\ TimerArmed'
    BY <1>1, <2>1 DEF Running, BootState, TimerArmed, IInv
  <2>5. current_pid_index < processes.size /\ current_pid_index \in Pids
    BY <1>1 DEF IInv, IndexInRange, TypeOK
  <2>6. CASE ok
    <3>1. sched_enqueue(next_available_pid)
      BY <2>1, <2>6
    <3>2. (SlotsConsistent /\ SlotsUnique /\ FreshIds /\ ResumesWhereParked)'
      BY <1>1, <2>0, <2>1, <3>1, EnqueueKeepsSlots
    <3>3. /\ processes' \in [at : [Pids -> ExecutionSpaces], size : 0 .. MAX_PIDS]
          /\ processes.size \in Pids
          /\ processes'.size = processes.size + 1
          /\ processes'.at[current_pid_index] = processes.at[current_pid_index]
      BY <2>0, <2>5, <3>1, EnqueueFacts DEF Pids
    <3>4. TypeOK'
      BY <1>1, <1>2, <2>1, <2>2, <2>3, <3>3 DEF IInv, TypeOK, CpuType
    <3>5. IndexInRange'
      BY <1>1, <2>5, <3>3 DEF IndexInRange, Pids
    <3>6. RunningIsCurrent'
      BY <1>1, <2>2, <3>3 DEF IInv, RunningIsCurrent
    <3>7. NoKernelContext'
      BY <1>1, <2>0, <2>2, <3>1, EnqueueUserContext DEF NoKernelContext, InUserCode
    <3>8. QED
      BY <2>4, <3>2, <3>4, <3>5, <3>6, <3>7 DEF IInv
  <2>7. CASE ~ok
    <3>1. UNCHANGED processes
      BY <2>1, <2>7
    <3>2. TypeOK'
      BY <1>1, <1>2, <2>1, <2>2, <2>3, <3>1 DEF IInv, TypeOK, CpuType
    <3>3. (SlotsConsistent /\ ResumesWhereParked)'
      BY <1>1, <3>1 DEF IInv, SlotsConsistent, ResumesWhereParked
    <3>4. SlotsUnique'
      <4>1. \A i \in Pids : Slot(i)' <=> Slot(i)
        BY <1>1, <2>1, <3>1 DEF Slot, Running
      <4>2. \A i \in Pids : processes.at[i].pid \in Pids
        BY DEF IInv, TypeOK, ExecutionSpaces
      <4>3. processes.size \in Nat
        BY DEF IInv, TypeOK
      <4>4. QED
        BY <2>3, <3>1, <4>1, <4>2, <4>3 DEF IInv, SlotsUnique, Pids
    <3>5. FreshIds'
      BY <1>1, <2>3 DEF IInv, FreshIds, Pids
    <3>6. (IndexInRange /\ RunningIsCurrent /\ NoKernelContext)'
      BY <1>1, <2>2, <3>1 DEF IInv, IndexInRange, RunningIsCurrent,
                              NoKernelContext, InUserCode, Running
    <3>7. QED
      BY <2>4, <3>2, <3>3, <3>4, <3>5, <3>6 DEF IInv
  <2>8. QED
    BY <2>6, <2>7
<1>5. QED
  BY <1>3, <1>4

\* timer_irq() saves into the slot of the running process only, and the index
\* it steps to is a live one.
LEMMA TimerIrqIInv == IInv /\ timer_irq => IInv'
<1> SUFFICES ASSUME IInv, timer_irq PROVE IInv'
  OBVIOUS
<1>1. /\ Running
      /\ UNCHANGED <<next_available_pid, exited, exitPanic, creates, capabilities>>
  BY DEF timer_irq, CanExecute
<1>2. CASE processes.size = 0
  <2>1. /\ machine' = "halted" /\ timer' = "off"
        /\ UNCHANGED <<processes, current_pid_index, cpu, parked>>
    BY <1>2 DEF timer_irq
  <2>2. /\ next_available_pid' \in next_available_pid .. MAX_PIDS
        /\ creates' \in 0 .. MaxCreates
    BY <1>1, SchedAssumption DEF IInv, TypeOK
  <2>3. QED
    BY <1>1, <2>1, <2>2, HaltKeepsIInv
<1>3. CASE processes.size # 0
  <2> DEFINE cur   == current_pid_index
             idx   == (cur + 1) % processes.size
             saved == [processes EXCEPT !.at[cur].registers = cpu.registers]
             nxt   == saved.at[idx]
  <2>1. /\ processes' = saved
        /\ current_pid_index' = idx
        /\ cpu' = [cpu EXCEPT !.registers = nxt.registers, !.cr3 = nxt.vm_space]
        /\ parked' = [parked EXCEPT ![cpu.registers.owner] = cpu.registers]
        /\ timer' = "quantum" /\ machine' = machine
    BY <1>3 DEF timer_irq, sched_reschedule, VecGet
  <2>2. /\ processes \in [at : [Pids -> ExecutionSpaces], size : 0 .. MAX_PIDS]
        /\ cur \in Pids
        /\ cpu \in CpuType
        /\ cpu.registers \in Registers
        /\ cpu.registers.owner = processes.at[cur].pid
        /\ parked \in [Pids -> Registers]
    BY <1>1 DEF IInv, TypeOK, CpuType, RunningIsCurrent
  <2>3. idx \in 0 .. processes.size - 1 /\ idx \in Pids
    <3>1. processes.size \in Nat \ {0} /\ processes.size <= MAX_PIDS /\ cur + 1 \in Nat
      BY <1>3, <2>2, SchedAssumption DEF Pids
    <3>2. idx \in 0 .. processes.size - 1
      BY <3>1, ModRange
    <3>3. QED
      BY <3>1, <3>2, SchedAssumption DEF Pids
  <2>4. /\ saved \in [at : [Pids -> ExecutionSpaces], size : 0 .. MAX_PIDS]
        /\ saved.size = processes.size
        /\ saved.at[cur].pid = processes.at[cur].pid
        /\ saved.at[cur].vm_space = processes.at[cur].vm_space
        /\ saved.at[cur].registers = cpu.registers
        /\ \A i \in Pids : i # cur => saved.at[i] = processes.at[i]
    BY <2>2 DEF ExecutionSpaces
  <2>5. \A i \in Pids : saved.at[i].pid = processes.at[i].pid
    BY <2>4
  <2>6. nxt \in ExecutionSpaces
    BY <2>3, <2>4
  <2>7. /\ cpu' \in CpuType
        /\ cpu'.registers = nxt.registers
        /\ cpu'.cr3 = nxt.vm_space
        /\ cpu'.ring = cpu.ring
    BY Zenon, <2>1, <2>2, <2>6 DEF CpuType, ExecutionSpaces
  <2>8. TypeOK'
    <3>1. parked' \in [Pids -> Registers]
      BY <2>1, <2>2 DEF Registers
    <3>2. QED
      BY <1>1, <2>1, <2>3, <2>4, <2>7, <3>1 DEF IInv, TypeOK, CpuType
  <2>9. SlotsConsistent'
    BY <2>1, <2>2, <2>4 DEF IInv, SlotsConsistent
  <2>10. \A i \in Pids : Slot(i)' => Slot(i)
    BY <1>1, <2>1, <2>3, <2>4 DEF Slot, Running
  <2>11. SlotsUnique'
    BY <1>1, <2>1, <2>4, <2>5, <2>10 DEF IInv, SlotsUnique
  <2>12. FreshIds'
    <3>1. Slot(cur) /\ processes.at[cur].pid < next_available_pid
      BY <1>1, <2>2 DEF Slot, IInv, SlotsUnique
    <3>2. cpu.registers.owner < next_available_pid /\ cpu.registers.owner \in Pids
      BY <2>2, <3>1 DEF Registers
    <3>3. next_available_pid \in Nat
      BY DEF IInv, TypeOK
    <3>4. \A p \in Pids : p >= next_available_pid => parked'[p] = parked[p]
      BY <2>1, <2>2, <3>2, <3>3 DEF Pids
    <3>5. QED
      BY <1>1, <3>4 DEF IInv, FreshIds
  <2>13. ResumesWhereParked'
    <3> SUFFICES ASSUME NEW i \in VecLive(saved)
                 PROVE  saved.at[i].registers = parked'[saved.at[i].pid]
      BY <2>1 DEF ResumesWhereParked
    <3>1. i \in Pids /\ i < processes.size /\ i \in VecLive(processes)
      BY <2>2, <2>4, SchedAssumption DEF VecLive, Pids
    <3>2. Slot(i) /\ Slot(cur)
      BY <1>1, <2>2, <3>1 DEF Slot
    <3>3. CASE i = cur
      BY <2>1, <2>2, <2>4, <3>3 DEF Registers
    <3>4. CASE i # cur
      <4>1. processes.at[i].pid # processes.at[cur].pid
        BY <2>2, <3>1, <3>2, <3>4 DEF IInv, SlotsUnique
      <4>2. saved.at[i] = processes.at[i] /\ processes.at[i].pid \in Pids
        BY <2>2, <2>4, <3>1, <3>4 DEF ExecutionSpaces
      <4>3. parked'[processes.at[i].pid] = parked[processes.at[i].pid]
        BY <2>1, <2>2, <4>1, <4>2
      <4>4. processes.at[i].registers = parked[processes.at[i].pid]
        BY <3>1 DEF IInv, ResumesWhereParked
      <4>5. QED
        BY Zenon, <4>2, <4>3, <4>4
    <3>5. QED
      BY <3>3, <3>4
  <2>14. IndexInRange'
    BY <2>1, <2>2, <2>3, <2>4 DEF IndexInRange
  <2>15. BootState' /\ TimerArmed'
    BY <1>1, <2>1 DEF BootState, TimerArmed, Running
  <2>16. NoKernelContext'
    BY <1>1, <2>1, <2>2, <2>3, <2>4, <2>7 DEF IInv, NoKernelContext, InUserCode, Running
  <2>17. RunningIsCurrent'
    BY <2>1, <2>3, <2>7, <2>9 DEF RunningIsCurrent, SlotsConsistent
  <2>18. QED
    BY <2>8, <2>9, <2>11, <2>12, <2>13, <2>14, <2>15, <2>16, <2>17 DEF IInv
<1>4. QED
  BY <1>2, <1>3

\* sys_exit() finds its process in the list: neither of its error branches is
\* taken, and only the size of the list changes.
LEMMA ExitEffect ==
  ASSUME IInv, sys_exit
  PROVE  /\ processes.size > 0
         /\ processes' = [at |-> processes.at, size |-> processes.size - 1]
         /\ cpu' = [cpu EXCEPT !.registers.pc = [at |-> "exit", n |-> 0],
                               !.ring = 0]
         /\ timer' = "now"
         /\ UNCHANGED machine
<1>1. Running /\ InUserCode
  BY DEF sys_exit, EnterSyscall, CanExecute
<1>2. /\ processes \in [at : [Pids -> ExecutionSpaces], size : 0 .. MAX_PIDS]
      /\ current_pid_index \in Pids
  BY DEF IInv, TypeOK
<1>3. current_pid_index < processes.size
  BY <1>1 DEF IInv, IndexInRange
<1>4. processes.size > 0 /\ current_pid_index \in VecLive(processes)
  BY <1>2, <1>3, SchedAssumption DEF Pids, VecLive
<1>5. VecGet(processes, current_pid_index).pid \in ListedPids
  BY <1>4 DEF ListedPids, VecGet
<1>6. /\ sched_dequeue(VecGet(processes, current_pid_index).pid)
      /\ cpu' = [cpu EXCEPT !.registers.pc = [at |-> "exit", n |-> 0], !.ring = 0]
      /\ timer' = "now"
      /\ UNCHANGED machine
  BY <1>4, <1>5 DEF sys_exit
<1>7. PICK i \in VecLive(processes) : processes' = VecErase(processes, i)
  BY <1>6 DEF sched_dequeue
<1>8. i \in Int
  BY <1>2 DEF VecLive
<1>9. QED
  BY <1>4, <1>6, <1>7, <1>8, EraseKeepsStorage

\* sys_exit() preserves the invariant: the index, which nobody adjusts, ends
\* at most one past the end of the shortened list.
LEMMA ExitIInv == IInv /\ sys_exit => IInv'
<1> SUFFICES ASSUME IInv, sys_exit PROVE IInv'
  OBVIOUS
<1>1. /\ Running /\ InUserCode
      /\ exited' = exited \cup {cpu.registers.owner}
      /\ UNCHANGED <<current_pid_index, next_available_pid, parked, exitPanic,
                     creates, capabilities>>
  BY DEF sys_exit, EnterSyscall, CanExecute
<1>2. /\ processes.size > 0
      /\ processes' = [at |-> processes.at, size |-> processes.size - 1]
      /\ cpu' = [cpu EXCEPT !.registers.pc = [at |-> "exit", n |-> 0], !.ring = 0]
      /\ timer' = "now"
      /\ UNCHANGED machine
  BY ExitEffect
<1>3. /\ processes \in [at : [Pids -> ExecutionSpaces], size : 0 .. MAX_PIDS]
      /\ current_pid_index \in Pids
      /\ cpu \in CpuType /\ cpu.registers \in Registers
      /\ next_available_pid \in 0 .. MAX_PIDS
      /\ exited \subseteq Pids
  BY DEF IInv, TypeOK, CpuType
<1>4. /\ processes'.at = processes.at
      /\ processes'.size = processes.size - 1
      /\ processes' \in [at : [Pids -> ExecutionSpaces], size : 0 .. MAX_PIDS]
  BY <1>2, <1>3, SchedAssumption
<1>5. /\ cpu' \in CpuType
      /\ cpu'.registers.owner = cpu.registers.owner
      /\ cpu'.registers.pc.at = "exit"
      /\ cpu'.cr3 = cpu.cr3
  <2>1. [at |-> "exit", n |-> 0] \in KernelPc
    BY DEF KernelPc
  <2>2. QED
    BY Zenon, <1>2, <1>3, <2>1 DEF CpuType, Registers
<1>6. TypeOK'
  <2>1. cpu.registers.owner \in Pids
    BY <1>3 DEF Registers
  <2>2. exited' \subseteq Pids
    BY <1>1, <1>3, <2>1
  <2>3. QED
    BY <1>1, <1>2, <1>4, <1>5, <2>2 DEF IInv, TypeOK, CpuType
<1>7. SlotsConsistent'
  BY <1>4 DEF IInv, SlotsConsistent
<1>8. \A i \in Pids : Slot(i)' => Slot(i)
  BY <1>1, <1>2, <1>3, <1>4, SchedAssumption DEF Slot, Running, Pids
<1>9. SlotsUnique'
  <2>1. processes'.size <= next_available_pid
    BY <1>3, <1>4 DEF IInv, SlotsUnique
  <2>2. QED
    BY <1>1, <1>4, <1>8, <2>1 DEF IInv, SlotsUnique
<1>10. FreshIds'
  BY <1>1 DEF IInv, FreshIds
<1>11. IndexInRange'
  <2>1. current_pid_index < processes.size
    BY <1>1 DEF IInv, IndexInRange
  <2>2. current_pid_index' <= processes'.size
    BY <1>1, <1>3, <1>4, <2>1, SchedAssumption DEF Pids
  <2>3. QED
    BY <1>5, <2>2 DEF IndexInRange, InUserCode
<1>12. BootState' /\ NoKernelContext' /\ TimerArmed'
  BY <1>1, <1>2 DEF BootState, NoKernelContext, TimerArmed, Running
<1>13. RunningIsCurrent'
  BY <1>1, <1>2, <1>4, <1>5 DEF IInv, RunningIsCurrent, Running
<1>14. ResumesWhereParked'
  <2>1. VecLive(processes') \subseteq VecLive(processes)
    BY <1>3, <1>4 DEF VecLive
  <2>2. QED
    BY <1>1, <1>4, <2>1 DEF IInv, ResumesWhereParked
<1>15. QED
  BY <1>6, <1>7, <1>9, <1>10, <1>11, <1>12, <1>13, <1>14 DEF IInv

\* The panic at the end of sys_exit() only moves the program counter.
LEMMA ExitPanicsIInv == IInv /\ ExitPanics => IInv'
<1> SUFFICES ASSUME IInv, ExitPanics PROVE IInv'
  OBVIOUS
<1>1. /\ Running /\ ~InUserCode
      /\ cpu.registers.pc.at = "exit"
      /\ cpu' = [cpu EXCEPT !.registers.pc.at = "hlt"]
      /\ exitPanic' = TRUE
      /\ UNCHANGED <<processes, current_pid_index, next_available_pid, timer,
                     machine, exited, parked, creates, capabilities>>
  BY DEF ExitPanics, CanExecute, InUserCode
<1>2. cpu \in CpuType /\ cpu.registers \in Registers
  BY DEF IInv, TypeOK, CpuType
<1>3. cpu.registers.pc \in KernelPc
  BY <1>1, <1>2 DEF Registers, UserPc, KernelPc
<1>4. /\ cpu' \in CpuType
      /\ cpu'.registers.owner = cpu.registers.owner
      /\ cpu'.registers.pc.at = "hlt"
      /\ cpu'.cr3 = cpu.cr3
  BY <1>1, <1>2, <1>3 DEF CpuType, Registers, KernelPc
<1>5. TypeOK'
  BY <1>1, <1>4 DEF IInv, TypeOK, CpuType
<1>6. (SlotsConsistent /\ SlotsUnique /\ FreshIds)'
  BY <1>1 DEF IInv, SlotsConsistent, SlotsUnique, FreshIds, Slot, Running
<1>7. (IndexInRange /\ BootState /\ TimerArmed)'
  BY <1>1, <1>4 DEF IInv, IndexInRange, BootState, TimerArmed, InUserCode, Running
<1>8. NoKernelContext'
  BY <1>1 DEF IInv, NoKernelContext
<1>9. (RunningIsCurrent /\ ResumesWhereParked)'
  BY <1>1, <1>4 DEF IInv, RunningIsCurrent, ResumesWhereParked, Running
<1>10. QED
  BY <1>5, <1>6, <1>7, <1>8, <1>9 DEF IInv

\* The faults and a failing boot only stop the machine.
LEMMA FaultsIInv == IInv /\ (BootPanics \/ ExitCrashes \/ PageFault) => IInv'
<1> SUFFICES ASSUME IInv, BootPanics \/ ExitCrashes \/ PageFault PROVE IInv'
  OBVIOUS
<1>1. /\ machine' = "halted"
      /\ UNCHANGED <<processes, current_pid_index, next_available_pid, cpu,
                     timer, exited, parked, exitPanic, creates, capabilities>>
  BY DEF BootPanics, ExitCrashes, PageFault
<1>2. /\ timer' \in {"off", "quantum", "now"}
      /\ next_available_pid' \in next_available_pid .. MAX_PIDS
      /\ creates' \in 0 .. MaxCreates
  BY <1>1, SchedAssumption DEF IInv, TypeOK
<1>3. QED
  BY <1>1, <1>2, HaltKeepsIInv

\* A step that changes nothing.
LEMMA StutterIInv == IInv /\ UNCHANGED vars => IInv'
<1> SUFFICES ASSUME IInv, UNCHANGED vars PROVE IInv'
  OBVIOUS
<1>1. TypeOK'
  BY DEF vars, IInv, TypeOK
<1>2. (SlotsConsistent /\ SlotsUnique /\ FreshIds)'
  BY DEF vars, IInv, SlotsConsistent, SlotsUnique, FreshIds, Slot, Running
<1>3. (IndexInRange /\ BootState /\ NoKernelContext)'
  BY Zenon DEF vars, IInv, IndexInRange, BootState, NoKernelContext, InUserCode, Running
<1>4. (RunningIsCurrent /\ ResumesWhereParked /\ TimerArmed)'
  BY DEF vars, IInv, RunningIsCurrent, ResumesWhereParked, TimerArmed, Running
<1>5. QED
  BY <1>1, <1>2, <1>3, <1>4 DEF IInv

\* IInv is inductive: every action of the scheduler preserves it.
LEMMA NextIInv == IInv /\ [Next]_vars => IInv'
<1> SUFFICES ASSUME IInv, [Next]_vars PROVE IInv'
  OBVIOUS
<1>1. CASE EnqueueInit
  BY <1>1, EnqueueInitIInv
<1>2. CASE sched_begin_work
  BY <1>2, BeginWorkIInv
<1>3. CASE UserStep
  BY <1>3, UserStepIInv
<1>4. CASE OtherSyscall
  BY <1>4, OtherSyscallIInv
<1>5. CASE \E ok \in BOOLEAN : sys_create_process(ok)
  BY <1>5, CreateIInv
<1>6. CASE sys_exit
  BY <1>6, ExitIInv
<1>7. CASE timer_irq
  BY <1>7, TimerIrqIInv
<1>8. CASE ExitPanics
  BY <1>8, ExitPanicsIInv
<1>9. CASE BootPanics \/ ExitCrashes \/ PageFault
  BY <1>9, FaultsIInv
<1>10. CASE UNCHANGED vars
  BY <1>10, StutterIInv
<1>11. QED
  BY <1>1, <1>2, <1>3, <1>4, <1>5, <1>6, <1>7, <1>8, <1>9, <1>10 DEF Next
-----------------------------------------------------------------------------
\* IInv holds in every reachable state.
THEOREM SchedulerInvariant == Spec => []IInv
  BY InitIInv, NextIInv, PTL DEF Spec

\* Type correctness: the index, the id counter and the registers stay in their
\* ranges, in particular no process list operation runs off the storage.
THEOREM TypeCorrect == Spec => []TypeOK
<1>1. IInv => TypeOK
  BY DEF IInv
<1>2. QED
  BY <1>1, SchedulerInvariant, PTL

\* The slot sched_reschedule() saves into always belongs to the process on the
\* CPU, although sched_dequeue() removes another one and leaves the index.
THEOREM CurrentIsRunning == Spec => []RunningIsCurrent
<1>1. IInv => RunningIsCurrent
  BY DEF IInv
<1>2. QED
  BY <1>1, SchedulerInvariant, PTL

\* A process in the list resumes with exactly the registers it was preempted
\* with: timer_irq() saves and restores without mixing processes up.
THEOREM ContextPreserved == Spec => []ResumesWhereParked
<1>1. IInv => ResumesWhereParked
  BY DEF IInv
<1>2. QED
  BY <1>1, SchedulerInvariant, PTL

\* sched_allocate_pid() never hands out an id that is listed.
THEOREM PidsUnique == Spec => []UniquePids
<1>1. IInv => UniquePids
  <2> SUFFICES ASSUME IInv, NEW i \in VecLive(processes), NEW j \in VecLive(processes)
               PROVE  /\ processes.at[i].pid < next_available_pid
                      /\ processes.at[i].pid = processes.at[j].pid => i = j
    BY DEF UniquePids
  <2>1. processes.size \in 0 .. MAX_PIDS
    BY DEF IInv, TypeOK
  <2>2. Slot(i) /\ Slot(j) /\ i \in Pids /\ j \in Pids
    BY <2>1, SchedAssumption DEF Slot, VecLive, Pids
  <2>3. QED
    BY <2>2 DEF IInv, SlotsUnique
<1>2. QED
  BY <1>1, SchedulerInvariant, PTL

\* sys_exit() always finds the calling process in the list.
THEOREM ExitFindsProcess == Spec => []DequeueNeverFails
<1>1. IInv => DequeueNeverFails
  <2> SUFFICES ASSUME IInv, Running, InUserCode
               PROVE  Listed(current_pid_index) /\ cpu.registers.owner \in ListedPids
    BY DEF DequeueNeverFails
  <2>1. current_pid_index < processes.size
    BY DEF IInv, IndexInRange
  <2>2. current_pid_index \in VecLive(processes)
    BY <2>1, SchedAssumption DEF IInv, TypeOK, VecLive, Pids
  <2>3. processes.at[current_pid_index].pid = cpu.registers.owner
    BY DEF IInv, RunningIsCurrent
  <2>4. QED
    BY <2>2, <2>3 DEF Listed, ListedPids
<1>2. QED
  BY <1>1, SchedulerInvariant, PTL

\* Before the first exit every process runs in ring 3.
THEOREM UserRing == Spec => []RingThree
<1>1. IInv => RingThree
  BY DEF IInv, NoKernelContext, RingThree
<1>2. QED
  BY <1>1, SchedulerInvariant, PTL
\* Without capabilities no id is handed out after init's while the machine runs.
OneId == capabilities = "NULL" => machine = "halted" \/ next_available_pid <= 1

\* OneId is inductive: only sys_create_process() hands out an id once init is
\* listed, and then it stops the machine.
LEMMA NextOneId == IInv /\ OneId /\ [Next]_vars => OneId'
<1> SUFFICES ASSUME IInv, OneId, [Next]_vars PROVE OneId'
  OBVIOUS
<1>1. CASE EnqueueInit
  BY <1>1 DEF EnqueueInit, AllocatePid, OneId
<1>2. CASE \E ok \in BOOLEAN : sys_create_process(ok)
  BY Zenon, <1>2 DEF sys_create_process, OneId
<1>3. CASE BootPanics \/ ExitCrashes \/ PageFault
  BY <1>3 DEF BootPanics, ExitCrashes, PageFault, OneId
<1>4. CASE sched_begin_work
  BY <1>4 DEF sched_begin_work, OneId
<1>5. CASE UserStep \/ OtherSyscall \/ ExitPanics
  BY <1>5 DEF UserStep, OtherSyscall, ExitPanics, OneId
<1>6. CASE sys_exit
  BY <1>6, ExitEffect DEF sys_exit, OneId
<1>7. CASE timer_irq
  BY <1>7 DEF timer_irq, OneId
<1>8. CASE UNCHANGED vars
  BY <1>8 DEF vars, OneId
<1>9. QED
  BY <1>1, <1>2, <1>3, <1>4, <1>5, <1>6, <1>7, <1>8 DEF Next

\* The code as it is, with NULL for the capabilities, runs init and nothing
\* else: every other process that sys_create_process() starts on stops the
\* machine before it is listed.
THEOREM InitIsAlone == Spec => []OnlyInitRunsToday
<1>1. Init => OneId
  BY DEF Init, sched_prepare, OneId
<1>2. IInv /\ OneId => OnlyInitRunsToday
  <2> SUFFICES ASSUME IInv, OneId, capabilities = "NULL", Running
               PROVE  /\ cpu.registers.owner = 0
                      /\ ListedPids \subseteq {0}
                      /\ next_available_pid = 1
    BY DEF OnlyInitRunsToday
  <2>1. next_available_pid \in Nat /\ next_available_pid <= 1
    BY SchedAssumption DEF OneId, Running, IInv, TypeOK
  <2>2. \A i \in Pids : /\ processes.at[i].pid \in Nat
                        /\ Slot(i) => processes.at[i].pid < next_available_pid
    <3>1. \A i \in Pids : processes.at[i].pid \in Pids
      BY DEF IInv, TypeOK, ExecutionSpaces
    <3>2. Pids \subseteq Nat
      BY SchedAssumption DEF Pids
    <3>3. QED
      BY <3>1, <3>2 DEF IInv, SlotsUnique
  <2>3. \A i \in Pids : Slot(i) => processes.at[i].pid = 0 /\ next_available_pid = 1
    BY <2>1, <2>2
  <2>4. current_pid_index \in Pids /\ Slot(current_pid_index)
    BY DEF IInv, TypeOK, Slot
  <2>5. processes.at[current_pid_index].pid = cpu.registers.owner
    BY DEF IInv, RunningIsCurrent
  <2>6. \A i \in VecLive(processes) : i \in Pids /\ Slot(i)
    BY SchedAssumption DEF IInv, TypeOK, Slot, VecLive, Pids
  <2>7. ListedPids \subseteq {0}
    BY <2>3, <2>6 DEF ListedPids
  <2>8. QED
    BY <2>3, <2>4, <2>5, <2>7
<1>3. QED
  BY <1>1, <1>2, NextOneId, SchedulerInvariant, PTL DEF Spec
=============================================================================
