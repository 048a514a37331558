----------------------------- MODULE Scheduler -----------------------------
(***************************************************************************)
(* The round-robin scheduler of kernel/sched/scheduler.c together with the *)
(* code that drives it: the one-shot LAPIC timer interrupt                 *)
(* (arch/x86/sys/context_switch.c), process creation and sys_exit          *)
(* (abi/syscalls.c).  One CPU.  A system call runs with interrupts masked  *)
(* (IA32_FMASK), so it is one step, except for sys_exit, which turns       *)
(* interrupts back on before it has left the kernel.                       *)
(***************************************************************************)
EXTENDS Integers, FiniteSets, Vec

CONSTANTS
  MAX_PIDS,         \* scheduler.h: process ids are 0 .. MAX_PIDS - 1
  UserPoints,       \* bound: number of program points of a user program
  MaxCreates,       \* bound: calls of sys_create_process
  MaxExits          \* bound: calls of sys_exit

ASSUME SchedAssumption ==
  /\ MAX_PIDS \in Nat \ {0}
  /\ UserPoints \in Nat \ {0}
  /\ MaxCreates \in Nat
  /\ MaxExits \in Nat

VARIABLES
  processes,          \* vec(ExecutionSpace)
  current_pid_index,
  next_available_pid,
  cpu,                \* registers, address space and ring of the CPU
  timer,              \* the one-shot timer: "off", "quantum" or "now"
  machine,            \* "boot", "running" or "halted"
  exited,             \* history: processes that called sys_exit
  parked,             \* history: registers of each process when last preempted
  exitPanic,          \* history: some process ran the panic that ends sys_exit
  creates,            \* number of sys_create_process calls so far
  capabilities        \* what sys_create_process passes on, fixed for ever:
                      \* "NULL" in the code, "given" once its "TODO: argv,
                      \* capabilities" is done

vars == <<processes, current_pid_index, next_available_pid, cpu, timer,
          machine, exited, parked, exitPanic, creates, capabilities>>

Pids == 0 .. MAX_PIDS - 1
NoPid == -1

\* Program counters: a user program point, or one of the two places inside
\* sys_exit where the CPU runs with interrupts on: after sti, and in the
\* "for (;;) hlt" at the end of panic(), which does not mask interrupts.
UserPc == [at : {"user"}, n : 0 .. UserPoints - 1]
KernelPc == [at : {"exit", "hlt"}, n : {0}]
Registers == [owner : Pids, pc : UserPc \cup KernelPc]

\* create_ec(): a new process starts at its ELF entry point.
create_ec(pid) == [owner |-> pid, pc |-> [at |-> "user", n |-> 0]]

\* The fields of ExecutionSpace the scheduler uses.  Every process has an
\* address space of its own, named here by the process id.
ExecutionSpaces == [pid : Pids, registers : Registers, vm_space : Pids]
NewSpace(pid) == [pid |-> pid, registers |-> create_ec(pid), vm_space |-> pid]

\* Storage the vector has not written yet.
Junk == NewSpace(0)

Listed(i) == i \in VecLive(processes)
ListedPids == {processes.at[i].pid : i \in VecLive(processes)}
InUserCode == cpu.registers.pc.at = "user"
Running == machine = "running"

\* iretq went to a kernel address with the user code segment: the fetch
\* faults before anything else can happen.
FetchFaults == Running /\ cpu.ring = 3 /\ ~InUserCode
CanExecute == Running /\ ~FetchFaults

\* The running program moves on to some other point of its code.
Advance(r) == [r EXCEPT !.pc.n = (r.pc.n + 1) % UserPoints]

sched_prepare ==
  /\ processes = VecInit(MAX_PIDS, Junk)
  /\ current_pid_index = 0
  /\ next_available_pid = 0

Init ==
  /\ sched_prepare
  /\ cpu = [registers |-> create_ec(0), cr3 |-> NoPid, ring |-> 0]
  /\ timer = "off"
  /\ machine = "boot"
  /\ exited = {}
  /\ parked = [p \in Pids |-> create_ec(p)]
  /\ exitPanic = FALSE
  /\ creates = 0
  /\ capabilities \in {"NULL", "given"}

\* sched_allocate_pid(): panics at the limit, else takes the next id.  A
\* creation that fails after the id was taken loses it.
PidsExhausted == next_available_pid >= MAX_PIDS
AllocatePid == next_available_pid' = next_available_pid + 1

sched_enqueue(pid) == processes' = VecPush(processes, NewSpace(pid))

\* kern_main(): the init process is created and enqueued.
EnqueueInit ==
  /\ machine = "boot"
  /\ next_available_pid = 0
  /\ AllocatePid
  /\ sched_enqueue(next_available_pid)
  /\ UNCHANGED <<current_pid_index, cpu, timer, machine, exited,
                 parked, exitPanic, creates, capabilities>>

\* kern_main() panics: a boot module is missing, or the init process cannot be
\* created.
BootPanics ==
  /\ machine = "boot"
  /\ next_available_pid = 0
  /\ machine' = "halted"
  /\ UNCHANGED <<processes, current_pid_index, next_available_pid, cpu, timer,
                 exited, parked, exitPanic, creates, capabilities>>

\* sched_begin_work(): enter user mode at the entry point of process 0.
sched_begin_work ==
  /\ machine = "boot"
  /\ next_available_pid > 0
  /\ LET es == VecGet(processes, 0)
     IN cpu' = [registers |-> es.registers, cr3 |-> es.vm_space, ring |-> 3]
  /\ timer' = "quantum"
  /\ machine' = "running"
  /\ UNCHANGED <<processes, current_pid_index, next_available_pid,
                 exited, parked, exitPanic, creates, capabilities>>

\* The running program executes.
UserStep ==
  /\ CanExecute
  /\ InUserCode
  /\ cpu' = [cpu EXCEPT !.registers = Advance(@)]
  /\ UNCHANGED <<processes, current_pid_index, next_available_pid, timer,
                 machine, exited, parked, exitPanic, creates, capabilities>>

\* A system call is made by user code and returns with sysret, which
\* loads the ring-3 segments whatever ring it came from.
EnterSyscall ==
  /\ CanExecute
  /\ InUserCode

\* Mutant: the return loads kernel segments.
Sysret_KernelSegments == cpu' = [cpu EXCEPT !.registers = Advance(@), !.ring = 0]

Sysret == cpu' = [cpu EXCEPT !.registers = Advance(@), !.ring = 3]

\* Any system call that does not touch the process list.
OtherSyscall ==
  /\ EnterSyscall
  /\ Sysret
  /\ UNCHANGED <<processes, current_pid_index, next_available_pid, timer,
                 machine, exited, parked, exitPanic, creates, capabilities>>

\* Mutant: a creation that fails returns an error instead of faulting.
sys_create_process_ReturnsError(ok) ==
  /\ EnterSyscall
  /\ creates < MaxCreates
  /\ creates' = creates + 1
  /\ ~PidsExhausted
  /\ AllocatePid
  /\ Sysret
  /\ UNCHANGED <<processes, current_pid_index, timer, machine, exited, parked,
                 exitPanic, capabilities>>

\* sys_create_process(), once its arguments are accepted: panics when the ids
\* are used up (interrupts are masked, so the hlt loop at the end of panic() is
\* final); otherwise the id is taken.  Without a capability vector
\* create_execution_space() then reads through a null pointer and the fault is
\* final; with one, the process is enqueued unless a later step fails.
sys_create_process(ok) ==
  /\ EnterSyscall
  /\ creates < MaxCreates
  /\ creates' = creates + 1
  /\ IF PidsExhausted THEN UNCHANGED next_available_pid ELSE AllocatePid
  /\ IF PidsExhausted \/ capabilities = "NULL"
     THEN machine' = "halted" /\ UNCHANGED <<processes, cpu>>
     ELSE /\ IF ok THEN sched_enqueue(next_available_pid) ELSE UNCHANGED processes
          /\ Sysret
          /\ UNCHANGED machine
  /\ UNCHANGED <<current_pid_index, timer, exited, parked, exitPanic, capabilities>>

\* Mutants: the page map is not switched; the registers are saved after the
\* index was stepped.
sched_reschedule_KeepsPagemap ==
  LET saved == [processes EXCEPT !.at[current_pid_index].registers = cpu.registers]
      index == (current_pid_index + 1) % processes.size
  IN /\ processes' = saved
     /\ current_pid_index' = index
     /\ cpu' = [cpu EXCEPT !.registers = VecGet(saved, index).registers]
     /\ parked' = [parked EXCEPT ![cpu.registers.owner] = cpu.registers]

sched_reschedule_SavesLate ==
  LET index == (current_pid_index + 1) % processes.size
      next  == VecGet(processes, index)
  IN /\ processes' = [processes EXCEPT !.at[index].registers = cpu.registers]
     /\ current_pid_index' = index
     /\ cpu' = [cpu EXCEPT !.registers = next.registers, !.cr3 = next.vm_space]
     /\ parked' = [parked EXCEPT ![cpu.registers.owner] = cpu.registers]

\* sched_reschedule() as called by timer_irq(): save the interrupted registers
\* in the slot current_pid_index names, step the index, load the next process.
\* The code segment in the interrupt frame is not touched, so the CPU returns
\* to the ring it was interrupted in.
sched_reschedule ==
  LET saved == [processes EXCEPT !.at[current_pid_index].registers = cpu.registers]
      index == (current_pid_index + 1) % processes.size
      next  == VecGet(saved, index)
  IN /\ processes' = saved
     /\ current_pid_index' = index
     /\ cpu' = [cpu EXCEPT !.registers = next.registers, !.cr3 = next.vm_space]
     /\ parked' = [parked EXCEPT ![cpu.registers.owner] = cpu.registers]

\* Mutant: the timer is not armed again.
timer_irq_NoRearm ==
  /\ CanExecute
  /\ timer # "off"
  /\ processes.size # 0
  /\ sched_reschedule
  /\ timer' = "off"
  /\ UNCHANGED <<next_available_pid, machine, exited, exitPanic, creates, capabilities>>

\* timer_irq(): the one-shot timer fires and is armed again.  With an empty
\* list sched_reschedule() returns an error that UNWRAP turns into a panic.
timer_irq ==
  /\ CanExecute
  /\ timer # "off"
  /\ IF processes.size = 0
     THEN /\ machine' = "halted"
          /\ timer' = "off"
          /\ UNCHANGED <<processes, current_pid_index, cpu, parked>>
     ELSE /\ sched_reschedule
          /\ timer' = "quantum"
          /\ UNCHANGED machine
  /\ UNCHANGED <<next_available_pid, exited, exitPanic, creates, capabilities>>

\* sched_dequeue(): erase the first live slot that holds the process id.
sched_dequeue(pid) ==
  \E i \in VecLive(processes) :
    /\ processes.at[i].pid = pid
    /\ \A j \in 0 .. i - 1 : processes.at[j].pid # pid
    /\ processes' = VecErase(processes, i)

\* sys_exit() up to arch_reschedule_now(): the process leaves the list,
\* interrupts are on and the timer is due in one tick.  The code runs on in
\* ring 0.  Without a current process the call returns 1; when the current
\* process is not in the list it panics with interrupts masked.
sys_exit ==
  /\ EnterSyscall
  /\ Cardinality(exited) < MaxExits
  /\ exited' = exited \cup {cpu.registers.owner}
  /\ LET current == VecGet(processes, current_pid_index)
     IN IF processes.size = 0
        THEN Sysret /\ UNCHANGED <<processes, timer, machine>>
        ELSE IF current.pid \in ListedPids
        THEN /\ sched_dequeue(current.pid)
             /\ cpu' = [cpu EXCEPT !.registers.pc = [at |-> "exit", n |-> 0],
                                   !.ring = 0]
             /\ timer' = "now"
             /\ UNCHANGED machine
        ELSE machine' = "halted" /\ UNCHANGED <<processes, cpu, timer>>
  /\ UNCHANGED <<current_pid_index, next_available_pid, parked, exitPanic,
                 creates, capabilities>>

\* The code after arch_reschedule_now() runs: sys_exit panics, prints and ends
\* in the hlt loop, with interrupts still on.
ExitPanics ==
  /\ CanExecute
  /\ cpu.registers.pc.at = "exit"
  /\ cpu' = [cpu EXCEPT !.registers.pc.at = "hlt"]
  /\ exitPanic' = TRUE
  /\ UNCHANGED <<processes, current_pid_index, next_available_pid, timer,
                 machine, exited, parked, creates, capabilities>>

\* The pops in sys_exit() unwind more of the stack than was pushed, and the
\* system calls of other processes reuse the same kernel stack: what the code
\* after arch_reschedule_now() finds there is undefined.  A fault, which
\* isr_handler() ends in a hlt loop with interrupts masked, is one outcome.
ExitCrashes ==
  /\ CanExecute
  /\ cpu.registers.pc.at = "exit"
  /\ machine' = "halted"
  /\ UNCHANGED <<processes, current_pid_index, next_available_pid, cpu, timer,
                 exited, parked, exitPanic, creates, capabilities>>

\* The page fault of a kernel address fetched in ring 3 is final.
PageFault ==
  /\ FetchFaults
  /\ machine' = "halted"
  /\ UNCHANGED <<processes, current_pid_index, next_available_pid, cpu, timer,
                 exited, parked, exitPanic, creates, capabilities>>

Next ==
  \/ EnqueueInit
  \/ BootPanics
  \/ sched_begin_work
  \/ UserStep
  \/ OtherSyscall
  \/ \E ok \in BOOLEAN : sys_create_process(ok)
  \/ sys_exit
  \/ timer_irq
  \/ ExitPanics
  \/ ExitCrashes
  \/ PageFault

\* An armed one-shot timer fires, a fault is taken, and the boot code runs on.
Fairness ==
  /\ WF_vars(EnqueueInit)
  /\ WF_vars(sched_begin_work)
  /\ WF_vars(timer_irq)
  /\ WF_vars(PageFault)

Spec == Init /\ [][Next]_vars
FairSpec == Spec /\ Fairness
-----------------------------------------------------------------------------
TypeOK ==
  /\ processes \in [at : [Pids -> ExecutionSpaces], size : 0 .. MAX_PIDS]
  /\ current_pid_index \in Pids
  /\ next_available_pid \in 0 .. MAX_PIDS
  /\ cpu \in [registers : Registers, cr3 : Pids \cup {NoPid}, ring : {0, 3}]
  /\ timer \in {"off", "quantum", "now"}
  /\ machine \in {"boot", "running", "halted"}
  /\ exited \subseteq Pids
  /\ parked \in [Pids -> Registers]
  /\ exitPanic \in BOOLEAN
  /\ creates \in 0 .. MaxCreates
  /\ capabilities \in {"NULL", "given"}

\* The slot that current_pid_index names (the one sched_current() returns, and
\* the one the next timer interrupt saves into) belongs to the process on the
\* CPU, and the CPU translates with that process's page map.  sched_dequeue()
\* leaves the index alone, so after an exit it may name a slot past the end of
\* the list: it is still the right slot.
RunningIsCurrent ==
  Running =>
    LET es == processes.at[current_pid_index]
    IN /\ es.pid = cpu.registers.owner
       /\ es.vm_space = cpu.cr3
       /\ es.pid = es.vm_space

\* The registers saved for a process in the list, with which it will resume,
\* are exactly those it had when the timer last took the CPU from it (or its
\* entry point), no matter which processes ran, were created or exited in
\* between.
ResumesWhereParked ==
  \A i \in VecLive(processes) :
    processes.at[i].registers = parked[processes.at[i].pid]

\* No process is listed twice, and the ids in the list were all handed out by
\* sched_allocate_pid(), so sched_get() and sched_dequeue(), which stop at the
\* first match, cannot mean another process.
UniquePids ==
  \A i, j \in VecLive(processes) :
    /\ processes.at[i].pid < next_available_pid
    /\ processes.at[i].pid = processes.at[j].pid => i = j

\* User code only ever runs for a process that is still in the list, so the
\* panic "sys_exit: Failed to dequeue current process" cannot happen.
DequeueNeverFails ==
  Running /\ InUserCode =>
    /\ Listed(current_pid_index)
    /\ cpu.registers.owner \in ListedPids

\* As long as no process has exited, every process runs in ring 3: timer_irq()
\* keeps the interrupted code segment, and that one is a user segment.
RingThree == Running /\ exited = {} => cpu.ring = 3 /\ InUserCode

\* Round robin starves nobody: a process in the list gets the CPU, unless it
\* is dropped from the list or the machine stops.
NoStarvation ==
  \A p \in Pids :
    p \in ListedPids ~> \/ Running /\ cpu.registers.owner = p
                        \/ p \notin ListedPids
                        \/ machine = "halted"

\* syscalls.c:141, "Should never reach here": no process executes the panic
\* that follows arch_reschedule_now() in sys_exit().
ExitPanicNeverReached == ~exitPanic

\* With the NULL that syscalls.c passes for the capabilities, init is the only
\* process there ever is: whatever sys_create_process() creates stops the
\* machine instead.
OnlyInitRunsToday ==
  capabilities = "NULL" /\ Running =>
    /\ cpu.registers.owner = 0
    /\ ListedPids \subseteq {0}
    /\ next_available_pid = 1
=============================================================================
