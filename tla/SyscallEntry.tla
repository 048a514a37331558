---------------------------- MODULE SyscallEntry ----------------------------
(***************************************************************************)
(* The way into a system call and back: libc's x86/abi/syscalls.c, the     *)
(* entry point x86_syscall_handler (arch/x86/sys/_syscall.s) and the       *)
(* dispatcher syscall_handler() (arch/x86/sys/syscall.c) with the table of *)
(* abi/syscalls.h.                                                         *)
(*                                                                         *)
(* A register holds a token: its own name for the value the user program   *)
(* keeps there, "arg0" .. for the arguments; rax holds the number of the   *)
(* call and then its status.                                               *)
(* Interrupts are masked from the instruction to the return, so a call's   *)
(* steps are not interleaved with anything.                                *)
(***************************************************************************)
EXTENDS Integers, Sequences

CONSTANTS
  Selectors,    \* the numbers that user programs call
  MaxCalls      \* bound: system calls made one after the other

SyscallAssumption == Selectors \subseteq Nat /\ MaxCalls \in Nat

\* syscall_list
syscall_list == <<"sys_stub", "sys_log", "sys_ipc_send", "sys_ipc_receive",
                  "sys_create_process", "sys_exit">>
ARRAY_SIZE == Len(syscall_list)

\* The calls that libc wraps, by the name of the handler they are meant for.
Wrapper == [sys_log |-> 1, sys_ipc_send |-> 2, sys_ipc_receive |-> 3,
            sys_create_process |-> 4, sys_exit |-> 5]

Registers == {"rax", "rbx", "rcx", "rdx", "rbp", "rdi", "rsi", "rsp", "r8", "r9",
              "r10", "r11", "r12", "r13", "r14", "r15"}
Arguments == <<"arg0", "arg1", "arg2", "arg3", "arg4", "arg5">>

VARIABLES
  reg,          \* the registers
  user_stack,   \* what libc has pushed
  kernel_stack, \* what the entry point has pushed
  gs,           \* whose block the gs register addresses, and what it holds
  pc,           \* "user", "entry", "push", "dispatch", "pop", "return", "panic"
  selector,     \* history: the number of the present or last call
  handled,      \* history: the handler that ran, and its arguments
  calls

vars == <<reg, user_stack, kernel_stack, gs, pc, selector, handled, calls>>

STATUS == -1    \* what the last call returned

NoHandler == [name |-> "none", args |-> <<>>]

Init ==
  /\ reg = [r \in Registers |-> IF r = "rax" THEN STATUS ELSE r]
  /\ user_stack = <<>> /\ kernel_stack = <<>>
  /\ gs = [base |-> "user", rsp |-> "none", in_syscall |-> FALSE]
  /\ pc = "user" /\ selector = 0 /\ handled = NoHandler /\ calls = 0
-----------------------------------------------------------------------------
Load(values) == [r \in Registers |-> IF r \in DOMAIN values THEN values[r] ELSE reg[r]]

\* syscall() of libc up to the instruction, which keeps the return address and
\* the flags in rcx and r11.
UserCall(s) ==
  /\ pc = "user" /\ calls < MaxCalls
  /\ user_stack' = <<reg["rcx"], reg["r11"]>>
  /\ reg' = Load([rax |-> s, rdi |-> "arg0", rsi |-> "arg1", rdx |-> "arg2",
                  r10 |-> "arg3", r8 |-> "arg4", r9 |-> "arg5",
                  rcx |-> "return ip", r11 |-> "rflags"])
  /\ selector' = s /\ handled' = NoHandler
  /\ calls' = calls + 1 /\ pc' = "entry"
  /\ UNCHANGED <<kernel_stack, gs>>

swapgs(base) == IF base = "user" THEN "kernel" ELSE "user"

\* The entry point switches to the kernel's gs and stack.
Entry ==
  /\ pc = "entry" /\ pc' = "push"
  /\ gs' = [base |-> swapgs(gs.base), rsp |-> reg["rsp"], in_syscall |-> TRUE]
  /\ reg' = Load([rsp |-> "kernel stack"])
  /\ kernel_stack' = <<>>
  /\ UNCHANGED <<user_stack, selector, handled, calls>>

\* Mutant: two registers are pushed in the other order.
pusha64_Swapped == <<"rax", "rbx", "rcx", "rdx", "rbp", "rsi", "rdi", "r8", "r9",
                     "r10", "r11", "r12", "r13", "r14", "r15">>

\* The registers in the order pusha64 pushes them, the first at the bottom.
pusha64 == <<"rax", "rbx", "rcx", "rdx", "rbp", "rdi", "rsi", "r8", "r9",
             "r10", "r11", "r12", "r13", "r14", "r15">>

Push ==
  /\ pc = "push" /\ pc' = "dispatch"
  /\ kernel_stack' = kernel_stack \o [i \in DOMAIN pusha64 |-> reg[pusha64[i]]]
  /\ reg' = Load([rbp |-> "0"])
  /\ UNCHANGED <<user_stack, gs, selector, handled, calls>>

\* The members of GeneralRegisters as the frame on the stack holds them.
GeneralRegisters == <<"rax", "rbx", "rcx", "rdx", "rbp", "rdi", "rsi", "r8", "r9",
                      "r10", "r11", "r12", "r13", "r14", "r15">>
Frame(r) == kernel_stack[CHOOSE i \in DOMAIN GeneralRegisters : GeneralRegisters[i] = r]

Refused(rax) == rax > ARRAY_SIZE

\* Beyond the table lies whatever the linker puts there.
Handler(rax) == IF rax < ARRAY_SIZE THEN syscall_list[rax + 1] ELSE "beyond the table"

\* syscall_handler(); a handler leaves its status in rax and may change every
\* register that the calling convention does not preserve.
Dispatch ==
  /\ pc = "dispatch"
  /\ IF Refused(Frame("rax")) THEN pc' = "panic" /\ UNCHANGED <<reg, handled>>
     ELSE /\ pc' = "pop"
          /\ handled' = [name |-> Handler(Frame("rax")),
                         args |-> <<Frame("rdi"), Frame("rsi"), Frame("rdx"),
                                    Frame("r10"), Frame("r8"), Frame("r9")>>]
          /\ reg' = [r \in Registers |->
                       IF r = "rax" THEN STATUS
                       ELSE IF r \in {"rcx", "rdx", "rdi", "rsi", "r8", "r9", "r10", "r11"}
                       THEN "clobbered" ELSE reg[r]]
  /\ UNCHANGED <<user_stack, kernel_stack, gs, selector, calls>>

\* The registers in the order the entry point pops them; rax is not popped.
PopOrder == <<"r15", "r14", "r13", "r12", "r11", "r10", "r9", "r8", "rsi", "rdi",
              "rbp", "rdx", "rcx", "rbx">>

Pop ==
  /\ pc = "pop" /\ pc' = "return"
  /\ LET top == Len(kernel_stack)
     IN  /\ reg' = Load([r \in {PopOrder[i] : i \in DOMAIN PopOrder} |->
                           LET i == CHOOSE k \in DOMAIN PopOrder : PopOrder[k] = r
                           IN  kernel_stack[top - i + 1]])
         /\ kernel_stack' = SubSeq(kernel_stack, 1, top - Len(PopOrder))
  /\ UNCHANGED <<user_stack, gs, selector, handled, calls>>

\* Back to the user's stack and gs; libc pops the two registers it has saved.
Return ==
  /\ pc = "return" /\ pc' = "user"
  /\ reg' = Load([rsp |-> gs.rsp, r11 |-> user_stack[2], rcx |-> user_stack[1]])
  /\ gs' = [base |-> swapgs(gs.base), rsp |-> gs.rsp, in_syscall |-> FALSE]
  /\ user_stack' = <<>>
  /\ UNCHANGED <<kernel_stack, selector, handled, calls>>

Done == pc \in {"user", "panic"} /\ UNCHANGED vars

Kernel == Entry \/ Push \/ Dispatch \/ Pop \/ Return

Next == (\E s \in Selectors : UserCall(s)) \/ Kernel \/ Done

Spec == Init /\ [][Next]_vars /\ WF_vars(Kernel)
-----------------------------------------------------------------------------
Inputs == [rdi |-> "arg0", rsi |-> "arg1", rdx |-> "arg2"]

\* After a call each register that the compiler does not expect to change holds
\* what it held before: the inputs of libc's syscall() included, and rcx and
\* r11, which the instruction itself overwrites.
RegistersKept ==
  pc = "user" /\ calls > 0 =>
    \A r \in Registers \ {"rax", "r8", "r9", "r10"} :
      reg[r] = IF r \in DOMAIN Inputs THEN Inputs[r] ELSE r

\* The handler that runs is the one libc's wrapper names, with the arguments in
\* the order they were passed.
CallArrives ==
  handled # NoHandler =>
    /\ handled.args = Arguments
    /\ \A name \in DOMAIN Wrapper : selector = Wrapper[name] => handled.name = name

\* In the kernel gs addresses the kernel's block, and in user mode the user's.
GsMatchesMode == pc # "panic" => (gs.base = "user" <=> pc \in {"user", "entry"})

\* A call returns, or ends in the panic for a selector that is too large.
CallEnds == (pc = "entry") ~> (pc = "user" \/ (pc = "panic" /\ selector > ARRAY_SIZE))
=============================================================================
