------------------------------- MODULE MCIpc -------------------------------
(***************************************************************************)
(* Message passing for TLC: the kernel's queues (the specification this    *)
(* module extends), the user programs that exchange messages through them, *)
(* and the way into a system call.  Each behaviour exercises one of them;  *)
(* "part" says which.                                                      *)
(*                                                                         *)
(* "queue" lets two messages wait in a queue.  "user" has three processes  *)
(* that run hello beside init.  "syscall" makes three calls in a row, of   *)
(* every number in the table and one beyond it.                            *)
(***************************************************************************)
EXTENDS Ipc

Senders == {"h1", "h2", "h3"}
Text == [p \in Senders |-> <<72, 101, 108, 108, 111>>]
Selectors == {0, 1, 2, 3, 4, 5, 7}
MaxCalls == 3

VARIABLES
  part,                                             \* what this behaviour is about
  send_region, receive_region, queue, upc,          \* UserIpc
  payloads, panicked, sent, logged, ucrowded,
  reg, user_stack, kernel_stack, gs, spc,           \* SyscallEntry
  selector, handled, calls

userVars == <<send_region, receive_region, queue, upc, payloads, panicked, sent, logged,
              ucrowded>>
callVars == <<reg, user_stack, kernel_stack, gs, spc, selector, handled, calls>>
messageVars == <<part, vars, userVars, callVars>>

User == INSTANCE UserIpc
          WITH pc <- upc, heap <- payloads, crowded <- ucrowded, Buffers <- {"b1", "b2", "b3"}
Call == INSTANCE SyscallEntry WITH pc <- spc

ASSUME IpcAssumption
ASSUME User!UserIpcAssumption /\ Call!SyscallAssumption
-----------------------------------------------------------------------------
MessageInit == part \in {"queue", "user", "syscall"} /\ Init /\ User!Init /\ Call!Init

StepOf(name, A, others) == part = name /\ A /\ UNCHANGED <<part, others>>

MessageNext ==
  \/ StepOf("queue", Next, <<userVars, callVars>>)
  \/ StepOf("user", User!Next, <<vars, callVars>>)
  \/ StepOf("syscall", Call!Next, <<vars, userVars>>)

\* The timer gives every process its turn; nothing interrupts the kernel's part
\* of a system call.
MessageSpec ==
  /\ MessageInit /\ [][MessageNext]_messageVars
  /\ WF_messageVars(StepOf("user", User!Receiver, <<vars, callVars>>))
  /\ \A p \in Senders : WF_messageVars(StepOf("user", User!Sender(p), <<vars, callVars>>))
  /\ WF_messageVars(StepOf("syscall", Call!Kernel, <<vars, userVars>>))
-----------------------------------------------------------------------------
\* Whatever the interleaving of the senders' stores to the one send region with
\* init's polling of the receive region, init logs what was sent, in the order
\* of the system calls, and only two messages that wait at a time keep it from
\* logging each of them once: sys_ipc_send(), sys_ipc_receive(), ipc_ack().
AllLogged ==
  /\ [](part = "user" => User!LoggedAsSent /\ User!PanicsWhenCrowded)
  /\ part = "user" => User!AllLogged

\* A system call reaches the handler that libc's wrapper means with its
\* arguments in order, every register that the compiler does not expect to
\* change comes back, gs is the kernel's in the kernel only, and the call ends:
\* x86_syscall_handler, syscall_handler() and libc's syscall().
CallsSound ==
  /\ [](part = "syscall" => Call!RegistersKept /\ Call!CallArrives /\ Call!GsMatchesMode)
  /\ part = "syscall" => Call!CallEnds
=============================================================================
