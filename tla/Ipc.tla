-------------------------------- MODULE Ipc --------------------------------
(***************************************************************************)
(* Message passing: kernel/ipc/ipc.c and the system calls over it          *)
(* (sys_ipc_send, sys_ipc_receive and the port that sys_create_process     *)
(* assigns).  Every system call runs with interrupts masked on the one     *)
(* CPU, so it is one step; the scheduler decides whose step comes next.    *)
(*                                                                         *)
(* A payload is copied into a heap buffer by the sender's call and out of  *)
(* it by the receiver's, which frees it.  The n-th payload sent is         *)
(* identified by n; 0 is the content of a buffer that is free.             *)
(***************************************************************************)
EXTENDS Integers, Sequences, FiniteSets, Vec

CONSTANTS
  MAX_PIDS,     \* process ids are 0 .. MAX_PIDS - 1
  Ports,        \* port numbers; 0 is PORT_INIT
  Sizes,        \* payload sizes in bytes
  Buffers,      \* buffers the heap has room for
  NULL,
  MaxPending,   \* bound: messages that may wait in one queue
  MaxSends      \* bound: calls of sys_ipc_send

IpcAssumption ==
  /\ MAX_PIDS \in Nat \ {0}
  /\ Ports \subseteq Nat /\ 0 \in Ports
  /\ Sizes \subseteq Nat
  /\ NULL \notin Buffers
  /\ MaxPending \in Nat \ {0}
  /\ MaxSends \in Nat

VARIABLES
  port_to_pid,  \* omap(int, int)
  space,        \* port and message_queue of each ExecutionSpace
  next_available_pid,
  listed,       \* processes that sched_get() finds
  heap,         \* what each buffer holds, 0 when it is free
  machine,      \* "boot", "running" or "halted"
  sends,        \* number of calls of sys_ipc_send so far
  got,          \* history: number and last of each process's responses
  accepted,     \* history: number of messages put into each queue
  oldest,       \* history: per queue, the first message since it was empty
  leaked,       \* history: buffers of sends that found no receiver
  crowded       \* history: some queue has held two messages

vars == <<port_to_pid, space, next_available_pid, listed, heap,
          machine, sends, got, accepted, oldest, leaked, crowded>>

Pids == 0 .. MAX_PIDS - 1
NoPid == -1
NoPort == -1
PORT_INIT == 0
Messages == [sender : Pids, receiver : Ports, payload : Buffers \cup {NULL},
             payload_size : Sizes]
Junk == [sender |-> 0, receiver |-> 0, payload |-> NULL, payload_size |-> 0]

Running == machine = "running"
FreeBuffers == {b \in Buffers : heap[b] = 0}
Queue(p) == space[p].message_queue

\* Bytes of payload that a response holds before its payload_size field.
InlineBytes == 8
Overwritten == -1

\* What the receiver reads of a message: the payload is copied into the
\* response from the offset of its 8-byte payload field on, after payload_size
\* was written there, so a longer payload runs over the size.
Response(message) ==
  [sender       |-> message.sender,
   data         |-> IF message.payload = NULL THEN 0 ELSE heap[message.payload],
   payload_size |-> IF message.payload_size <= InlineBytes
                    THEN message.payload_size ELSE Overwritten]

ipc_init == port_to_pid = [port \in Ports |-> NoPid]

Init ==
  /\ ipc_init
  /\ space = [p \in Pids |-> [port |-> NoPort,
                              message_queue |-> VecInit(MaxPending, Junk)]]
  /\ next_available_pid = 0
  /\ listed = {}
  /\ heap = [b \in Buffers |-> 0]
  /\ machine = "boot"
  /\ sends = 0
  /\ got = [p \in Pids |-> [count |-> 0, last |-> NULL]]
  /\ accepted = [p \in Pids |-> 0]
  /\ oldest = [p \in Pids |-> Junk]
  /\ leaked = {}
  /\ crowded = FALSE

\* Mutant: a port that is taken is given away again.
PortFree_Always(p, port) == TRUE

\* ipc_assign_port(): a process gets one port, a port goes to one process, and
\* the queue starts empty.
PortFree(p, port) == space[p].port = NoPort /\ port_to_pid[port] = NoPid

ipc_assign_port(p, port) ==
  /\ space' = [space EXCEPT ![p] = [port |-> port,
                                    message_queue |-> VecInit(MaxPending, Junk)]]
  /\ port_to_pid' = [port_to_pid EXCEPT ![port] = p]

\* kern_main(): the init process gets PORT_INIT and is enqueued.
BootInit ==
  /\ machine = "boot"
  /\ next_available_pid' = 1
  /\ ipc_assign_port(0, PORT_INIT)
  /\ listed' = {0}
  /\ machine' = "running"
  /\ UNCHANGED <<heap, sends, got, accepted, oldest, leaked, crowded>>

\* sys_create_process(), with the port the caller asks for and (see Scheduler)
\* a capability vector: port 0 is refused before anything happens; a port that
\* is taken costs the new process its place in the list, but the id is gone.
sys_create_process(p, port) ==
  /\ Running
  /\ port # 0
  /\ p = next_available_pid
  /\ next_available_pid' = next_available_pid + 1
  /\ IF PortFree(p, port)
     THEN ipc_assign_port(p, port) /\ listed' = listed \cup {p}
     ELSE UNCHANGED <<space, port_to_pid, listed>>
  /\ UNCHANGED <<heap, machine, sends, got, accepted, oldest, leaked, crowded>>

\* A process drops out of the scheduler's list.  Its port stays assigned.
Leave(p) ==
  /\ Running
  /\ p \in listed
  /\ listed' = listed \ {p}
  /\ UNCHANGED <<port_to_pid, space, next_available_pid, heap, machine, sends,
                 got, accepted, oldest, leaked, crowded>>

\* ipc_send() from process p: push to the queue of the port's owner, unless
\* the port is unassigned or its owner is no longer listed.  Then nobody frees
\* the buffer, and the caller is not told.
ipc_send(p, to, b, sz) ==
  LET target  == port_to_pid[to]
      message == [sender |-> p, receiver |-> to, payload |-> b,
                  payload_size |-> sz]
  IN IF target # NoPid /\ target \in listed
     THEN /\ space' = [space EXCEPT ![target].message_queue =
                                      VecPush(Queue(target), message)]
          /\ accepted' = [accepted EXCEPT ![target] = accepted[target] + 1]
          /\ oldest' = IF Queue(target).size = 0
                       THEN [oldest EXCEPT ![target] = message] ELSE oldest
          /\ crowded' = (crowded \/ Queue(target).size > 0)
          /\ UNCHANGED leaked
     ELSE /\ leaked' = leaked \cup ({b} \ {NULL})
          /\ UNCHANGED <<space, accepted, oldest, crowded>>

\* Callers keep to the bound on the target's queue.
Room(to) ==
  port_to_pid[to] \in listed => Queue(port_to_pid[to]).size < MaxPending

\* sys_ipc_send(): copy the payload into a new buffer and send it.  alloc(0)
\* is NULL and nothing is copied; with the heap exhausted the copy writes
\* through NULL, and the fault is final.
sys_ipc_send(p, to, sz) ==
  /\ Running
  /\ p \in listed
  /\ sends < MaxSends
  /\ Room(to)
  /\ sends' = sends + 1
  /\ \/ /\ sz > 0 /\ FreeBuffers = {}
        /\ machine' = "halted"
        /\ UNCHANGED <<heap, space, accepted, oldest, leaked, crowded>>
     \/ \E b \in IF sz = 0 THEN {NULL} ELSE FreeBuffers :
          /\ heap' = [x \in Buffers |-> IF x = b THEN sends + 1 ELSE heap[x]]
          /\ ipc_send(p, to, b, sz)
          /\ UNCHANGED machine
  /\ UNCHANGED <<port_to_pid, next_available_pid, listed, got>>

\* Mutant: the newest message is returned.
ipc_receive_Newest(q) == VecGet(q, q.size - 1)

\* ipc_receive(): NULL when the queue is empty; else erase() returns a pointer
\* to slot 0 of the queue, which its memmove has left alone.
HasMessage(p) == Queue(p).size > 0
ipc_receive(q) == VecGet(VecErase(q, 0), 0)

\* Mutant: the buffer is not freed.
free_Never(b) == UNCHANGED <<heap, machine>>

\* free(): the allocator asserts that the buffer is in use, and panics.
free(b) ==
  IF b = NULL THEN UNCHANGED <<heap, machine>>
  ELSE IF heap[b] = 0 THEN machine' = "halted" /\ UNCHANGED heap
  ELSE heap' = [heap EXCEPT ![b] = 0] /\ UNCHANGED machine

\* sys_ipc_receive() with a message waiting; without one it returns 2 and
\* changes nothing.
sys_ipc_receive(p) ==
  /\ Running
  /\ p \in listed
  /\ HasMessage(p)
  /\ LET message == ipc_receive(Queue(p))
     IN /\ space' = [space EXCEPT ![p].message_queue = VecErase(Queue(p), 0)]
        /\ got' = [got EXCEPT ![p] = [count |-> got[p].count + 1,
                                   last  |-> Response(message)]]
        /\ free(message.payload)
  /\ UNCHANGED <<port_to_pid, next_available_pid, listed, sends, accepted,
                 oldest, leaked, crowded>>

Next ==
  \/ BootInit
  \/ \E p \in Pids, port \in Ports : sys_create_process(p, port)
  \/ \E p \in Pids : Leave(p)
  \/ \E p \in Pids, to \in Ports, sz \in Sizes : sys_ipc_send(p, to, sz)
  \/ \E p \in Pids : sys_ipc_receive(p)

Spec == Init /\ [][Next]_vars
-----------------------------------------------------------------------------
TypeOK ==
  /\ port_to_pid \in [Ports -> Pids \cup {NoPid}]
  /\ space \in [Pids -> [port : Ports \cup {NoPort},
                         message_queue : [at : [0 .. MaxPending - 1 -> Messages \cup {Junk}],
                                          size : 0 .. MaxPending]]]
  /\ next_available_pid \in 0 .. MAX_PIDS
  /\ listed \subseteq Pids
  /\ heap \in [Buffers -> 0 .. MaxSends]
  /\ machine \in {"boot", "running", "halted"}
  /\ sends \in 0 .. MaxSends
  /\ accepted \in [Pids -> 0 .. MaxSends]
  /\ leaked \subseteq Buffers
  /\ crowded \in BOOLEAN

Live(p) == {VecGet(Queue(p), i) : i \in VecLive(Queue(p))}

\* A message waits only in the queue of the process that owns the port it was
\* sent to, and a port has one owner for ever: creations that ask for a port
\* that is taken, and owners that leave, never redirect a message.
RoutedToOwner ==
  \A p \in Pids :
    /\ space[p].port # NoPort => port_to_pid[space[p].port] = p
    /\ p \in listed => space[p].port # NoPort
    /\ \A message \in Live(p) : message.receiver = space[p].port

\* No message is invented or lost from the count: the responses a process got
\* and the messages that wait for it add up to those ipc_send() accepted.
EveryMessageCounted ==
  \A p \in Pids : got[p].count + Queue(p).size = accepted[p]

\* What holds of the messages with any number of them in a queue.
MessagesAccounted == TypeOK /\ RoutedToOwner /\ EveryMessageCounted

\* sys_ipc_receive() delivers the message that has waited longest, counted
\* from the time the queue was last empty (the same one again while others
\* wait: the erasure drops the newest message instead of the one returned).
DeliversOldest ==
  [][\A p \in Pids :
       got'[p].count # got[p].count => got'[p].last = Response(oldest[p])]_vars

\* The buffers of the messages that wait.
Waiting(p) == {message.payload : message \in Live(p)} \ {NULL}

\* Every allocated buffer has one owner: the message that waits with it, or a
\* send that found no receiver.
OneOwner ==
  /\ {b \in Buffers : heap[b] # 0} = leaked \cup UNION {Waiting(p) : p \in Pids}
  /\ \A p \in Pids : Waiting(p) \cap leaked = {}
  /\ \A p, q \in Pids : p # q => Waiting(p) \cap Waiting(q) = {}

\* The receiver never frees a buffer twice: only an exhausted heap stops the
\* machine.
HaltsOnlyWhenExhausted == machine = "halted" => FreeBuffers = {}

\* As long as no queue has held two messages, no buffer that sys_ipc_send()
\* allocates is lost or freed twice.
BuffersOwned == ~crowded => OneOwner /\ HaltsOnlyWhenExhausted

Responses == [sender : Pids, data : 0 .. MaxSends,
              payload_size : Sizes \cup {Overwritten}]

\* The responses that the waiting messages will give.
Inbox ==
  [p \in Pids |-> [k \in 1 .. Queue(p).size |-> Response(VecGet(Queue(p), k - 1))]]

M == INSTANCE Mailbox
  WITH Owners <- Pids, Messages <- Responses, None <- NULL, inbox <- Inbox, taken <- got

\* As long as no queue has held two messages, the system calls implement a
\* mailbox: each message is delivered once, in order, with the payload it was
\* sent with.
ImplementsMailbox == M!Init /\ [][~crowded' => M!Next]_<<Inbox, got>>
=============================================================================
