------------------------------ MODULE UserIpc -------------------------------
(***************************************************************************)
(* Messages between user processes: libc's generic/ipc/ipc.c, the programs *)
(* apps/hello and apps/init, and the system calls they make.               *)
(*                                                                         *)
(* ipc_assign_port() maps the same two physical pages into every process,  *)
(* so the send region and the receive region are shared.  Processes are    *)
(* preempted between any two of their own stores and calls; a system call  *)
(* is one step.  init's queue is a vector of cc.h, as in Ipc: erasing the  *)
(* first of two messages keeps it and drops the other.  init reads its     *)
(* messages in the loop at the end of its main().                          *)
(***************************************************************************)
EXTENDS Integers, Sequences, FiniteSets, Vec

CONSTANTS
  Senders,      \* processes that run a program like hello
  Text,         \* what each sends: the bytes of its string, none of them 0
  Buffers       \* the heap: room for a payload each

UserIpcAssumption ==
  /\ \A p \in Senders : Text[p] \in Seq(Nat \ {0}) /\ Text[p] # <<>>
  /\ Cardinality(Buffers) >= Cardinality(Senders)   \* the heap has room

VARIABLES
  send_region,    \* type, whose string payload points to, and payload_size
  receive_region, \* type and the bytes from payload on
  queue,          \* init's message queue: the buffer and the size of each payload
  heap,           \* what each buffer holds, or Free
  panicked,       \* has free() met a buffer that is free?
  pc,             \* where each process is
  sent,           \* history: what the senders asked ipc_send() to send
  logged,         \* history: what sys_log() has accepted from init
  crowded         \* history: have two messages waited at a time?

kernel == <<queue, heap, panicked, crowded>>
vars == <<send_region, receive_region, pc, sent, logged, kernel>>

INIT == "init"
Procs == Senders \cup {INIT}
NONE == "IPC_MESSAGE_TYPE_NONE"
REQUEST == "IPC_MESSAGE_TYPE_REQUEST"
RESPONSE == "IPC_MESSAGE_TYPE_RESPONSE"
Free == <<>>

\* The bytes of a message from its payload on: eight of payload, eight of
\* payload_size, and the next ones of the page.
PAYLOAD_SIZE == 8
RegionBytes == 0 .. 31
Zeroed == [type |-> NONE, bytes |-> [b \in RegionBytes |-> 0]]

Init ==
  /\ send_region = [type |-> NONE, payload |-> INIT, payload_size |-> 0]
  /\ receive_region = Zeroed
  /\ queue = VecInit(Cardinality(Senders), INIT)
  /\ heap = [b \in Buffers |-> Free]
  /\ panicked = FALSE /\ crowded = FALSE
  /\ pc = [p \in Procs |-> IF p = INIT THEN "receive" ELSE "type"]
  /\ sent = <<>> /\ logged = <<>>

Goto(p, at) == pc' = [pc EXCEPT ![p] = at]
-----------------------------------------------------------------------------
\* ipc_send(): the three stores to the send region.
StoreType(p) ==
  /\ pc[p] = "type" /\ Goto(p, "payload")
  /\ send_region' = [send_region EXCEPT !.type = REQUEST]
  /\ UNCHANGED <<receive_region, sent, logged, kernel>>

StorePayload(p) ==
  /\ pc[p] = "payload" /\ Goto(p, "size")
  /\ send_region' = [send_region EXCEPT !.payload = p]
  /\ UNCHANGED <<receive_region, sent, logged, kernel>>

SizeOf(p) == Len(Text[p])

StoreSize(p) ==
  /\ pc[p] = "size" /\ Goto(p, "send")
  /\ send_region' = [send_region EXCEPT !.payload_size = SizeOf(p)]
  /\ UNCHANGED <<receive_region, sent, logged, kernel>>

\* What process p reads at the address that process q stored: the processes'
\* programs are linked at the same address.
JUNK == 255
ReadAt(p, q, n) ==
  [i \in 1 .. n |-> IF Text[q] = Text[p] /\ i <= Len(Text[p]) THEN Text[p][i] ELSE JUNK]

\* sys_ipc_send(): the payload is copied from the address in the region as the
\* caller's address space has it.
SysSend(p) ==
  /\ pc[p] = "send" /\ Goto(p, "exit")
  /\ \E b \in {b \in Buffers : heap[b] = Free} :
       /\ heap' = [heap EXCEPT ![b] = ReadAt(p, send_region.payload, send_region.payload_size)]
       /\ queue' = VecPush(queue, [payload |-> b, payload_size |-> send_region.payload_size])
  /\ crowded' = (crowded \/ queue'.size > 1)
  /\ sent' = Append(sent, Text[p])
  /\ UNCHANGED <<send_region, receive_region, logged, panicked>>

SysExit(p) ==
  /\ pc[p] = "exit" /\ Goto(p, "gone")
  /\ UNCHANGED <<send_region, receive_region, sent, logged, kernel>>
-----------------------------------------------------------------------------
\* Mutant: the size is written over the end of the payload.
Respond_SizeAfter(bytes, payload) ==
  [b \in RegionBytes |->
     IF b = 0 THEN Len(payload)
     ELSE IF b < Len(payload) THEN payload[b + 1] ELSE bytes[b]]

\* sys_ipc_receive() writes the size, then copies the payload to the address
\* of the payload field.
Respond(bytes, payload) ==
  [b \in RegionBytes |->
     IF b < Len(payload) THEN payload[b + 1]
     ELSE IF b = PAYLOAD_SIZE THEN Len(payload)
     ELSE IF b \in PAYLOAD_SIZE + 1 .. PAYLOAD_SIZE + 7 THEN 0
     ELSE bytes[b]]

\* ipc_receive() of the kernel: what erase() returns lies in slot 0 of the queue.
Received == VecGet(VecErase(queue, 0), 0)
PayloadOf(message) ==
  [i \in 1 .. message.payload_size |->
     IF i <= Len(heap[message.payload]) THEN heap[message.payload][i] ELSE JUNK]

\* Without a message the call returns an error that ipc_receive() ignores.
\* With one it frees the buffer, and free() panics if it is free already.
SysReceive ==
  /\ pc[INIT] = "receive" /\ Goto(INIT, "test")
  /\ IF queue.size = 0 THEN UNCHANGED <<receive_region, kernel>>
     ELSE /\ receive_region' = [type |-> RESPONSE,
                                bytes |-> Respond(receive_region.bytes, PayloadOf(Received))]
          /\ panicked' = (heap[Received.payload] = Free)
          /\ heap' = [heap EXCEPT ![Received.payload] = Free]
          /\ queue' = VecErase(queue, 0)
          /\ UNCHANGED crowded
  /\ UNCHANGED <<send_region, sent, logged>>

TestType ==
  /\ pc[INIT] = "test"
  /\ Goto(INIT, IF receive_region.type = RESPONSE THEN "log" ELSE "receive")
  /\ UNCHANGED <<send_region, receive_region, sent, logged, kernel>>

\* strlen() of what lies in the region from the payload on.
StringLength(bytes) ==
  CHOOSE n \in RegionBytes : bytes[n] = 0 /\ \A b \in 0 .. n - 1 : bytes[b] # 0

\* sys_log() of the payload takes a string whose length is the size given.
SysLog ==
  /\ pc[INIT] = "log" /\ Goto(INIT, "ack")
  /\ LET bytes == receive_region.bytes
         len   == bytes[PAYLOAD_SIZE]
     IN  logged' = IF StringLength(bytes) = len
                   THEN Append(logged, [i \in 1 .. len |-> bytes[i - 1]]) ELSE logged
  /\ UNCHANGED <<send_region, receive_region, sent, kernel>>

\* ipc_ack()
Acknowledged == Zeroed

Ack ==
  /\ pc[INIT] = "ack" /\ Goto(INIT, "receive")
  /\ receive_region' = Acknowledged
  /\ UNCHANGED <<send_region, sent, logged, kernel>>

\* Nothing runs after a panic.
Sender(p) ==
  /\ ~ panicked
  /\ StoreType(p) \/ StorePayload(p) \/ StoreSize(p) \/ SysSend(p) \/ SysExit(p)
Receiver == ~ panicked /\ (SysReceive \/ TestType \/ SysLog \/ Ack)

Next == (\E p \in Senders : Sender(p)) \/ Receiver

\* The timer gives every process its turn.
Fairness == WF_vars(Receiver) /\ \A p \in Senders : WF_vars(Sender(p))

Spec == Init /\ [][Next]_vars /\ Fairness
-----------------------------------------------------------------------------
\* What init has logged is what was sent, in the order of the system calls and
\* each message once, although the stores of the senders to the one region and
\* the polling of init interleave: with senders that run the same program.
LoggedAsSent ==
  /\ Len(logged) <= Len(sent)
  /\ \A i \in DOMAIN logged : logged[i] = sent[i]

\* Only a queue with two messages makes the kernel panic.
PanicsWhenCrowded == panicked => crowded

\* Every message is logged in the end, if no two wait at a time.
AllLogged ==
  <>[]((Len(logged) = Len(sent) /\ \A p \in Senders : pc[p] = "gone") \/ crowded)
=============================================================================
