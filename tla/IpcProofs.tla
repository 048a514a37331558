----------------------------- MODULE IpcProofs ------------------------------
(***************************************************************************)
(* Proofs about message passing, for every number of processes, ports,     *)
(* payload sizes, buffers and sends.  The first part is about queues of    *)
(* any length; the second about what holds until a queue has to hold two   *)
(* messages, while the system calls implement a mailbox.                   *)
(***************************************************************************)
EXTENDS Ipc, SequenceTheorems, TLAPS

Queues == [at : [0 .. MaxPending - 1 -> Messages \cup {Junk}], size : 0 .. MaxPending]

\* The history variables have a value for each process.
HistoryTyped ==
  /\ got = [p \in Pids |-> [count |-> got[p].count, last |-> got[p].last]]
  /\ \A p \in Pids : got[p].count \in Nat
  /\ oldest \in [Pids -> Messages \cup {Junk}]

\* Ports and their owners name one another; who has no port has no messages.
PortsMatch ==
  /\ \A p \in Pids : space[p].port # NoPort => port_to_pid[space[p].port] = p
  /\ \A port \in Ports : port_to_pid[port] # NoPid => space[port_to_pid[port]].port = port
  /\ \A p \in Pids : space[p].port = NoPort => Queue(p).size = 0 /\ p \notin listed

\* The messages that wait were sent to the port of their queue.
LiveRouted ==
  \A p \in Pids : \A i \in 0 .. Queue(p).size - 1 :
    Queue(p).at[i] \in Messages /\ Queue(p).at[i].receiver = space[p].port

\* The message that has waited longest is in the first slot.
OldestFirst == \A p \in Pids : Queue(p).size > 0 => Queue(p).at[0] = oldest[p]

\* Before kern_main() has made the init process there are no ports.
NoneAtBoot ==
  machine = "boot" => /\ \A p \in Pids : space[p].port = NoPort
                      /\ \A port \in Ports : port_to_pid[port] = NoPid

\* A queue that holds two messages leaves its trace.
Uncrowded == ~crowded => \A p \in Pids : Queue(p).size <= 1

IInv ==
  /\ TypeOK /\ HistoryTyped /\ PortsMatch /\ LiveRouted /\ OldestFirst /\ NoneAtBoot
  /\ Uncrowded /\ EveryMessageCounted /\ \A p \in Pids : accepted[p] <= sends
-----------------------------------------------------------------------------
(* Queues.                                                                 *)

LEMMA Bounds ==
  ASSUME IpcAssumption
  PROVE  /\ MAX_PIDS \in Nat /\ MAX_PIDS > 0 /\ MaxPending \in Nat /\ MaxPending > 0
         /\ MaxSends \in Nat /\ Ports \subseteq Nat /\ 0 \in Ports /\ Sizes \subseteq Nat
         /\ NULL \notin Buffers /\ 0 \in Pids /\ NoPid \notin Pids /\ NoPort \notin Ports
  BY DEF IpcAssumption, Pids, NoPid, NoPort

\* init() makes an empty queue.
LEMMA EmptyQueue ==
  ASSUME IpcAssumption
  PROVE  VecInit(MaxPending, Junk) \in Queues /\ VecInit(MaxPending, Junk).size = 0
  BY Bounds DEF Queues, VecInit

\* push() writes the slot after the last element and no other.
LEMMA PushQueue ==
  ASSUME IpcAssumption, NEW q \in Queues, NEW m \in Messages, q.size < MaxPending
  PROVE  /\ VecPush(q, m) \in Queues /\ VecPush(q, m).size = q.size + 1
         /\ VecPush(q, m).at[q.size] = m
         /\ \A i \in 0 .. q.size - 1 : VecPush(q, m).at[i] = q.at[i]
  <1>1. /\ q.at \in [0 .. MaxPending - 1 -> Messages \cup {Junk}] /\ q.size \in Nat
        /\ q.size \in 0 .. MaxPending - 1 /\ MaxPending \in Nat
    BY Bounds DEF Queues
  <1>2. VecPush(q, m).size = q.size + 1 /\ VecPush(q, m).at = [q.at EXCEPT ![q.size] = m]
    BY DEF VecPush
  <1>3. VecPush(q, m) \in Queues
    <2>1. [q.at EXCEPT ![q.size] = m] \in [0 .. MaxPending - 1 -> Messages \cup {Junk}]
      BY <1>1
    <2>2. q.size + 1 \in 0 .. MaxPending
      BY <1>1
    <2> QED
      BY <2>1, <2>2 DEF Queues, VecPush
  <1>4. [q.at EXCEPT ![q.size] = m][q.size] = m
    BY <1>1
  <1>5. \A i \in 0 .. q.size - 1 : [q.at EXCEPT ![q.size] = m][i] = q.at[i]
    BY <1>1
  <1> QED
    BY <1>2, <1>3, <1>4, <1>5

\* erase() of the first element: memmove() moves nothing down, so that the slots
\* are what they were and only the size falls.
LEMMA EraseQueue ==
  ASSUME IpcAssumption, NEW q \in Queues, q.size > 0
  PROVE  /\ VecErase(q, 0) \in Queues /\ VecErase(q, 0).size = q.size - 1
         /\ VecErase(q, 0).at = q.at /\ ipc_receive(q) = q.at[0]
  <1>1. VecErase(q, 0).at = q.at /\ VecErase(q, 0).size = q.size - 1
    BY DEF VecErase, memmove
  <1>2. q.size - 1 \in 0 .. MaxPending
    BY Bounds DEF Queues
  <1>3. VecErase(q, 0) = [at |-> q.at, size |-> q.size - 1]
    BY <1>1 DEF VecErase
  <1>4. VecErase(q, 0) \in Queues
    BY <1>2, <1>3 DEF Queues
  <1> QED
    BY <1>1, <1>4 DEF ipc_receive, VecGet
-----------------------------------------------------------------------------
(* Changes of the execution spaces.                                        *)

Spaces == [Pids -> [port : Ports \cup {NoPort}, message_queue : Queues]]

LEMMA SpaceType == TypeOK => space \in Spaces /\ \A p \in Pids : Queue(p) \in Queues
  BY DEF TypeOK, Spaces, Queues, Queue

\* A new queue for one process leaves the ports and the other queues alone.
LEMMA QueueChanges ==
  ASSUME TypeOK, NEW p \in Pids, NEW q \in Queues,
         space' = [space EXCEPT ![p].message_queue = q]
  PROVE  /\ space' \in Spaces /\ Queue(p)' = q
         /\ \A x \in Pids : space'[x].port = space[x].port
         /\ \A x \in Pids : x # p => Queue(x)' = Queue(x)
  BY SpaceType DEF Spaces, Queue

\* ipc_assign_port() gives one process its port and an empty queue.
LEMMA AssignChanges ==
  ASSUME IpcAssumption, TypeOK, NEW p \in Pids, NEW port \in Ports, ipc_assign_port(p, port)
  PROVE  /\ space' \in Spaces /\ Queue(p)' \in Queues /\ Queue(p)'.size = 0
         /\ space'[p].port = port
         /\ \A x \in Pids : x # p => space'[x] = space[x] /\ Queue(x)' = Queue(x)
         /\ port_to_pid' \in [Ports -> Pids \cup {NoPid}] /\ port_to_pid'[port] = p
         /\ \A o \in Ports : o # port => port_to_pid'[o] = port_to_pid[o]
  <1>1. space \in Spaces /\ port_to_pid \in [Ports -> Pids \cup {NoPid}]
    BY SpaceType DEF TypeOK
  <1> DEFINE q == VecInit(MaxPending, Junk)
  <1>2. q \in Queues /\ q.size = 0
    BY EmptyQueue
  <1>3. space' = [space EXCEPT ![p] = [port |-> port, message_queue |-> q]]
    BY DEF ipc_assign_port
  <1>4. port_to_pid' = [port_to_pid EXCEPT ![port] = p]
    BY DEF ipc_assign_port
  <1> HIDE DEF q
  <1>5. space' \in Spaces
    BY <1>1, <1>2, <1>3 DEF Spaces
  <1>6. Queue(p)' = q /\ space'[p].port = port
    BY <1>1, <1>3 DEF Spaces, Queue
  <1>7. \A x \in Pids : x # p => space'[x] = space[x] /\ Queue(x)' = Queue(x)
    BY <1>1, <1>3 DEF Spaces, Queue
  <1> QED
    BY <1>1, <1>2, <1>4, <1>5, <1>6, <1>7
-----------------------------------------------------------------------------
(* Each action keeps the invariant.                                        *)

LEMMA InitHolds ==
  ASSUME IpcAssumption, Init
  PROVE  IInv
  <1> USE Bounds
  <1>1. space = [p \in Pids |-> [port |-> NoPort, message_queue |-> VecInit(MaxPending, Junk)]]
    BY DEF Init
  <1>2. space \in Spaces
    BY <1>1, EmptyQueue DEF Spaces
  <1>3. \A p \in Pids : space[p].port = NoPort /\ Queue(p).size = 0
    BY <1>1, EmptyQueue DEF Queue
  <1>4. TypeOK
    <2>1. /\ port_to_pid \in [Ports -> Pids \cup {NoPid}] /\ listed \subseteq Pids
          /\ heap \in [Buffers -> 0 .. MaxSends] /\ accepted \in [Pids -> 0 .. MaxSends]
          /\ next_available_pid \in 0 .. MAX_PIDS /\ sends \in 0 .. MaxSends /\ leaked \subseteq Buffers
          /\ machine \in {"boot", "running", "halted"}
      BY DEF Init, ipc_init
    <2>2. crowded \in BOOLEAN
      BY Zenon DEF Init
    <2> QED
      BY <1>2, <2>1, <2>2 DEF TypeOK, Spaces, Queues
  <1>5. HistoryTyped
    <2>1. got = [p \in Pids |-> [count |-> 0, last |-> NULL]]
      BY DEF Init
    <2>2. \A p \in Pids : got[p].count = 0 /\ got[p].last = NULL
      BY <2>1
    <2>3. oldest \in [Pids -> Messages \cup {Junk}]
      BY DEF Init
    <2> QED
      BY <2>1, <2>2, <2>3 DEF HistoryTyped
  <1>6. PortsMatch /\ LiveRouted /\ OldestFirst /\ NoneAtBoot /\ Uncrowded
    BY <1>3 DEF PortsMatch, LiveRouted, OldestFirst, NoneAtBoot, Uncrowded, Init, ipc_init
  <1>7. EveryMessageCounted /\ \A p \in Pids : accepted[p] <= sends
    BY <1>3 DEF EveryMessageCounted, Init
  <1> QED
    BY <1>4, <1>5, <1>6, <1>7 DEF IInv

\* A port that was free gets its owner, whose queue was empty.
LEMMA AssignPreserves ==
  ASSUME IpcAssumption, IInv, NEW p \in Pids, NEW port \in Ports, PortFree(p, port),
         ipc_assign_port(p, port), listed' = listed \cup {p},
         next_available_pid' \in 0 .. MAX_PIDS, machine' = "running",
         UNCHANGED <<heap, sends, got, accepted, oldest, leaked, crowded>>
  PROVE  IInv'
  <1> USE Bounds
  <1>1. TypeOK /\ space[p].port = NoPort /\ port_to_pid[port] = NoPid /\ Queue(p).size = 0
    BY DEF IInv, PortFree, PortsMatch
  <1>2. /\ space' \in Spaces /\ Queue(p)'.size = 0 /\ space'[p].port = port
        /\ \A x \in Pids : x # p => space'[x] = space[x] /\ Queue(x)' = Queue(x)
        /\ port_to_pid' \in [Ports -> Pids \cup {NoPid}] /\ port_to_pid'[port] = p
        /\ \A o \in Ports : o # port => port_to_pid'[o] = port_to_pid[o]
    BY <1>1, AssignChanges
  <1>3. TypeOK'
    BY Zenon, <1>1, <1>2 DEF TypeOK, Spaces, Queues
  <1>4. \A x \in Pids : space[x].port \in Ports \cup {NoPort}
    BY <1>1, SpaceType DEF Spaces
  <1>5. PortsMatch'
    <2>1. ASSUME NEW x \in Pids, space'[x].port # NoPort PROVE port_to_pid'[space'[x].port] = x
      <3>1. CASE x = p
        BY <1>2, <3>1
      <3>2. CASE x # p
        <4>1. space'[x].port = space[x].port /\ space[x].port \in Ports
          BY <1>2, <1>4, <2>1, <3>2
        <4>2. port_to_pid[space[x].port] = x
          BY <2>1, <4>1 DEF IInv, PortsMatch
        <4>3. space[x].port # port
          BY <1>1, <4>2
        <4> QED
          BY <1>2, <4>1, <4>2, <4>3
      <3> QED
        BY <3>1, <3>2
    <2>2. ASSUME NEW o \in Ports, port_to_pid'[o] # NoPid
          PROVE  space'[port_to_pid'[o]].port = o
      <3>1. CASE o = port
        BY <1>2, <3>1
      <3>2. CASE o # port
        <4>1. port_to_pid'[o] = port_to_pid[o] /\ port_to_pid[o] \in Pids
          BY <1>1, <1>2, <2>2, <3>2 DEF TypeOK
        <4>2. space[port_to_pid[o]].port = o
          BY <2>2, <4>1 DEF IInv, PortsMatch
        <4>3. port_to_pid[o] # p
          BY <1>1, <4>2
        <4> QED
          BY <1>2, <4>1, <4>2, <4>3
      <3> QED
        BY <3>1, <3>2
    <2>3. ASSUME NEW x \in Pids, space'[x].port = NoPort
          PROVE  Queue(x)'.size = 0 /\ x \notin listed'
      <3>1. x # p
        BY <1>2, <2>3
      <3> QED
        BY <1>2, <2>3, <3>1 DEF IInv, PortsMatch
    <2> QED
      BY <2>1, <2>2, <2>3 DEF PortsMatch
  <1>6. LiveRouted'
    BY <1>2 DEF IInv, LiveRouted
  <1>7. OldestFirst' /\ NoneAtBoot' /\ Uncrowded'
    BY <1>2 DEF IInv, OldestFirst, NoneAtBoot, Uncrowded
  <1>8. EveryMessageCounted'
    BY <1>1, <1>2 DEF IInv, EveryMessageCounted
  <1>9. HistoryTyped'
    BY DEF IInv, HistoryTyped
  <1> QED
    BY <1>3, <1>5, <1>6, <1>7, <1>8, <1>9 DEF IInv

LEMMA BootPreserves ==
  ASSUME IpcAssumption, IInv, BootInit
  PROVE  IInv'
  <1> USE Bounds
  <1>1. PortFree(0, PORT_INIT) /\ listed = {}
    <2>1. \A p \in Pids : space[p].port = NoPort
      BY DEF IInv, NoneAtBoot, BootInit
    <2> QED
      BY <2>1 DEF IInv, NoneAtBoot, BootInit, PortFree, PORT_INIT, PortsMatch, TypeOK
  <1>2. listed' = listed \cup {0} /\ next_available_pid' \in 0 .. MAX_PIDS
    BY <1>1 DEF BootInit
  <1> QED
    BY <1>1, <1>2, AssignPreserves DEF BootInit, PORT_INIT

LEMMA CreatePreserves ==
  ASSUME IpcAssumption, IInv, NEW p \in Pids, NEW port \in Ports, sys_create_process(p, port)
  PROVE  IInv'
  <1> USE Bounds
  <1>1. next_available_pid' \in 0 .. MAX_PIDS /\ machine = "running" /\ machine' = "running"
    BY DEF sys_create_process, Pids, Running
  <1>2. CASE PortFree(p, port)
    BY <1>1, <1>2, AssignPreserves DEF sys_create_process
  <1>3. CASE ~ PortFree(p, port)
    <2>1. UNCHANGED <<space, port_to_pid, listed, heap, machine, sends, got, accepted, oldest, leaked, crowded>>
      BY <1>3 DEF sys_create_process
    <2> QED
      BY Zenon, <1>1, <2>1 DEF IInv, TypeOK, HistoryTyped, PortsMatch, LiveRouted, OldestFirst, NoneAtBoot,
                        Uncrowded, EveryMessageCounted, Queue
  <1> QED
    BY <1>2, <1>3

LEMMA LeavePreserves ==
  ASSUME IpcAssumption, IInv, NEW p \in Pids, Leave(p)
  PROVE  IInv'
  <1>1. UNCHANGED <<port_to_pid, space, next_available_pid, heap, machine, sends, got, accepted,
                    oldest, leaked, crowded>> /\ listed' \subseteq listed
    BY DEF Leave
  <1> QED
    BY Zenon, <1>1 DEF IInv, TypeOK, HistoryTyped, PortsMatch, LiveRouted, OldestFirst, NoneAtBoot,
                Uncrowded, EveryMessageCounted, Queue

\* The payload's buffer and the message of a send.
LEMMA SendFills ==
  ASSUME IpcAssumption, IInv, NEW p \in Pids, NEW to \in Ports, NEW sz \in Sizes,
         sys_ipc_send(p, to, sz)
  PROVE  /\ sends' = sends + 1 /\ sends' \in 0 .. MaxSends
         /\ UNCHANGED <<port_to_pid, next_available_pid, listed, got>> /\ Running
         /\ \/ /\ sz > 0 /\ FreeBuffers = {} /\ machine' = "halted"
               /\ UNCHANGED <<heap, space, accepted, oldest, leaked, crowded>>
            \/ \E b \in (FreeBuffers \cup {NULL}) :
                 /\ heap' = [x \in Buffers |-> IF x = b THEN sends + 1 ELSE heap[x]]
                 /\ ipc_send(p, to, b, sz) /\ Room(to) /\ UNCHANGED machine
  <1>1. sends \in 0 .. MaxSends /\ MaxSends \in Nat /\ sends < MaxSends
    BY Bounds DEF IInv, TypeOK, sys_ipc_send
  <1>2. sends' = sends + 1 /\ sends' \in 0 .. MaxSends
    BY <1>1 DEF sys_ipc_send
  <1>3. UNCHANGED <<port_to_pid, next_available_pid, listed, got>> /\ Running /\ Room(to)
    BY DEF sys_ipc_send
  <1>4. \/ /\ sz > 0 /\ FreeBuffers = {} /\ machine' = "halted"
           /\ UNCHANGED <<heap, space, accepted, oldest, leaked, crowded>>
        \/ \E b \in IF sz = 0 THEN {NULL} ELSE FreeBuffers :
             /\ heap' = [x \in Buffers |-> IF x = b THEN sends + 1 ELSE heap[x]]
             /\ ipc_send(p, to, b, sz) /\ UNCHANGED machine
    BY DEF sys_ipc_send
  <1> QED
    BY <1>2, <1>3, <1>4

\* A message goes to the owner of its port, at the end of its queue.
LEMMA DeliverPreserves ==
  ASSUME IpcAssumption, IInv, NEW p \in Pids, NEW to \in Ports, NEW sz \in Sizes,
         NEW b \in Buffers \cup {NULL}, ipc_send(p, to, b, sz), Room(to),
         heap' = [x \in Buffers |-> IF x = b THEN sends + 1 ELSE heap[x]],
         sends' = sends + 1, sends' \in 0 .. MaxSends, Running,
         UNCHANGED <<port_to_pid, next_available_pid, listed, got, machine>>
  PROVE  IInv'
  <1> USE Bounds
  <1> DEFINE target == port_to_pid[to]
             message == [sender |-> p, receiver |-> to, payload |-> b, payload_size |-> sz]
  <1>1. TypeOK /\ HistoryTyped /\ machine = "running" /\ message \in Messages
    BY DEF IInv, Running, Messages
  <1>2. heap' \in [Buffers -> 0 .. MaxSends]
    <2>1. sends + 1 \in 0 .. MaxSends
      OBVIOUS
    <2> QED
      BY <1>1, <2>1 DEF TypeOK
  <1>3. HistoryTyped' <=> oldest' \in [Pids -> Messages \cup {Junk}]
    BY Zenon, <1>1 DEF HistoryTyped
  <1>4. CASE target # NoPid /\ target \in listed
    <2>1. target \in Pids /\ space[target].port = to
      BY <1>1, <1>4 DEF TypeOK, IInv, PortsMatch
    <2> DEFINE q == VecPush(Queue(target), message)
    <2>2. /\ space' = [space EXCEPT ![target].message_queue = q]
          /\ accepted' = [accepted EXCEPT ![target] = accepted[target] + 1]
          /\ oldest' = IF Queue(target).size = 0
                       THEN [oldest EXCEPT ![target] = message] ELSE oldest
          /\ crowded' = (crowded \/ Queue(target).size > 0)
          /\ UNCHANGED leaked
      BY <1>4 DEF ipc_send
    <2>3. Queue(target) \in Queues /\ Queue(target).size \in Nat /\ Queue(target).size < MaxPending
      <3>1. Queue(target) \in Queues /\ Queue(target).size < MaxPending
        BY Zenon, <1>1, <1>4, <2>1, SpaceType DEF Room
      <3> QED
        BY <3>1 DEF Queues
    <2>4. /\ q \in Queues /\ q.size = Queue(target).size + 1 /\ q.at[Queue(target).size] = message
          /\ \A i \in 0 .. Queue(target).size - 1 : q.at[i] = Queue(target).at[i]
      BY <1>1, <2>3, PushQueue
    <2> HIDE DEF q
    <2>5. /\ space' \in Spaces /\ Queue(target)' = q
          /\ \A x \in Pids : space'[x].port = space[x].port
          /\ \A x \in Pids : x # target => Queue(x)' = Queue(x)
      BY Zenon, <1>1, <2>1, <2>2, <2>4, QueueChanges
    <2>6. /\ accepted \in [Pids -> 0 .. MaxSends] /\ \A x \in Pids : accepted[x] <= sends
          /\ sends \in Nat
      BY <1>1 DEF TypeOK, IInv
    <2>7. /\ accepted' \in [Pids -> 0 .. MaxSends] /\ accepted'[target] = accepted[target] + 1
          /\ \A x \in Pids : x # target => accepted'[x] = accepted[x]
          /\ \A x \in Pids : accepted'[x] <= sends'
      <3>1. accepted[target] + 1 \in 0 .. MaxSends /\ accepted[target] + 1 <= sends + 1
        BY <2>1, <2>6
      <3>2. accepted' = [accepted EXCEPT ![target] = accepted[target] + 1]
        BY <2>2
      <3> QED
        BY <2>1, <2>6, <3>1, <3>2
    <2>8. /\ oldest' \in [Pids -> Messages \cup {Junk}]
          /\ oldest'[target] = IF Queue(target).size = 0 THEN message ELSE oldest[target]
          /\ \A x \in Pids : x # target => oldest'[x] = oldest[x]
      BY <1>1, <2>1, <2>2 DEF HistoryTyped
    <2>9. TypeOK'
      <3>1. crowded' \in BOOLEAN
        BY <2>2
      <3> QED
        BY Zenon, <1>1, <1>2, <2>2, <2>5, <2>7, <3>1 DEF TypeOK, Spaces, Queues
    <2>10. PortsMatch'
      <3> HIDE DEF target, message
      <3>1. ASSUME NEW x \in Pids, space'[x].port = NoPort
            PROVE  Queue(x)'.size = 0 /\ x \notin listed'
        <4>1. x # target /\ space[x].port = NoPort
          BY <2>1, <2>5, <3>1
        <4> QED
          BY <2>5, <4>1 DEF IInv, PortsMatch
      <3>2. \A x \in Pids : space'[x].port # NoPort => port_to_pid'[space'[x].port] = x
        BY Zenon, <2>5 DEF IInv, PortsMatch
      <3>3. \A o \in Ports : port_to_pid'[o] # NoPid => space'[port_to_pid'[o]].port = o
        BY <1>1, <2>5 DEF IInv, PortsMatch, TypeOK
      <3> QED
        BY <3>1, <3>2, <3>3 DEF PortsMatch
    <2>11. LiveRouted'
      <3>1. \A i \in 0 .. q.size - 1 : q.at[i] \in Messages /\ q.at[i].receiver = to
        <4> SUFFICES ASSUME NEW i \in 0 .. q.size - 1
                     PROVE  q.at[i] \in Messages /\ q.at[i].receiver = to
          BY Zenon
        <4>1. CASE i = Queue(target).size
          BY <1>1, <2>4, <4>1
        <4>2. CASE i # Queue(target).size
          <5>1. i \in 0 .. Queue(target).size - 1
            BY <2>3, <2>4, <4>2
          <5> QED
            BY <2>1, <2>4, <5>1 DEF IInv, LiveRouted
        <4> QED
          BY <4>1, <4>2
      <3> QED
        BY <2>1, <2>5, <3>1 DEF IInv, LiveRouted
    <2>12. OldestFirst'
      <3>1. q.at[0] = oldest'[target]
        BY <2>1, <2>3, <2>4, <2>8 DEF IInv, OldestFirst
      <3> QED
        BY Zenon, <2>5, <2>8, <3>1 DEF IInv, OldestFirst
    <2>13. EveryMessageCounted'
      <3>1. got[target].count + q.size = accepted'[target]
        <4>1. got[target].count + Queue(target).size = accepted[target] /\ got[target].count \in Nat
          BY <1>1, <2>1 DEF IInv, EveryMessageCounted, HistoryTyped
        <4> QED
          BY <2>1, <2>3, <2>4, <2>6, <2>7, <4>1
      <3> QED
        BY Zenon, <2>5, <2>7, <3>1 DEF IInv, EveryMessageCounted
    <2>14. Uncrowded'
      <3> SUFFICES ASSUME ~crowded', NEW x \in Pids PROVE Queue(x)'.size <= 1
        BY DEF Uncrowded
      <3>0. ~crowded /\ ~(Queue(target).size > 0)
        BY Zenon, <2>2
      <3>1. ~crowded /\ Queue(target).size = 0
        BY <2>3, <3>0
      <3>2. CASE x = target
        BY <2>4, <2>5, <3>1, <3>2
      <3>3. CASE x # target
        BY <2>5, <3>1, <3>3 DEF IInv, Uncrowded
      <3> QED
        BY <3>2, <3>3
    <2> QED
      BY Zenon, <1>1, <1>3, <2>7, <2>8, <2>9, <2>10, <2>11, <2>12, <2>13, <2>14 DEF IInv, NoneAtBoot
  <1>5. CASE ~ (target # NoPid /\ target \in listed)
    <2>1. leaked' = leaked \cup ({b} \ {NULL}) /\ UNCHANGED <<space, accepted, oldest, crowded>>
      BY <1>5 DEF ipc_send
    <2>2. leaked' \subseteq Buffers
      BY Zenon, <1>1, <2>1 DEF TypeOK
    <2>3. \A x \in Pids : accepted'[x] <= sends'
      BY <1>1, <2>1 DEF IInv, TypeOK
    <2> QED
      BY Zenon, <1>1, <1>2, <1>3, <2>1, <2>2, <2>3
      DEF IInv, TypeOK, HistoryTyped, PortsMatch, LiveRouted, OldestFirst, NoneAtBoot,
          Uncrowded, EveryMessageCounted, Queue
  <1> QED
    BY <1>4, <1>5

LEMMA SendPreserves ==
  ASSUME IpcAssumption, IInv, NEW p \in Pids, NEW to \in Ports, NEW sz \in Sizes,
         sys_ipc_send(p, to, sz)
  PROVE  IInv'
  <1>1. /\ sends' = sends + 1 /\ sends' \in 0 .. MaxSends
        /\ UNCHANGED <<port_to_pid, next_available_pid, listed, got>> /\ Running
    BY SendFills
  <1>2. CASE machine' = "halted" /\ UNCHANGED <<heap, space, accepted, oldest, leaked, crowded>>
    <2>1. \A x \in Pids : accepted'[x] <= sends'
      BY <1>1, <1>2, Bounds DEF IInv, TypeOK
    <2> QED
      BY Zenon, <1>1, <1>2, <2>1
      DEF IInv, TypeOK, HistoryTyped, PortsMatch, LiveRouted, OldestFirst, NoneAtBoot,
          Uncrowded, EveryMessageCounted, Queue
  <1>3. ASSUME NEW b \in FreeBuffers \cup {NULL},
               heap' = [x \in Buffers |-> IF x = b THEN sends + 1 ELSE heap[x]],
               ipc_send(p, to, b, sz), Room(to), UNCHANGED machine
        PROVE  IInv'
    <2>1. b \in Buffers \cup {NULL}
      BY DEF FreeBuffers
    <2> QED
      BY <1>1, <1>3, <2>1, DeliverPreserves
  <1> QED
    BY <1>2, <1>3, SendFills

\* A receive takes the message in the first slot and makes the queue shorter.
LEMMA ReceiveTakes ==
  ASSUME IpcAssumption, IInv, NEW p \in Pids, sys_ipc_receive(p)
  PROVE  /\ Queue(p).size \in Nat /\ Queue(p).size > 0 /\ Queue(p).at[0] = oldest[p]
         /\ Queue(p).at[0] \in Messages
         /\ space' \in Spaces /\ \A x \in Pids : space'[x].port = space[x].port
         /\ \A x \in Pids : x # p => Queue(x)' = Queue(x)
         /\ Queue(p)'.at = Queue(p).at /\ Queue(p)'.size = Queue(p).size - 1
         /\ got' = [got EXCEPT ![p] = [count |-> got[p].count + 1, last |-> Response(oldest[p])]]
         /\ free(oldest[p].payload) /\ Running
         /\ UNCHANGED <<port_to_pid, next_available_pid, listed, sends, accepted, oldest, leaked, crowded>>
  <1> DEFINE q == Queue(p)
  <1>1. TypeOK /\ q \in Queues /\ q.size > 0
    BY SpaceType DEF IInv, sys_ipc_receive, HasMessage
  <1>2. /\ VecErase(q, 0) \in Queues /\ VecErase(q, 0).size = q.size - 1
        /\ VecErase(q, 0).at = q.at /\ ipc_receive(q) = q.at[0]
    BY <1>1, EraseQueue
  <1>3. q.size \in Nat
    BY <1>1 DEF Queues
  <1>4. q.at[0] = oldest[p] /\ q.at[0] \in Messages
    BY <1>1, <1>3 DEF IInv, OldestFirst, LiveRouted
  <1>5. /\ space' = [space EXCEPT ![p].message_queue = VecErase(q, 0)]
        /\ got' = [got EXCEPT ![p] = [count |-> got[p].count + 1, last |-> Response(oldest[p])]]
        /\ free(oldest[p].payload) /\ Running
        /\ UNCHANGED <<port_to_pid, next_available_pid, listed, sends, accepted, oldest, leaked, crowded>>
    BY <1>2, <1>4 DEF sys_ipc_receive
  <1> HIDE DEF q
  <1>6. /\ space' \in Spaces /\ Queue(p)' = VecErase(q, 0)
        /\ \A x \in Pids : space'[x].port = space[x].port
        /\ \A x \in Pids : x # p => Queue(x)' = Queue(x)
    BY Zenon, <1>1, <1>2, <1>5, QueueChanges
  <1> QED
    BY <1>1, <1>2, <1>3, <1>4, <1>5, <1>6 DEF q

LEMMA ReceivePreserves ==
  ASSUME IpcAssumption, IInv, NEW p \in Pids, sys_ipc_receive(p)
  PROVE  IInv'
  <1> USE Bounds
  <1>1. /\ Queue(p).size \in Nat /\ Queue(p).size > 0 /\ Queue(p).at[0] = oldest[p]
        /\ Queue(p).at[0] \in Messages
        /\ space' \in Spaces /\ \A x \in Pids : space'[x].port = space[x].port
        /\ \A x \in Pids : x # p => Queue(x)' = Queue(x)
        /\ Queue(p)'.at = Queue(p).at /\ Queue(p)'.size = Queue(p).size - 1
        /\ got' = [got EXCEPT ![p] = [count |-> got[p].count + 1, last |-> Response(oldest[p])]]
        /\ free(oldest[p].payload) /\ Running
        /\ UNCHANGED <<port_to_pid, next_available_pid, listed, sends, accepted, oldest, leaked, crowded>>
    BY Zenon, ReceiveTakes
  <1>2. TypeOK /\ HistoryTyped /\ machine = "running" /\ oldest[p] \in Messages
    BY Zenon, <1>1 DEF IInv, Running
  <1>3. heap' \in [Buffers -> 0 .. MaxSends] /\ machine' \in {"running", "halted"}
    <2>1. heap \in [Buffers -> 0 .. MaxSends]
      BY Zenon, <1>2 DEF TypeOK
    <2> QED
      BY <1>1, <1>2, <2>1 DEF free
  <1>4. TypeOK'
    BY Zenon, <1>1, <1>2, <1>3 DEF TypeOK, Spaces, Queues
  <1>5. /\ HistoryTyped' /\ got'[p].count = got[p].count + 1
        /\ \A x \in Pids : x # p => got'[x] = got[x]
    <2> DEFINE answer == Response(oldest[p])
    <2>1. /\ got = [x \in Pids |-> [count |-> got[x].count, last |-> got[x].last]]
          /\ \A x \in Pids : got[x].count \in Nat
      BY <1>2 DEF HistoryTyped
    <2>2. got' = [got EXCEPT ![p] = [count |-> got[p].count + 1, last |-> answer]]
      BY <1>1
    <2> HIDE DEF answer
    <2>3. got'[p] = [count |-> got[p].count + 1, last |-> answer] /\ \A x \in Pids : x # p => got'[x] = got[x]
      BY <2>1, <2>2
    <2>4. got' = [x \in Pids |-> got'[x]]
      BY <2>1, <2>2
    <2>5. \A x \in Pids : got'[x] = [count |-> got'[x].count, last |-> got'[x].last]
      BY Zenon, <2>1, <2>3
    <2>6. got' = [x \in Pids |-> [count |-> got'[x].count, last |-> got'[x].last]]
      BY <2>4, <2>5
    <2>7. \A x \in Pids : got'[x].count \in Nat
      BY <2>1, <2>3
    <2> QED
      BY <1>1, <1>2, <2>3, <2>6, <2>7 DEF HistoryTyped
  <1>6. PortsMatch'
    <2>1. \A x \in Pids : space'[x].port # NoPort => port_to_pid'[space'[x].port] = x
      BY Zenon, <1>1 DEF IInv, PortsMatch
    <2>2. \A o \in Ports : port_to_pid'[o] # NoPid => space'[port_to_pid'[o]].port = o
      BY Zenon, <1>1, <1>2 DEF IInv, PortsMatch, TypeOK
    <2>3. ASSUME NEW x \in Pids, space'[x].port = NoPort
          PROVE  Queue(x)'.size = 0 /\ x \notin listed'
      <3>1. Queue(x).size = 0 /\ x \notin listed
        BY Zenon, <1>1, <2>3 DEF IInv, PortsMatch
      <3>2. x # p
        BY <1>1, <3>1
      <3> QED
        BY <1>1, <3>1, <3>2
    <2> QED
      BY Zenon, <2>1, <2>2, <2>3 DEF PortsMatch
  <1>7. LiveRouted'
    BY <1>1 DEF IInv, LiveRouted
  <1>8. OldestFirst'
    BY Zenon, <1>1 DEF IInv, OldestFirst
  <1>9. EveryMessageCounted'
    <2>1. got[p].count \in Nat /\ got[p].count + Queue(p).size = accepted[p]
      BY <1>2 DEF HistoryTyped, IInv, EveryMessageCounted
    <2>2. got'[p].count + Queue(p)'.size = accepted'[p]
      BY <1>1, <1>5, <2>1
    <2> QED
      BY <1>1, <1>5, <2>2 DEF IInv, EveryMessageCounted
  <1>10. NoneAtBoot' /\ \A x \in Pids : accepted'[x] <= sends'
    BY Zenon, <1>1, <1>3 DEF IInv, NoneAtBoot
  <1>11. Uncrowded'
    BY <1>1 DEF IInv, Uncrowded
  <1> QED
    BY Zenon, <1>4, <1>5, <1>6, <1>7, <1>8, <1>9, <1>10, <1>11 DEF IInv

LEMMA StepPreserves ==
  ASSUME IpcAssumption, IInv, [Next]_vars
  PROVE  IInv'
  <1>1. ASSUME NEW p \in Pids, NEW port \in Ports, sys_create_process(p, port) PROVE IInv'
    BY <1>1, CreatePreserves
  <1>2. ASSUME NEW p \in Pids, Leave(p) PROVE IInv'
    BY <1>2, LeavePreserves
  <1>3. ASSUME NEW p \in Pids, NEW to \in Ports, NEW sz \in Sizes, sys_ipc_send(p, to, sz) PROVE IInv'
    BY Zenon, <1>3, SendPreserves
  <1>4. ASSUME NEW p \in Pids, sys_ipc_receive(p) PROVE IInv'
    BY <1>4, ReceivePreserves
  <1>5. CASE UNCHANGED vars
    BY <1>5 DEF vars, IInv, TypeOK, HistoryTyped, PortsMatch, LiveRouted, OldestFirst, NoneAtBoot,
                Uncrowded, EveryMessageCounted, Queue
  <1> QED
    BY <1>1, <1>2, <1>3, <1>4, <1>5, BootPreserves DEF Next

\* The invariant holds in every state that the system calls reach.
THEOREM IpcInvariant ==
  ASSUME IpcAssumption
  PROVE  Spec => []IInv
  <1>1. Init => IInv
    BY InitHolds
  <1>2. IInv /\ [Next]_vars => IInv'
    BY StepPreserves
  <1> QED
    BY <1>1, <1>2, PTL DEF Spec

\* However many messages wait in a queue: a message waits only with the owner of
\* the port that ipc_send() was given, and a process has received as many as were
\* put into its queue, but for those that wait.
THEOREM NoMessageAstray ==
  ASSUME IpcAssumption
  PROVE  Spec => []MessagesAccounted
  <1>1. IInv => RoutedToOwner
    <2> SUFFICES ASSUME IInv, NEW p \in Pids
                 PROVE  /\ space[p].port # NoPort => port_to_pid[space[p].port] = p
                        /\ p \in listed => space[p].port # NoPort
                        /\ \A message \in Live(p) : message.receiver = space[p].port
      BY DEF RoutedToOwner
    <2>1. \A message \in Live(p) : message.receiver = space[p].port
      BY DEF IInv, LiveRouted, Live, VecGet, VecLive
    <2> QED
      BY <2>1 DEF IInv, PortsMatch
  <1>2. IInv => MessagesAccounted
    BY <1>1 DEF IInv, MessagesAccounted
  <1> QED
    BY <1>2, IpcInvariant, PTL

\* What a receive delivers.
OldestTaken ==
  \A p \in Pids : got'[p].count # got[p].count => got'[p].last = Response(oldest[p])

\* ipc_receive() returns the message that has waited longest since the queue was
\* last empty: no step that changes what a process received does anything else.
THEOREM OldestIsDelivered ==
  ASSUME IpcAssumption
  PROVE  Spec => DeliversOldest
  <1>1. ASSUME IInv, [Next]_vars
        PROVE  [OldestTaken]_vars
    <2>1. CASE UNCHANGED got
      BY <2>1 DEF OldestTaken
    <2>2. ASSUME NEW p \in Pids, sys_ipc_receive(p)
          PROVE  OldestTaken
      <3> DEFINE answer == Response(oldest[p])
      <3>1. got' = [got EXCEPT ![p] = [count |-> got[p].count + 1, last |-> answer]]
        BY <1>1, <2>2, ReceiveTakes
      <3>2. got = [x \in Pids |-> [count |-> got[x].count, last |-> got[x].last]]
        BY <1>1 DEF IInv, HistoryTyped
      <3> HIDE DEF answer
      <3>3. got'[p].last = answer /\ \A x \in Pids : x # p => got'[x] = got[x]
        BY <3>1, <3>2
      <3>4. \A x \in Pids : x # p => got'[x].count = got[x].count
        BY <3>3
      <3>5. \A x \in Pids : got'[x].count # got[x].count => got'[x].last = Response(oldest[x])
        BY <3>3, <3>4 DEF answer
      <3> QED
        BY Zenon, <3>5 DEF OldestTaken
    <2>3. ASSUME NEW p \in Pids, NEW port \in Ports, sys_create_process(p, port)
          PROVE  UNCHANGED got
      BY <2>3 DEF sys_create_process
    <2>4. ASSUME NEW p \in Pids, NEW to \in Ports, NEW sz \in Sizes, sys_ipc_send(p, to, sz)
          PROVE  UNCHANGED got
      BY <2>4 DEF sys_ipc_send
    <2>5. ASSUME NEW p \in Pids, Leave(p)
          PROVE  UNCHANGED got
      BY <2>5 DEF Leave
    <2> QED
      BY <1>1, <2>1, <2>2, <2>3, <2>4, <2>5 DEF Next, BootInit, vars
  <1> QED
    BY <1>1, IpcInvariant, PTL DEF Spec, DeliversOldest, OldestTaken
-----------------------------------------------------------------------------
(* Until a queue has held two messages.                                    *)

OneMessage == \A p \in Pids : Queue(p).size \in {0, 1}

\* The response to a message with a given content of the heap.
Answer(message, h) ==
  [sender       |-> message.sender,
   data         |-> IF message.payload = NULL THEN 0 ELSE h[message.payload],
   payload_size |-> IF message.payload_size <= InlineBytes
                    THEN message.payload_size ELSE Overwritten]

LEMMA ResponseIsAnswer == \A message : Response(message) = Answer(message, heap)
  BY DEF Response, Answer

\* The queue and the mailbox of a process then have one element or none.
WaitingKnown ==
  \A p \in Pids :
    /\ Queue(p).size \in {0, 1}
    /\ Waiting(p) = IF Queue(p).size = 0 THEN {} ELSE {Queue(p).at[0].payload} \ {NULL}

InboxKnown ==
  /\ Inbox = [p \in Pids |-> Inbox[p]]
  /\ \A p \in Pids :
       Inbox[p] = IF Queue(p).size = 0 THEN <<>> ELSE <<Answer(Queue(p).at[0], heap)>>

LEMMA WaitingIs == OneMessage => WaitingKnown
  <1> SUFFICES ASSUME OneMessage, NEW p \in Pids
               PROVE  /\ Queue(p).size \in {0, 1}
                      /\ Waiting(p) = IF Queue(p).size = 0 THEN {} ELSE {Queue(p).at[0].payload} \ {NULL}
    BY DEF WaitingKnown
  <1>1. Queue(p).size \in {0, 1}
    BY DEF OneMessage
  <1>2. 0 .. Queue(p).size - 1 = IF Queue(p).size = 0 THEN {} ELSE {0}
    <2>1. 0 .. 0 - 1 = {} /\ 0 .. 1 - 1 = {0}
      OBVIOUS
    <2> QED
      BY Zenon, <1>1, <2>1
  <1>3. Live(p) = IF Queue(p).size = 0 THEN {} ELSE {Queue(p).at[0]}
    BY Zenon, <1>2 DEF Live, VecLive, VecGet
  <1> QED
    BY <1>1, <1>3 DEF Waiting

LEMMA InboxIs == OneMessage => InboxKnown
  <1> SUFFICES ASSUME OneMessage, NEW p \in Pids
               PROVE  Inbox[p] = IF Queue(p).size = 0 THEN <<>> ELSE <<Answer(Queue(p).at[0], heap)>>
    BY DEF Inbox, InboxKnown
  <1>1. Queue(p).size \in {0, 1}
    BY WaitingIs DEF WaitingKnown
  <1> DEFINE R(i) == Response(VecGet(Queue(p), i - 1))
             s == [k \in 1 .. Queue(p).size |-> R(k)]
  <1>2. Inbox[p] = s
    BY DEF Inbox
  <1>3. CASE Queue(p).size = 0
    <2> HIDE DEF R
    <2>1. s = <<>>
      BY <1>3
    <2> QED
      BY <1>2, <1>3, <2>1
  <1>4. CASE Queue(p).size = 1
    <2>1. R(1) = Answer(Queue(p).at[0], heap)
      BY ResponseIsAnswer DEF VecGet
    <2> HIDE DEF R
    <2>2. s \in Seq({R(1)}) /\ <<R(1)>> \in Seq({R(1)}) /\ Len(s) = 1 /\ s[1] = R(1)
      BY <1>4
    <2>3. Len(<<R(1)>>) = 1 /\ <<R(1)>>[1] = R(1)
      OBVIOUS
    <2>4. \A i \in 1 .. 1 : s[i] = <<R(1)>>[i]
      BY <2>2, <2>3
    <2> HIDE DEF s
    <2>5. s = <<R(1)>>
      BY <2>2, <2>3, <2>4, SeqEqual
    <2> QED
      BY <1>2, <1>4, <2>1, <2>5
  <1> QED
    BY Zenon, <1>1, <1>3, <1>4

LEMMA AfterStep == OneMessage' => WaitingKnown' /\ InboxKnown'
  BY WaitingIs, InboxIs, PTL

\* An answer does not change with the heap but by its own buffer.
LEMMA AnswerSame ==
  ASSUME NEW m, NEW h, NEW k, m.payload # NULL => h[m.payload] = k[m.payload]
  PROVE  Answer(m, h) = Answer(m, k)
  BY DEF Answer

\* What a step does that leaves every queue alone and every buffer in use.
LEMMA QueuesSame ==
  ASSUME OneMessage, OneMessage',
         \A p \in Pids :
           /\ Queue(p)'.size = Queue(p).size
           /\ Queue(p).size > 0 => /\ Queue(p)'.at[0] = Queue(p).at[0]
                                   /\ \A b \in Waiting(p) : heap'[b] = heap[b]
  PROVE  Inbox' = Inbox /\ \A p \in Pids : Waiting(p)' = Waiting(p)
  <1>1. WaitingKnown /\ InboxKnown /\ WaitingKnown' /\ InboxKnown'
    BY Zenon, WaitingIs, InboxIs, AfterStep
  <1>2. ASSUME NEW p \in Pids PROVE Waiting(p)' = Waiting(p)
    <2>1. /\ Queue(p).size \in {0, 1}
          /\ Waiting(p) = IF Queue(p).size = 0 THEN {} ELSE {Queue(p).at[0].payload} \ {NULL}
          /\ Waiting(p)' = IF Queue(p)'.size = 0 THEN {} ELSE {Queue(p)'.at[0].payload} \ {NULL}
      BY Zenon, <1>1 DEF WaitingKnown
    <2>2. CASE Queue(p).size = 0
      BY Zenon, <2>1, <2>2
    <2>3. CASE Queue(p).size = 1
      <3>1. Queue(p).size > 0 /\ Queue(p)'.size # 0
        BY <2>3
      <3> QED
        BY Zenon, <2>1, <2>3, <3>1
    <2> QED
      BY <2>1, <2>2, <2>3
  <1>3. ASSUME NEW p \in Pids PROVE Inbox'[p] = Inbox[p]
    <2>1. CASE Queue(p).size = 0
      BY Zenon, <1>1, <2>1 DEF InboxKnown
    <2>2. CASE Queue(p).size # 0
      <3> DEFINE m == Queue(p).at[0]
      <3>1. Queue(p).size > 0 /\ Queue(p)'.size # 0
        BY <1>1, <2>2 DEF WaitingKnown
      <3>2. Queue(p)'.at[0] = m
        BY Zenon, <3>1
      <3>3. m.payload # NULL => m.payload \in Waiting(p)
        BY Zenon, <1>1, <2>2 DEF WaitingKnown
      <3>4. Answer(m, heap) = Answer(m, heap')
        BY <3>1, <3>3, AnswerSame
      <3>5. Inbox[p] = <<Answer(m, heap)>>
        BY <1>1, <2>2 DEF InboxKnown
      <3>6. Inbox'[p] = <<Answer(m, heap')>>
        BY <1>1, <3>1, <3>2 DEF InboxKnown
      <3> QED
        BY Zenon, <3>4, <3>5, <3>6
    <2> QED
      BY <2>1, <2>2
  <1> QED
    BY <1>1, <1>2, <1>3 DEF InboxKnown

\* Where the message of a send goes.
LEMMA DeliverPuts ==
  ASSUME IpcAssumption, IInv, ~crowded', NEW p \in Pids, NEW to \in Ports, NEW sz \in Sizes,
         NEW b \in Buffers \cup {NULL}, NEW message,
         message = [sender |-> p, receiver |-> to, payload |-> b, payload_size |-> sz],
         ipc_send(p, to, b, sz), Room(to),
         NEW target, target = port_to_pid[to], target # NoPid, target \in listed
  PROVE  /\ target \in Pids /\ Queue(target).size = 0 /\ leaked' = leaked
         /\ Queue(target)'.size = 1 /\ Queue(target)'.at[0] = message
         /\ \A x \in Pids : x # target => Queue(x)' = Queue(x)
  <1>1. TypeOK
    BY DEF IInv
  <1>2. target \in Pids /\ message \in Messages
    BY <1>1 DEF TypeOK, Messages
  <1>3. Queue(target) \in Queues /\ Queue(target).size < MaxPending
    BY <1>1, <1>2, SpaceType DEF Room
  <1>4. Queue(target).size = 0
    <2>1. Queue(target).size \in Nat
      BY <1>3 DEF Queues
    <2>2. ~(Queue(target).size > 0)
      BY Zenon DEF ipc_send
    <2> QED
      BY <2>1, <2>2
  <1> DEFINE q == VecPush(Queue(target), message)
  <1>5. q \in Queues /\ q.size = 1 /\ q.at[0] = message
    BY <1>1, <1>2, <1>3, <1>4, PushQueue
  <1>6. space' = [space EXCEPT ![target].message_queue = q] /\ leaked' = leaked
    BY DEF ipc_send
  <1> HIDE DEF q
  <1>7. Queue(target)' = q /\ \A x \in Pids : x # target => Queue(x)' = Queue(x)
    BY Zenon, <1>1, <1>2, <1>5, <1>6, QueueChanges
  <1> QED
    BY <1>2, <1>4, <1>5, <1>6, <1>7

\* What holds until then, and what a step has to show.
IInv1 == IInv /\ OneMessage /\ OneOwner /\ HaltsOnlyWhenExhausted

MailboxStep == [M!Next]_<<Inbox, got>>

Good1 == OneOwner' /\ HaltsOnlyWhenExhausted' /\ MailboxStep

LEMMA BothKnown ==
  ASSUME IInv1, OneMessage'
  PROVE  WaitingKnown /\ InboxKnown /\ WaitingKnown' /\ InboxKnown' /\ TypeOK
  <1>1. OneMessage /\ TypeOK
    BY Zenon DEF IInv, IInv1
  <1> QED
    BY Zenon, <1>1, WaitingIs, InboxIs, AfterStep

LEMMA SilentGood ==
  ASSUME IInv1, OneMessage', UNCHANGED <<heap, leaked, got>>,
         \A p \in Pids :
           /\ Queue(p)'.size = Queue(p).size
           /\ Queue(p).size > 0 => Queue(p)'.at[0] = Queue(p).at[0],
         machine' = "halted" => machine = "halted" \/ FreeBuffers = {}
  PROVE  Good1
  <1>1. Inbox' = Inbox /\ \A p \in Pids : Waiting(p)' = Waiting(p)
    BY QueuesSame DEF IInv1
  <1>2. OneOwner'
    BY <1>1 DEF IInv1, OneOwner
  <1>3. HaltsOnlyWhenExhausted'
    BY DEF IInv1, HaltsOnlyWhenExhausted, FreeBuffers
  <1> QED
    BY <1>1, <1>2, <1>3 DEF Good1, MailboxStep

\* The message of a send is the one that is put into the mailbox.
LEMMA PutGood ==
  ASSUME IpcAssumption, IInv1, IInv', OneMessage', ~crowded', NEW p \in Pids, NEW to \in Ports,
         NEW sz \in Sizes, NEW b \in FreeBuffers \cup {NULL}, ipc_send(p, to, b, sz), Room(to),
         heap' = [x \in Buffers |-> IF x = b THEN sends + 1 ELSE heap[x]],
         Running, UNCHANGED <<got, machine>>
  PROVE  Good1
  <1> PICK target : target = port_to_pid[to]
    OBVIOUS
  <1> PICK message : message = [sender |-> p, receiver |-> to, payload |-> b, payload_size |-> sz]
    BY Zenon
  <1>1. /\ b \in Buffers \cup {NULL} /\ (b # NULL => heap[b] = 0) /\ NULL \notin Buffers
        /\ sends \in Nat /\ sends' \in 0 .. MaxSends /\ heap' \in [Buffers -> 0 .. MaxSends]
    <2>1. TypeOK /\ TypeOK'
      BY Zenon DEF IInv1, IInv
    <2>2. sends' \in 0 .. MaxSends /\ heap' \in [Buffers -> 0 .. MaxSends]
      BY Zenon, <2>1 DEF TypeOK
    <2>3. sends \in Nat /\ NULL \notin Buffers
      BY <2>1, Bounds DEF TypeOK
    <2>4. b \in Buffers \cup {NULL} /\ (b # NULL => heap[b] = 0)
      BY Zenon DEF FreeBuffers
    <2> QED
      BY Zenon, <2>2, <2>3, <2>4
  <1>2. /\ b # NULL => heap'[b] # 0
        /\ \A x \in Buffers : x # b => heap'[x] = heap[x]
    BY <1>1
  <1>3. WaitingKnown /\ InboxKnown /\ WaitingKnown' /\ InboxKnown' /\ TypeOK
    BY Zenon, BothKnown
  <1>4. /\ leaked \subseteq Buffers
        /\ \A x \in Pids : Waiting(x) \subseteq Buffers /\ Waiting(x) \cap leaked = {}
        /\ \A x, y \in Pids : x # y => Waiting(x) \cap Waiting(y) = {}
        /\ \A x \in Pids : b \notin Waiting(x)
        /\ b \notin leaked
    <2>1. /\ {x \in Buffers : heap[x] # 0} = leaked \cup UNION {Waiting(x) : x \in Pids}
          /\ \A x \in Pids : Waiting(x) \cap leaked = {}
          /\ \A x, y \in Pids : x # y => Waiting(x) \cap Waiting(y) = {}
      BY DEF IInv1, OneOwner
    <2> QED
      BY <1>1, <2>1
  <1>5. HaltsOnlyWhenExhausted'
    BY DEF HaltsOnlyWhenExhausted, Running
  <1>6. \A x \in Pids : \A y \in Waiting(x) : heap'[y] = heap[y]
    BY <1>2, <1>4
  <1>7. CASE target # NoPid /\ target \in listed
    <2>2. /\ target \in Pids /\ Queue(target).size = 0 /\ leaked' = leaked
          /\ Queue(target)'.size = 1 /\ Queue(target)'.at[0] = message
          /\ \A x \in Pids : x # target => Queue(x)' = Queue(x)
      BY <1>1, <1>7, DeliverPuts DEF IInv1
    <2>3. /\ Waiting(target) = {} /\ Waiting(target)' = {b} \ {NULL}
          /\ \A x \in Pids : x # target => Waiting(x)' = Waiting(x)
      <3>1. Waiting(target) = {}
        BY Zenon, <1>3, <2>2 DEF WaitingKnown
      <3>2. Waiting(target)' = {message.payload} \ {NULL}
        BY <1>3, <2>2 DEF WaitingKnown
      <3>3. message.payload = b
        BY Zenon
      <3>4. ASSUME NEW x \in Pids, x # target PROVE Waiting(x)' = Waiting(x)
        <4>1. Queue(x)' = Queue(x)
          BY Zenon, <2>2, <3>4
        <4>2. Waiting(x) = IF Queue(x).size = 0 THEN {} ELSE {Queue(x).at[0].payload} \ {NULL}
          BY Zenon, <1>3 DEF WaitingKnown
        <4>3. Waiting(x)' = IF Queue(x)'.size = 0 THEN {} ELSE {Queue(x)'.at[0].payload} \ {NULL}
          BY Zenon, <1>3 DEF WaitingKnown
        <4> QED
          BY Zenon, <4>1, <4>2, <4>3
      <3> QED
        BY Zenon, <3>1, <3>2, <3>3, <3>4
    <2>4. OneOwner'
      <3>1. {x \in Buffers : heap'[x] # 0} = {x \in Buffers : heap[x] # 0} \cup ({b} \ {NULL})
        BY Zenon, <1>1, <1>2
      <3>2. UNION {Waiting(x)' : x \in Pids} = (UNION {Waiting(x) : x \in Pids}) \cup ({b} \ {NULL})
        BY <2>2, <2>3
      <3>3. {x \in Buffers : heap'[x] # 0} = leaked' \cup UNION {Waiting(x)' : x \in Pids}
        BY Zenon, <2>2, <3>1, <3>2 DEF IInv1, OneOwner
      <3>4. \A x \in Pids : Waiting(x)' \cap leaked' = {}
        <4> TAKE x \in Pids
        <4>1. CASE x = target
          BY Zenon, <1>4, <2>2, <2>3, <4>1
        <4>2. CASE x # target
          BY Zenon, <1>4, <2>2, <2>3, <4>2
        <4> QED
          BY Zenon, <4>1, <4>2
      <3>5. \A x, y \in Pids : x # y => Waiting(x)' \cap Waiting(y)' = {}
        BY <1>4, <2>2, <2>3
      <3> QED
        BY Zenon, <3>3, <3>4, <3>5 DEF OneOwner
    <2>5. Answer(message, heap') \in Responses
      <3>1. b # NULL => heap'[b] \in 0 .. MaxSends
        BY <1>1
      <3>2. /\ message.payload = b /\ message.sender = p /\ message.payload_size = sz
        OBVIOUS
      <3>3. 0 \in 0 .. MaxSends
        BY Bounds
      <3> QED
        BY Zenon, <3>1, <3>2, <3>3 DEF Answer, Responses
    <2>6. Inbox' = [Inbox EXCEPT ![target] = Append(@, Answer(message, heap'))]
      <3>1. Inbox[target] = <<>> /\ Inbox'[target] = <<Answer(message, heap')>>
        BY <1>3, <2>2 DEF InboxKnown
      <3>2. ASSUME NEW x \in Pids, x # target PROVE Inbox'[x] = Inbox[x]
        <4>1. CASE Queue(x).size = 0
          BY <1>3, <2>2, <3>2, <4>1 DEF InboxKnown
        <4>2. CASE Queue(x).size # 0
          <5> DEFINE m == Queue(x).at[0]
          <5>1. m.payload # NULL => m.payload \in Waiting(x)
            BY SMTT(30), <1>3, <4>2 DEF WaitingKnown
          <5>2. Answer(m, heap) = Answer(m, heap')
            BY Zenon, <1>6, <5>1, AnswerSame
          <5>3. Inbox[x] = <<Answer(m, heap)>>
            BY Zenon, <1>3, <4>2 DEF InboxKnown
          <5>4. Inbox'[x] = <<Answer(m, heap')>>
            BY <1>3, <2>2, <3>2, <4>2 DEF InboxKnown
          <5> QED
            BY Zenon, <5>2, <5>3, <5>4
        <4> QED
          BY <4>1, <4>2
      <3>3. Append(<<>>, Answer(message, heap')) = <<Answer(message, heap')>>
        OBVIOUS
      <3>4. Inbox = [x \in Pids |-> Inbox[x]] /\ Inbox' = [x \in Pids |-> Inbox'[x]]
        BY <1>3 DEF InboxKnown
      <3> PICK answers : answers = <<Answer(message, heap')>>
        BY Zenon
      <3>5. Inbox'[target] = answers /\ Append(Inbox[target], Answer(message, heap')) = answers
        BY <3>1, <3>3
      <3>6. Inbox' = [Inbox EXCEPT ![target] = answers]
        BY <2>2, <3>2, <3>4, <3>5
      <3> QED
        BY Zenon, <3>5, <3>6
    <2>7. M!Next
      BY Zenon, <2>2, <2>5, <2>6 DEF M!Next, M!Put
    <2> QED
      BY Zenon, <1>5, <2>4, <2>7 DEF Good1, MailboxStep
  <1>8. CASE ~ (target # NoPid /\ target \in listed)
    <2>1. leaked' = leaked \cup ({b} \ {NULL}) /\ space' = space
      BY <1>8 DEF ipc_send
    <2>2. \A x \in Pids : Queue(x)' = Queue(x)
      BY <2>1 DEF Queue
    <2>3. Inbox' = Inbox /\ \A x \in Pids : Waiting(x)' = Waiting(x)
      BY Zenon, <1>6, <2>2, QueuesSame DEF IInv1
    <2>4. OneOwner'
      <3>1. {x \in Buffers : heap'[x] # 0} = {x \in Buffers : heap[x] # 0} \cup ({b} \ {NULL})
        BY Zenon, <1>1, <1>2
      <3>2. UNION {Waiting(x)' : x \in Pids} = UNION {Waiting(x) : x \in Pids}
        BY <2>3
      <3>3. {x \in Buffers : heap'[x] # 0} = leaked' \cup UNION {Waiting(x)' : x \in Pids}
        BY <2>1, <3>1, <3>2 DEF IInv1, OneOwner
      <3>4. \A x \in Pids : Waiting(x)' \cap leaked' = {}
        BY <1>4, <2>1, <2>3
      <3> QED
        BY Zenon, <1>4, <2>3, <3>3, <3>4 DEF OneOwner
    <2> QED
      BY <1>5, <2>3, <2>4 DEF Good1, MailboxStep
  <1> QED
    BY <1>7, <1>8

\* A receive takes the message out of the mailbox and frees its buffer, which no
\* other message has.
LEMMA TakeGood ==
  ASSUME IpcAssumption, IInv1, OneMessage', NEW p \in Pids, sys_ipc_receive(p)
  PROVE  Good1
  <1> PICK message : message = oldest[p]
    OBVIOUS
  <1>1. WaitingKnown /\ InboxKnown /\ WaitingKnown' /\ InboxKnown' /\ TypeOK
    BY Zenon, BothKnown
  <1>2. /\ Queue(p).size > 0 /\ Queue(p).at[0] = message /\ message \in Messages
        /\ \A x \in Pids : x # p => Queue(x)' = Queue(x)
        /\ Queue(p).size \in Nat /\ Queue(p)'.size = Queue(p).size - 1
        /\ got' = [got EXCEPT ![p] = [count |-> got[p].count + 1, last |-> Response(message)]]
        /\ free(message.payload) /\ Running /\ leaked' = leaked
    BY Zenon, ReceiveTakes DEF IInv1
  <1>3. Queue(p).size = 1 /\ Queue(p)'.size = 0
    <2>1. Queue(p).size \in {0, 1}
      BY Zenon, <1>1 DEF WaitingKnown
    <2> QED
      BY <1>2, <2>1
  <1> PICK b : b = message.payload
    BY Zenon
  <1>4. Waiting(p) = {b} \ {NULL} /\ Waiting(p)' = {}
    <2>1. Waiting(p) = {Queue(p).at[0].payload} \ {NULL}
      BY <1>1, <1>3 DEF WaitingKnown
    <2>2. Waiting(p)' = {}
      BY <1>1, <1>3 DEF WaitingKnown
    <2> QED
      BY Zenon, <1>2, <2>1, <2>2
  <1>5. ASSUME NEW x \in Pids, x # p PROVE Waiting(x)' = Waiting(x)
    <2>1. Queue(x)' = Queue(x)
      BY Zenon, <1>2, <1>5
    <2>2. Waiting(x) = IF Queue(x).size = 0 THEN {} ELSE {Queue(x).at[0].payload} \ {NULL}
      BY Zenon, <1>1 DEF WaitingKnown
    <2>3. Waiting(x)' = IF Queue(x)'.size = 0 THEN {} ELSE {Queue(x)'.at[0].payload} \ {NULL}
      BY <1>1 DEF WaitingKnown
    <2> QED
      BY Zenon, <2>1, <2>2, <2>3
  <1>6. /\ {x \in Buffers : heap[x] # 0} = leaked \cup UNION {Waiting(x) : x \in Pids}
        /\ \A x \in Pids : Waiting(x) \cap leaked = {}
        /\ \A x, y \in Pids : x # y => Waiting(x) \cap Waiting(y) = {}
    BY DEF IInv1, OneOwner
  <1>7. b # NULL => b \in Buffers /\ heap[b] # 0
    <2>1. b # NULL => b \in Waiting(p)
      BY Zenon, <1>4
    <2> QED
      BY Zenon, <1>6, <2>1
  <1>8. free(b) /\ heap \in [Buffers -> 0 .. MaxSends] /\ NULL \notin Buffers
    BY <1>1, <1>2, Bounds DEF TypeOK
  <1>9. /\ machine' = machine
        /\ \A x \in Buffers : heap'[x] = IF x = b THEN 0 ELSE heap[x]
    BY Zenon, <1>7, <1>8 DEF free
  <1>10. HaltsOnlyWhenExhausted'
    BY <1>2, <1>9 DEF HaltsOnlyWhenExhausted, Running
  <1>11. OneOwner'
    <2>1. {x \in Buffers : heap'[x] # 0} = {x \in Buffers : heap[x] # 0} \ ({b} \ {NULL})
      BY Zenon, <1>8, <1>9
    <2>2. UNION {Waiting(x)' : x \in Pids} = (UNION {Waiting(x) : x \in Pids}) \ ({b} \ {NULL})
      <3>1. \A x \in Pids : Waiting(x)' = Waiting(x) \ ({b} \ {NULL})
        <4> TAKE x \in Pids
        <4>1. CASE x = p
          BY Zenon, <1>4, <4>1
        <4>2. CASE x # p
          <5>1. Waiting(x)' = Waiting(x) /\ Waiting(x) \cap ({b} \ {NULL}) = {}
            BY Zenon, <1>4, <1>5, <1>6, <4>2
          <5> QED
            BY Zenon, <5>1
        <4> QED
          BY Zenon, <4>1, <4>2
      <3> QED
        BY <3>1
    <2>3. {x \in Buffers : heap'[x] # 0} = leaked' \cup UNION {Waiting(x)' : x \in Pids}
      BY <1>2, <1>4, <1>6, <2>1, <2>2
    <2>4. \A x \in Pids : Waiting(x)' \cap leaked' = {}
      BY <1>2, <1>4, <1>5, <1>6
    <2>5. \A x, y \in Pids : x # y => Waiting(x)' \cap Waiting(y)' = {}
      BY Zenon, <1>4, <1>5, <1>6
    <2> QED
      BY Zenon, <2>3, <2>4, <2>5 DEF OneOwner
  <1>12. ASSUME NEW x \in Pids, x # p PROVE Inbox'[x] = Inbox[x]
    <2>1. Queue(x)' = Queue(x)
      BY <1>2, <1>12
    <2>2. CASE Queue(x).size = 0
      BY <1>1, <2>1, <2>2 DEF InboxKnown
    <2>3. CASE Queue(x).size # 0
      <3> PICK m : m = Queue(x).at[0]
        BY Zenon
      <3>1. m.payload # NULL => m.payload \in Waiting(x)
        BY <1>1, <2>3 DEF WaitingKnown
      <3>2. m.payload # NULL => m.payload # b /\ m.payload \in Buffers
        BY Zenon, <1>4, <1>6, <1>12, <3>1
      <3>3. Answer(m, heap) = Answer(m, heap')
        BY <1>9, <3>2, AnswerSame
      <3>4. Inbox[x] = <<Answer(m, heap)>>
        BY <1>1, <2>3 DEF InboxKnown
      <3>5. Inbox'[x] = <<Answer(m, heap')>>
        BY <1>1, <2>1, <2>3 DEF InboxKnown
      <3> QED
        BY <3>3, <3>4, <3>5
    <2> QED
      BY Zenon, <2>2, <2>3
  <1>13. M!Take(p)
    <2>1. Response(message) = Answer(message, heap)
      BY ResponseIsAnswer
    <2> PICK answer : answer = Answer(message, heap)
      BY Zenon
    <2>2. Inbox[p] = <<answer>> /\ Inbox'[p] = <<>>
      BY <1>1, <1>2, <1>3 DEF InboxKnown
    <2>3. <<answer>> # <<>> /\ Head(<<answer>>) = answer /\ Tail(<<answer>>) = <<>>
      OBVIOUS
    <2>4. Inbox = [x \in Pids |-> Inbox[x]] /\ Inbox' = [x \in Pids |-> Inbox'[x]]
      BY <1>1 DEF InboxKnown
    <2>5. Inbox' = [Inbox EXCEPT ![p] = <<>>]
      BY <1>12, <2>2, <2>4
    <2>6. Inbox[p] # <<>> /\ Head(Inbox[p]) = answer /\ Tail(Inbox[p]) = <<>>
      BY Zenon, <2>2, <2>3
    <2>7. got' = [got EXCEPT ![p] = [count |-> got[p].count + 1, last |-> answer]]
      BY Zenon, <1>2, <2>1
    <2> QED
      BY Zenon, <2>5, <2>6, <2>7 DEF M!Take
  <1> QED
    BY <1>10, <1>11, <1>13 DEF Good1, MailboxStep, M!Next

\* A port goes to a process whose queue is empty, and stays so.
LEMMA AssignSame ==
  ASSUME IpcAssumption, IInv, NEW p \in Pids, NEW port \in Ports, PortFree(p, port),
         ipc_assign_port(p, port)
  PROVE  \A x \in Pids : /\ Queue(x)'.size = Queue(x).size
                         /\ Queue(x).size > 0 => Queue(x)'.at[0] = Queue(x).at[0]
  <1>1. Queue(p).size = 0 /\ TypeOK /\ IpcAssumption
    BY Zenon DEF IInv, PortsMatch, PortFree
  <1>2. Queue(p)'.size = 0 /\ \A x \in Pids : x # p => Queue(x)' = Queue(x)
    BY <1>1, AssignChanges
  <1> QED
    BY <1>1, <1>2

\* The sizes that the invariant allows.
LEMMA UncrowdedIs ==
  ASSUME IpcAssumption
  PROVE  IInv /\ ~crowded => OneMessage
  <1> SUFFICES ASSUME IInv, ~crowded, NEW p \in Pids
               PROVE  Queue(p).size \in {0, 1}
    BY DEF OneMessage
  <1>1. Queue(p).size \in Nat
    BY SpaceType DEF IInv, Queues
  <1> QED
    BY <1>1 DEF IInv, Uncrowded

LEMMA UncrowdedIsNext ==
  ASSUME IpcAssumption
  PROVE  IInv' /\ ~crowded' => OneMessage'
  BY UncrowdedIs, PTL

LEMMA StepGood ==
  ASSUME IpcAssumption, IInv1, [Next]_vars, ~crowded'
  PROVE  Good1
  <1>1. IInv' /\ OneMessage' /\ IInv
    <2>1. IInv /\ IInv'
      BY StepPreserves DEF IInv1
    <2> QED
      BY Zenon, <2>1, UncrowdedIsNext
  <1>3. CASE UNCHANGED vars
    <2>1. UNCHANGED <<heap, leaked, got, machine>> /\ \A p \in Pids : Queue(p)' = Queue(p)
      BY <1>3 DEF vars, Queue
    <2> QED
      BY <1>1, <2>1, SilentGood
  <1>4. CASE BootInit
    <2>1. PortFree(0, PORT_INIT) /\ 0 \in Pids /\ PORT_INIT \in Ports
      BY <1>1, <1>4, Bounds DEF IInv, NoneAtBoot, BootInit, PortFree, PORT_INIT
    <2>2. UNCHANGED <<heap, leaked, got>> /\ machine' = "running" /\ ipc_assign_port(0, PORT_INIT)
      BY <1>4 DEF BootInit
    <2> QED
      BY Zenon, <1>1, <2>1, <2>2, AssignSame, SilentGood
  <1>5. ASSUME NEW p \in Pids, NEW port \in Ports, sys_create_process(p, port) PROVE Good1
    <2>1. UNCHANGED <<heap, leaked, got, machine>>
      BY Zenon, <1>5 DEF sys_create_process
    <2>2. CASE PortFree(p, port)
      BY Zenon, <1>1, <1>5, <2>1, <2>2, AssignSame, SilentGood DEF sys_create_process
    <2>3. CASE ~ PortFree(p, port)
      <3>1. \A x \in Pids : Queue(x)' = Queue(x)
        BY Zenon, <1>5, <2>3 DEF sys_create_process, Queue
      <3> QED
        BY <1>1, <2>1, <3>1, SilentGood
    <2> QED
      BY <2>2, <2>3
  <1>6. ASSUME NEW p \in Pids, Leave(p) PROVE Good1
    <2>1. UNCHANGED <<heap, leaked, got, machine>> /\ \A x \in Pids : Queue(x)' = Queue(x)
      BY <1>6 DEF Leave, Queue
    <2> QED
      BY <1>1, <2>1, SilentGood
  <1>7. ASSUME NEW p \in Pids, NEW to \in Ports, NEW sz \in Sizes, sys_ipc_send(p, to, sz)
        PROVE  Good1
    <2>1. CASE FreeBuffers = {} /\ UNCHANGED <<heap, space, accepted, oldest, leaked, crowded>>
      <3>1. UNCHANGED <<heap, leaked, got>> /\ \A x \in Pids : Queue(x)' = Queue(x)
        BY <1>7, <2>1 DEF sys_ipc_send, Queue
      <3> QED
        BY <1>1, <2>1, <3>1, SilentGood
    <2>2. ASSUME NEW b \in FreeBuffers \cup {NULL},
                 heap' = [x \in Buffers |-> IF x = b THEN sends + 1 ELSE heap[x]],
                 ipc_send(p, to, b, sz), Room(to), UNCHANGED machine
          PROVE  Good1
      <3>1. Running /\ UNCHANGED got
        BY <1>7 DEF sys_ipc_send
      <3> QED
        BY Zenon, <1>1, <2>2, <3>1, PutGood
    <2> QED
      BY Zenon, <1>1, <1>7, <2>1, <2>2, SendFills
  <1>8. ASSUME NEW p \in Pids, sys_ipc_receive(p) PROVE Good1
    BY <1>1, <1>8, TakeGood
  <1> QED
    BY <1>3, <1>4, <1>5, <1>6, <1>7, <1>8 DEF Next

LEMMA InitGood ==
  ASSUME IpcAssumption, Init
  PROVE  IInv1 /\ M!Init
  <1>1. IInv /\ \A p \in Pids : Queue(p).size = 0
    <2>1. IInv
      BY Zenon, InitHolds
    <2>2. \A p \in Pids : Queue(p).size = 0
      BY DEF Init, Queue, VecInit
    <2> QED
      BY <2>1, <2>2
  <1>2. OneMessage /\ WaitingKnown /\ InboxKnown
    <2>1. OneMessage
      BY <1>1 DEF OneMessage
    <2> QED
      BY <2>1, WaitingIs, InboxIs
  <1>3. \A p \in Pids : Waiting(p) = {} /\ Inbox[p] = <<>>
    BY <1>1, <1>2 DEF WaitingKnown, InboxKnown
  <1>4. OneOwner
    <2>1. {b \in Buffers : heap[b] # 0} = {} /\ leaked = {}
      BY DEF Init
    <2> QED
      BY Zenon, <1>3, <2>1 DEF OneOwner
  <1>5. HaltsOnlyWhenExhausted
    BY Zenon DEF Init, HaltsOnlyWhenExhausted
  <1>6. M!Init
    <2>1. Inbox = [p \in Pids |-> <<>>]
      BY <1>2, <1>3 DEF InboxKnown
    <2> QED
      BY <2>1 DEF M!Init, Init
  <1> QED
    BY <1>1, <1>2, <1>4, <1>5, <1>6 DEF IInv1

\* No step takes back that a queue was crowded.
LEMMA CrowdedStays ==
  ASSUME IpcAssumption, IInv, [Next]_vars, ~crowded'
  PROVE  ~crowded
  <1>1. ASSUME NEW p \in Pids, NEW to \in Ports, NEW sz \in Sizes, sys_ipc_send(p, to, sz)
        PROVE  ~crowded
    <2>1. ASSUME NEW b, ipc_send(p, to, b, sz) PROVE ~crowded
      BY Zenon, <2>1 DEF ipc_send
    <2> QED
      BY <1>1, <2>1 DEF sys_ipc_send
  <1>2. ASSUME NEW p \in Pids, sys_ipc_receive(p) PROVE ~crowded
    BY <1>2 DEF sys_ipc_receive
  <1>3. ASSUME NEW p \in Pids, NEW port \in Ports, sys_create_process(p, port) PROVE ~crowded
    BY <1>3 DEF sys_create_process
  <1>4. ASSUME NEW p \in Pids, Leave(p) PROVE ~crowded
    BY <1>4 DEF Leave
  <1>5. CASE BootInit \/ UNCHANGED vars
    BY <1>5 DEF BootInit, vars
  <1> QED
    BY Zenon, <1>1, <1>2, <1>3, <1>4, <1>5 DEF Next

\* A step keeps BuffersOwned, and is one of the mailbox unless it crowds a queue.
LEMMA StepOwned ==
  ASSUME IpcAssumption, IInv, BuffersOwned, [Next]_vars
  PROVE  BuffersOwned' /\ (~crowded' => MailboxStep)
  <1>1. ASSUME ~crowded' PROVE Good1
    <2>1. ~crowded
      BY <1>1, CrowdedStays
    <2>2. IInv1
      BY Zenon, <2>1, UncrowdedIs DEF BuffersOwned, IInv1
    <2> QED
      BY <1>1, <2>2, StepGood
  <1> QED
    BY Zenon, <1>1 DEF Good1, BuffersOwned

\* As long as no queue has held two messages, every buffer that sys_ipc_send()
\* allocated belongs to one waiting message or to a send that found no receiver,
\* and sys_ipc_receive() frees none twice.
THEOREM EveryBufferOwned ==
  ASSUME IpcAssumption
  PROVE  Spec => []BuffersOwned
  <1>1. Init => BuffersOwned
    BY InitGood DEF IInv1, BuffersOwned
  <1>2. IInv /\ BuffersOwned /\ [Next]_vars => BuffersOwned'
    BY StepOwned
  <1> QED
    BY <1>1, <1>2, IpcInvariant, PTL DEF Spec

\* As long as no queue has held two messages, ipc_send() and ipc_receive() are the
\* Put and Take of a mailbox, and no other step touches one: each message is
\* delivered once, in order, with the payload that was sent.
THEOREM CallsAreMailbox ==
  ASSUME IpcAssumption
  PROVE  Spec => ImplementsMailbox
  <1>1. Init => M!Init
    BY InitGood
  <1>2. IInv /\ BuffersOwned /\ [Next]_vars => [~crowded' => M!Next]_<<Inbox, got>>
    <2> SUFFICES ASSUME IInv, BuffersOwned, [Next]_vars
                 PROVE  [~crowded' => M!Next]_<<Inbox, got>>
      OBVIOUS
    <2>1. ~crowded' => MailboxStep
      BY StepOwned
    <2> QED
      BY Zenon, <2>1 DEF MailboxStep
  <1> QED
    BY <1>1, <1>2, IpcInvariant, EveryBufferOwned, PTL DEF Spec, ImplementsMailbox
=============================================================================
