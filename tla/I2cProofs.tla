----------------------------- MODULE I2cProofs ------------------------------
(***************************************************************************)
(* Proofs about the I2C driver, for every set of devices, registers and    *)
(* data, every number of calls and every answer of the devices.            *)
(***************************************************************************)
EXTENDS I2c, SequenceTheorems, TLAPS

Byte(v, a) == [value |-> v, ack |-> a]
Bytes == [value : Nat, ack : BOOLEAN]

TypeOK ==
  /\ pc \in {"idle", "device", "device ack", "register", "register ack", "data", "data ack",
             "nack", "nack wait"}
  /\ call \in [device : 0 .. 14, reg : Nat, data : Nat, base : I2C_BASE]
  /\ attempt \in Nat /\ result \in BOOLEAN /\ writes \in Nat
  /\ data_reg \in [I2C_BASE -> Nat]
  /\ cnt \in [I2C_BASE -> SUBSET {"BUSY", "INT_ENABLE", "PAUSE", "STOP", "START", "ACK"}]
  /\ open \in [I2C_BASE -> BOOLEAN] /\ wire \in [I2C_BASE -> Seq(Bytes)]

\* What a call of i2c_write() sends.
First == i2c_get_device_register(call.device)
Taken1 == <<Byte(First, TRUE)>>
Taken2 == <<Byte(First, TRUE), Byte(call.reg, TRUE)>>
Taken3 == <<Byte(First, TRUE), Byte(call.reg, TRUE), Byte(call.data, TRUE)>>

\* The call's controller, and what it has put on the wire, while the driver waits
\* for the acknowledgement of a byte: the byte is still to be sent, or the
\* control register has the answer to it.
Wire == wire[call.base]
Acknowledged == "ACK" \in cnt[call.base]
Busy == IS_BUSY(call.base)

DeviceSent ==
  IF Busy THEN cnt[call.base] = {"START", "BUSY", "INT_ENABLE"} /\ data_reg[call.base] = First
  ELSE \E a \in BOOLEAN : Wire = <<Byte(First, a)>> /\ (a <=> Acknowledged)
RegisterSent ==
  IF Busy THEN /\ cnt[call.base] = {"BUSY", "INT_ENABLE"} /\ data_reg[call.base] = call.reg
               /\ Wire = Taken1
  ELSE \E a \in BOOLEAN : Wire = <<Byte(First, TRUE), Byte(call.reg, a)>> /\ (a <=> Acknowledged)
DataSent ==
  IF Busy THEN /\ cnt[call.base] = {"STOP", "BUSY", "INT_ENABLE"} /\ data_reg[call.base] = call.data
               /\ Wire = Taken2
  ELSE /\ ~ open[call.base]
       /\ \E a \in BOOLEAN :
            /\ Wire = <<Byte(First, TRUE), Byte(call.reg, TRUE), Byte(call.data, a)>>
            /\ a <=> Acknowledged
StopSent == IF Busy THEN cnt[call.base] = NackCommand ELSE ~ open[call.base]

\* The transfer at each step of the driver.
Transfer ==
  /\ pc = "idle" => ~ Busy /\ ~ open[call.base] /\ (result /\ writes > 0 => Wire = Taken3)
  /\ pc = "device" => ~ Busy /\ ~ open[call.base]
  /\ pc = "device ack" => DeviceSent
  /\ pc = "register" => ~ Busy /\ Wire = Taken1
  /\ pc = "register ack" => RegisterSent
  /\ pc = "data" => ~ Busy /\ Wire = Taken2
  /\ pc = "data ack" => DataSent
  /\ pc = "nack" => ~ Busy
  /\ pc = "nack wait" => StopSent

\* The other controllers have nothing to do.
OthersIdle == \A b \in I2C_BASE \ {call.base} : ~ open[b] /\ ~ IS_BUSY(b)

IInv == TypeOK /\ Transfer /\ OthersIdle /\ NoByteAfterNack
-----------------------------------------------------------------------------
\* The table has a bus and an address for every device.
LEMMA DeviceTable ==
  \A d \in 0 .. 14 : /\ i2c_get_device_register(d) \in Nat
                     /\ i2c_bus_id_to_addr(i2c_get_bus_id(d)) \in I2C_BASE
  <1> TAKE d \in 0 .. 14
  <1>1. i2c_get_device_register(d) \in Nat /\ i2c_get_bus_id(d) \in 0 .. 2
    BY DEF i2c_get_device_register, i2c_get_bus_id, i2c_device_id_table_contents
  <1>2. \A n \in 0 .. 2 : i2c_bus_id_to_addr(n) \in I2C_BASE
    BY DEF i2c_bus_id_to_addr, I2C_BASE
  <1> QED
    BY <1>1, <1>2

\* Sequences of bytes that are one byte longer.
LEMMA AppendByte ==
  ASSUME NEW x, NEW y, NEW z
  PROVE  Append(<<x>>, y) = <<x, y>> /\ Append(<<x, y>>, z) = <<x, y, z>>
  <1> DEFINE S == {x, y, z}
  <1>1. Append(<<x>>, y) = <<x, y>>
    <2> DEFINE s == Append(<<x>>, y)
               t == <<x, y>>
    <2>1. s \in Seq(S) /\ t \in Seq(S) /\ Len(s) = 2 /\ Len(t) = 2 /\ \A i \in 1 .. 2 : s[i] = t[i]
      OBVIOUS
    <2> QED
      BY Zenon, <2>1, SeqEqual
  <1>2. Append(<<x, y>>, z) = <<x, y, z>>
    <2> DEFINE s == Append(<<x, y>>, z)
               t == <<x, y, z>>
    <2>1. s \in Seq(S) /\ t \in Seq(S) /\ Len(s) = 3 /\ Len(t) = 3 /\ \A i \in 1 .. 3 : s[i] = t[i]
      OBVIOUS
    <2> QED
      BY Zenon, <2>1, SeqEqual
  <1> QED
    BY <1>1, <1>2

\* In a sequence of bytes, all but the last are acknowledged.
LastMayFail(s) == \A i \in 1 .. Len(s) - 1 : s[i].ack

LEMMA LastOfBytes ==
  ASSUME NEW u, NEW v, NEW x
  PROVE  /\ LastMayFail(<<x>>) /\ LastMayFail(<<Byte(u, TRUE), x>>)
         /\ LastMayFail(<<Byte(u, TRUE), Byte(v, TRUE), x>>)
  <1>1. Byte(u, TRUE).ack /\ Byte(v, TRUE).ack
    BY DEF Byte
  <1>2. LastMayFail(<<x>>)
    BY DEF LastMayFail
  <1>3. ASSUME NEW y, y.ack PROVE LastMayFail(<<y, x>>)
    BY <1>3 DEF LastMayFail
  <1>4. ASSUME NEW y, NEW z, y.ack, z.ack PROVE LastMayFail(<<y, z, x>>)
    BY <1>4 DEF LastMayFail
  <1> QED
    BY Zenon, <1>1, <1>2, <1>3, <1>4

\* A controller that is busy belongs to the call.
LEMMA BusyIsCalled ==
  ASSUME IInv, NEW b \in I2C_BASE, Controller(b)
  PROVE  b = call.base
  BY DEF IInv, OthersIdle, Controller

\* A controller's answer, and the end of a stop.
LEMMA ControllerAnswers ==
  ASSUME IInv, NEW b \in I2C_BASE, Controller(b)
  PROVE  /\ ~ Busy' /\ UNCHANGED <<pc, call, attempt, result, data_reg, writes>>
         /\ \A o \in I2C_BASE \ {b} : cnt'[o] = cnt[o] /\ open'[o] = open[o] /\ wire'[o] = wire[o]
         /\ IF "PAUSE" \in cnt[b] THEN wire' = wire /\ ~ open'[b]
            ELSE \E a \in BOOLEAN :
                   /\ wire'[b] = IF "START" \in cnt[b] THEN <<Byte(data_reg[b], a)>>
                                 ELSE Append(wire[b], Byte(data_reg[b], a))
                   /\ "ACK" \notin cnt[b] => (a <=> "ACK" \in cnt'[b])
                   /\ "STOP" \in cnt[b] => ~ open'[b]
  <1>1. b = call.base /\ cnt \in [I2C_BASE -> SUBSET {"BUSY", "INT_ENABLE", "PAUSE", "STOP", "START", "ACK"}]
        /\ open \in [I2C_BASE -> BOOLEAN] /\ wire \in [I2C_BASE -> Seq(Bytes)]
    BY BusyIsCalled DEF IInv, TypeOK
  <1>2. UNCHANGED <<pc, call, attempt, result, data_reg, writes>>
    BY DEF Controller
  <1>3. CASE "PAUSE" \in cnt[b]
    BY <1>1, <1>2, <1>3 DEF Controller, Busy, IS_BUSY
  <1>4. CASE "PAUSE" \notin cnt[b]
    <2>1. PICK a \in BOOLEAN :
            /\ cnt' = [cnt EXCEPT ![b] = (@ \ {"BUSY"}) \cup IF a THEN {"ACK"} ELSE {}]
            /\ open' = [open EXCEPT ![b] = "STOP" \notin cnt[b]]
            /\ wire' = [wire EXCEPT ![b] = IF "START" \in cnt[b] THEN <<Byte(data_reg[b], a)>>
                                           ELSE Append(@, Byte(data_reg[b], a))]
      BY Zenon, <1>4 DEF Controller, Byte
    <2>2. ~ Busy'
      BY <1>1, <1>2, <2>1 DEF Busy, IS_BUSY
    <2>3. \A o \in I2C_BASE \ {b} : cnt'[o] = cnt[o] /\ open'[o] = open[o] /\ wire'[o] = wire[o]
      BY <1>1, <2>1
    <2>4. wire'[b] = IF "START" \in cnt[b] THEN <<Byte(data_reg[b], a)>>
                     ELSE Append(wire[b], Byte(data_reg[b], a))
      BY <1>1, <2>1
    <2>5. "ACK" \notin cnt[b] => (a <=> "ACK" \in cnt'[b])
      BY <1>1, <2>1
    <2>6. "STOP" \in cnt[b] => ~ open'[b]
      BY Zenon, <1>1, <2>1
    <2> QED
      BY <1>2, <1>4, <2>2, <2>3, <2>4, <2>5, <2>6
  <1> QED
    BY <1>3, <1>4

LEMMA ControllerType ==
  ASSUME IInv, NEW b \in I2C_BASE, Controller(b)
  PROVE  TypeOK'
  <1>1. /\ cnt \in [I2C_BASE -> SUBSET {"BUSY", "INT_ENABLE", "PAUSE", "STOP", "START", "ACK"}]
        /\ open \in [I2C_BASE -> BOOLEAN] /\ wire \in [I2C_BASE -> Seq(Bytes)]
        /\ data_reg[b] \in Nat
    BY DEF IInv, TypeOK
  <1>2. \A a \in BOOLEAN : Byte(data_reg[b], a) \in Bytes
    BY <1>1 DEF Byte, Bytes
  <1>3. wire' \in [I2C_BASE -> Seq(Bytes)]
    <2>1. CASE "PAUSE" \in cnt[b]
      BY <1>1, <2>1 DEF Controller
    <2>2. CASE "PAUSE" \notin cnt[b]
      <3>1. PICK a \in BOOLEAN :
              wire' = [wire EXCEPT ![b] = IF "START" \in cnt[b] THEN <<Byte(data_reg[b], a)>>
                                          ELSE Append(@, Byte(data_reg[b], a))]
        BY Zenon, <2>2 DEF Controller, Byte
      <3>2. <<Byte(data_reg[b], a)>> \in Seq(Bytes) /\ Append(wire[b], Byte(data_reg[b], a)) \in Seq(Bytes)
        BY <1>1, <1>2
      <3> QED
        BY <1>1, <3>1, <3>2
    <2> QED
      BY <2>1, <2>2
  <1>4. cnt' \in [I2C_BASE -> SUBSET {"BUSY", "INT_ENABLE", "PAUSE", "STOP", "START", "ACK"}]
    <2>1. \A x \in SUBSET {"BUSY", "INT_ENABLE", "PAUSE", "STOP", "START", "ACK"} :
            [cnt EXCEPT ![b] = x] \in
              [I2C_BASE -> SUBSET {"BUSY", "INT_ENABLE", "PAUSE", "STOP", "START", "ACK"}]
      BY <1>1
    <2>2. \E x \in SUBSET {"BUSY", "INT_ENABLE", "PAUSE", "STOP", "START", "ACK"} :
            cnt' = [cnt EXCEPT ![b] = x]
      <3>1. CASE "PAUSE" \in cnt[b]
        BY Zenon, <1>1, <3>1 DEF Controller
      <3>2. CASE "PAUSE" \notin cnt[b]
        <4>1. PICK a \in BOOLEAN :
                cnt' = [cnt EXCEPT ![b] = (@ \ {"BUSY"}) \cup IF a THEN {"ACK"} ELSE {}]
          BY Zenon, <3>2 DEF Controller
        <4> QED
          BY Zenon, <1>1, <4>1
      <3> QED
        BY <3>1, <3>2
    <2> QED
      BY <2>1, <2>2
  <1>5. open' \in [I2C_BASE -> BOOLEAN]
    <2>1. \A x \in BOOLEAN : [open EXCEPT ![b] = x] \in [I2C_BASE -> BOOLEAN]
      BY <1>1
    <2>2. ("STOP" \notin cnt[b]) \in BOOLEAN
      BY Zenon
    <2> QED
      BY <2>1, <2>2, Zenon DEF Controller
  <1> QED
    BY <1>3, <1>4, <1>5 DEF Controller, IInv, TypeOK

\* A byte is sent on one bus, and the others keep theirs.
LEMMA LastFailsOn ==
  ASSUME IInv, NEW b \in I2C_BASE, Controller(b), LastMayFail(wire'[b])
  PROVE  NoByteAfterNack'
  <1>1. \A o \in I2C_BASE : LastMayFail(wire[o])
    BY DEF IInv, NoByteAfterNack, LastMayFail
  <1>2. \A o \in I2C_BASE : LastMayFail(wire'[o])
    BY <1>1, ControllerAnswers
  <1> QED
    BY <1>2 DEF NoByteAfterNack, LastMayFail

\* The controller of the call sends the byte that the driver waits for.
LEMMA ControllerPreserves ==
  ASSUME IInv, NEW b \in I2C_BASE, Controller(b)
  PROVE  IInv'
  <1>1. b = call.base /\ Busy /\ wire[b] \in Seq(Bytes) /\ wire' \in [I2C_BASE -> Seq(Bytes)]
    BY BusyIsCalled, ControllerType DEF IInv, TypeOK, Controller, Busy
  <1>2. pc \in {"device ack", "register ack", "data ack", "nack wait"}
    BY <1>1 DEF IInv, TypeOK, Transfer
  <1>3. UNCHANGED <<pc, call, First, Taken1, Taken2>> /\ ~ Busy'
    BY Zenon, ControllerAnswers DEF First, Taken1, Taken2
  <1>4. OthersIdle'
    BY Zenon, <1>1, <1>3, ControllerAnswers DEF IInv, OthersIdle, IS_BUSY
  <1>5. CASE pc = "nack wait"
    <2>1. "PAUSE" \in cnt[b]
      BY <1>1, <1>5 DEF IInv, Transfer, StopSent, NackCommand
    <2>2. wire' = wire /\ ~ open'[b]
      BY <2>1, ControllerAnswers
    <2> QED
      BY <1>1, <1>3, <1>4, <1>5, <2>2, ControllerType
      DEF IInv, Transfer, StopSent, NoByteAfterNack
  <1>6. CASE pc = "device ack"
    <2>1. PICK a \in BOOLEAN : wire'[b] = <<Byte(First, a)>> /\ (a <=> "ACK" \in cnt'[b])
      BY <1>1, <1>6, ControllerAnswers DEF IInv, Transfer, DeviceSent
    <2>2. DeviceSent'
      BY <1>1, <1>3, <2>1 DEF DeviceSent, Wire, Acknowledged
    <2>3. NoByteAfterNack'
      BY Zenon, <1>1, <2>1, LastOfBytes, LastFailsOn
    <2> QED
      BY <1>3, <1>4, <1>6, <2>2, <2>3, ControllerType DEF IInv, Transfer
  <1>7. CASE pc = "register ack"
    <2>1. PICK a \in BOOLEAN :
            /\ wire'[b] = Append(Taken1, Byte(call.reg, a)) /\ (a <=> "ACK" \in cnt'[b])
      BY <1>1, <1>7, ControllerAnswers DEF IInv, Transfer, RegisterSent, Wire
    <2>2. wire'[b] = <<Byte(First, TRUE), Byte(call.reg, a)>>
      BY Zenon, <2>1, AppendByte DEF Taken1
    <2>3. RegisterSent'
      BY <1>1, <1>3, <2>1, <2>2 DEF RegisterSent, Wire, Acknowledged
    <2>4. NoByteAfterNack'
      BY Zenon, <1>1, <2>2, LastOfBytes, LastFailsOn
    <2> QED
      BY <1>3, <1>4, <1>7, <2>3, <2>4, ControllerType DEF IInv, Transfer
  <1>8. CASE pc = "data ack"
    <2>1. PICK a \in BOOLEAN :
            /\ wire'[b] = Append(Taken2, Byte(call.data, a)) /\ (a <=> "ACK" \in cnt'[b])
            /\ ~ open'[b]
      BY <1>1, <1>8, ControllerAnswers DEF IInv, Transfer, DataSent, Wire
    <2>2. wire'[b] = <<Byte(First, TRUE), Byte(call.reg, TRUE), Byte(call.data, a)>>
      BY Zenon, <2>1, AppendByte DEF Taken2
    <2>3. DataSent'
      BY <1>1, <1>3, <2>1, <2>2 DEF DataSent, Wire, Acknowledged
    <2>4. NoByteAfterNack'
      BY Zenon, <1>1, <2>2, LastOfBytes, LastFailsOn
    <2> QED
      BY <1>3, <1>4, <1>8, <2>3, <2>4, ControllerType DEF IInv, Transfer
  <1> QED
    BY <1>2, <1>5, <1>6, <1>7, <1>8
-----------------------------------------------------------------------------
(* The driver.                                                             *)

CntType == [I2C_BASE -> SUBSET {"BUSY", "INT_ENABLE", "PAUSE", "STOP", "START", "ACK"}]

\* A call begins on a bus that is free, like all others.
LEMMA CallPreserves ==
  ASSUME I2cAssumption, IInv, NEW d \in Devices, NEW r \in Registers, NEW v \in Data,
         i2c_write(d, r, v)
  PROVE  IInv'
  <1>1. d \in 0 .. 14 /\ r \in Nat /\ v \in Nat
    BY DEF I2cAssumption
  <1>2. call' = [device |-> d, reg |-> r, data |-> v,
                 base |-> i2c_bus_id_to_addr(i2c_get_bus_id(d))]
    BY DEF i2c_write
  <1>3. call' \in [device : 0 .. 14, reg : Nat, data : Nat, base : I2C_BASE]
    BY <1>1, <1>2, DeviceTable
  <1>4. UNCHANGED <<result, data_reg, cnt, open, wire>> /\ pc = "idle" /\ pc' = "device"
    BY DEF i2c_write, bus
  <1>5. TypeOK'
    <2>1. attempt' \in Nat /\ writes' \in Nat
      BY DEF IInv, TypeOK, i2c_write
    <2> QED
      BY Zenon, <1>3, <1>4, <2>1 DEF IInv, TypeOK
  <1>6. \A b \in I2C_BASE : ~ open[b] /\ ~ IS_BUSY(b)
    BY <1>4 DEF IInv, Transfer, OthersIdle, Busy
  <1>7. call'.base \in I2C_BASE
    BY <1>3
  <1>8. ~ Busy' /\ ~ open'[call'.base] /\ OthersIdle'
    BY <1>4, <1>6, <1>7 DEF Busy, IS_BUSY, OthersIdle
  <1> QED
    BY <1>4, <1>5, <1>8 DEF IInv, Transfer, NoByteAfterNack

\* A byte is stored in the registers of the call's controller.
Stored(at, byte, command, next) ==
  /\ pc = at /\ pc' = next /\ Busy' /\ data_reg'[call.base] = byte
  /\ cnt'[call.base] = command \cup {"BUSY", "INT_ENABLE"}
  /\ UNCHANGED <<call, open, wire, First, Taken1, Taken2>>
  /\ TypeOK' /\ OthersIdle' /\ NoByteAfterNack'

LEMMA SendStores ==
  ASSUME IInv, NEW at, NEW byte \in Nat, NEW command \in SUBSET {"START", "STOP"}, NEW next,
         Send(at, byte, command, next),
         next \in {"device ack", "register ack", "data ack"}
  PROVE  Stored(at, byte, command, next)
  <1>1. /\ call.base \in I2C_BASE /\ data_reg \in [I2C_BASE -> Nat] /\ cnt \in CntType
    BY DEF IInv, TypeOK, CntType
  <1>2. /\ pc = at /\ pc' = next
        /\ data_reg' = [data_reg EXCEPT ![call.base] = byte]
        /\ cnt' = [cnt EXCEPT ![call.base] = command \cup {"BUSY", "INT_ENABLE"}]
        /\ UNCHANGED <<call, attempt, result, open, wire, writes>>
    BY DEF Send, i2c_wait
  <1>3. data_reg' \in [I2C_BASE -> Nat] /\ cnt' \in CntType
    BY <1>1, <1>2 DEF CntType
  <1>4. TypeOK'
    BY <1>2, <1>3 DEF IInv, TypeOK, CntType
  <1>5. OthersIdle'
    BY <1>1, <1>2 DEF IInv, OthersIdle, IS_BUSY, CntType
  <1>6. NoByteAfterNack'
    BY <1>2 DEF IInv, NoByteAfterNack
  <1>7. data_reg'[call.base] = byte /\ cnt'[call.base] = command \cup {"BUSY", "INT_ENABLE"}
    BY <1>1, <1>2 DEF CntType
  <1>8. Busy'
    BY <1>2, <1>7 DEF Busy, IS_BUSY
  <1> QED
    BY <1>2, <1>4, <1>5, <1>6, <1>7, <1>8 DEF Stored, First, Taken1, Taken2

\* The three bytes of a transfer are sent after one another.
LEMMA SendPreserves ==
  ASSUME IInv,
         \/ Send("device", i2c_get_device_register(call.device), {"START"}, "device ack")
         \/ Send("register", call.reg, {}, "register ack")
         \/ Send("data", call.data, {"STOP"}, "data ack")
  PROVE  IInv'
  <1>1. call.device \in 0 .. 14 /\ call.reg \in Nat /\ call.data \in Nat /\ First \in Nat
    BY DeviceTable DEF IInv, TypeOK, First
  <1>2. CASE Send("device", First, {"START"}, "device ack")
    <2>1. Stored("device", First, {"START"}, "device ack")
      BY <1>1, <1>2, SendStores
    <2>2. DeviceSent'
      BY <2>1 DEF Stored, DeviceSent
    <2> QED
      BY <2>1, <2>2 DEF Stored, IInv, Transfer
  <1>3. CASE Send("register", call.reg, {}, "register ack")
    <2>1. Stored("register", call.reg, {}, "register ack")
      BY <1>1, <1>3, SendStores
    <2>2. RegisterSent'
      BY <2>1 DEF Stored, RegisterSent, Wire, IInv, Transfer
    <2> QED
      BY <2>1, <2>2 DEF Stored, IInv, Transfer
  <1>4. CASE Send("data", call.data, {"STOP"}, "data ack")
    <2>1. Stored("data", call.data, {"STOP"}, "data ack")
      BY <1>1, <1>4, SendStores
    <2>2. DataSent'
      BY <2>1 DEF Stored, DataSent, Wire, IInv, Transfer
    <2> QED
      BY <2>1, <2>2 DEF Stored, IInv, Transfer
  <1> QED
    BY <1>2, <1>3, <1>4 DEF First

\* A step that only looks at the control register.
LEMMA LookPreserves ==
  ASSUME IInv, UNCHANGED <<call, data_reg, cnt, open, wire, writes>>,
         pc' \in {"idle", "device", "register", "data", "nack"},
         attempt' \in Nat, result' \in BOOLEAN
  PROVE  /\ TypeOK' /\ OthersIdle' /\ NoByteAfterNack'
         /\ UNCHANGED <<Busy, Wire, Taken1, Taken2, Taken3>>
  <1>1. TypeOK'
    BY Zenon DEF IInv, TypeOK
  <1>2. OthersIdle' /\ NoByteAfterNack'
    BY DEF IInv, OthersIdle, NoByteAfterNack, IS_BUSY
  <1>3. UNCHANGED <<Busy, Wire, Taken1, Taken2, Taken3>>
    BY DEF Busy, IS_BUSY, Wire, Taken1, Taken2, Taken3, First
  <1> QED
    BY Zenon, <1>1, <1>2, <1>3

\* The driver goes on only after an acknowledgement, and returns true only after
\* the last one.
LEMMA AcknowledgedPreserves ==
  ASSUME IInv,
         \/ i2c_was_acknowledged("device ack", "register")
         \/ i2c_was_acknowledged("register ack", "data")
  PROVE  IInv'
  <1>1. /\ ~ Busy /\ UNCHANGED <<call, attempt, result, data_reg, cnt, open, wire, writes>>
        /\ attempt \in Nat /\ result \in BOOLEAN
    BY DEF i2c_was_acknowledged, i2c_wait, Busy, bus, IInv, TypeOK
  <1>2. CASE i2c_was_acknowledged("device ack", "register")
    <2>1. pc = "device ack" /\ pc' = IF Acknowledged THEN "register" ELSE "nack"
      BY <1>2 DEF i2c_was_acknowledged, i2c_wait, Acknowledged
    <2>2. /\ TypeOK' /\ OthersIdle' /\ NoByteAfterNack'
          /\ UNCHANGED <<Busy, Wire, Taken1, Taken2, Taken3>>
      BY <1>1, <2>1, LookPreserves
    <2>3. PICK a \in BOOLEAN : Wire = <<Byte(First, a)>> /\ (a <=> Acknowledged)
      BY <1>1, <2>1 DEF IInv, Transfer, DeviceSent
    <2>4. Acknowledged => Wire = Taken1
      <3> SUFFICES ASSUME Acknowledged PROVE Wire = Taken1
        OBVIOUS
      <3>1. a = TRUE
        BY <2>3, Zenon
      <3> QED
        BY <2>3, <3>1 DEF Taken1
    <2> QED
      BY <1>1, <2>1, <2>2, <2>4 DEF IInv, Transfer
  <1>3. CASE i2c_was_acknowledged("register ack", "data")
    <2>1. pc = "register ack" /\ pc' = IF Acknowledged THEN "data" ELSE "nack"
      BY <1>3 DEF i2c_was_acknowledged, i2c_wait, Acknowledged
    <2>2. /\ TypeOK' /\ OthersIdle' /\ NoByteAfterNack'
          /\ UNCHANGED <<Busy, Wire, Taken1, Taken2, Taken3>>
      BY <1>1, <2>1, LookPreserves
    <2>3. PICK a \in BOOLEAN :
            Wire = <<Byte(First, TRUE), Byte(call.reg, a)>> /\ (a <=> Acknowledged)
      BY <1>1, <2>1 DEF IInv, Transfer, RegisterSent
    <2>4. Acknowledged => Wire = Taken2
      <3> SUFFICES ASSUME Acknowledged PROVE Wire = Taken2
        OBVIOUS
      <3>1. a = TRUE
        BY <2>3, Zenon
      <3> QED
        BY <2>3, <3>1 DEF Taken2
    <2> QED
      BY <1>1, <2>1, <2>2, <2>4 DEF IInv, Transfer
  <1> QED
    BY <1>2, <1>3

LEMMA WriteDataPreserves ==
  ASSUME IInv, WriteData
  PROVE  IInv'
  <1>1. CASE Send("data", call.data, {"STOP"}, "data ack")
    BY <1>1, SendPreserves
  <1>2. ASSUME ~ Send("data", call.data, {"STOP"}, "data ack")
        PROVE  IInv'
    <2>1. /\ pc = "data ack" /\ ~ Busy /\ UNCHANGED <<call, attempt, data_reg, cnt, open, wire, writes>>
          /\ IF Acknowledged THEN pc' = "idle" /\ result' = TRUE
             ELSE pc' = "nack" /\ result' = result
      BY <1>2 DEF WriteData, i2c_wait, Busy, bus, Acknowledged
    <2>2. attempt' \in Nat /\ result' \in BOOLEAN
      BY <2>1, Zenon DEF IInv, TypeOK
    <2>3. /\ TypeOK' /\ OthersIdle' /\ NoByteAfterNack'
          /\ UNCHANGED <<Busy, Wire, Taken1, Taken2, Taken3>>
      BY <2>1, <2>2, LookPreserves
    <2>4. ~ open[call.base]
      BY <2>1 DEF IInv, Transfer, DataSent
    <2>5. PICK a \in BOOLEAN :
            /\ Wire = <<Byte(First, TRUE), Byte(call.reg, TRUE), Byte(call.data, a)>>
            /\ a <=> Acknowledged
      BY <2>1 DEF IInv, Transfer, DataSent
    <2>6. Acknowledged => Wire = Taken3
      <3> SUFFICES ASSUME Acknowledged PROVE Wire = Taken3
        OBVIOUS
      <3>1. a = TRUE
        BY <2>5, Zenon
      <3> QED
        BY <2>5, <3>1 DEF Taken3
    <2>7. pc' = "idle" => Acknowledged
      BY <2>1
    <2>8. pc' \in {"idle", "nack"}
      BY <2>1
    <2> QED
      BY <2>1, <2>3, <2>4, <2>6, <2>7, <2>8 DEF IInv, Transfer
  <1> QED
    BY <1>1, <1>2

\* A stop is sent on the bus after a byte that was refused, and the next attempt
\* or the return waits for its end.
LEMMA NackPreserves ==
  ASSUME IInv, i2c_nack
  PROVE  IInv'
  <1>1. call.base \in I2C_BASE /\ cnt \in CntType /\ attempt \in Nat /\ result \in BOOLEAN
    BY DEF IInv, TypeOK, CntType
  <1>2. CASE pc = "nack"
    <2>1. /\ pc' = "nack wait" /\ cnt' = [cnt EXCEPT ![call.base] = NackCommand]
          /\ UNCHANGED <<call, attempt, result, data_reg, open, wire, writes>>
      BY <1>2 DEF i2c_nack, i2c_wait
    <2>2. NackCommand \in SUBSET {"BUSY", "INT_ENABLE", "PAUSE", "STOP", "START", "ACK"}
      BY DEF NackCommand
    <2>3. cnt' \in CntType
      BY <1>1, <2>1, <2>2 DEF CntType
    <2>4. cnt'[call.base] = NackCommand
      BY <1>1, <2>1 DEF CntType
    <2>5. TypeOK' /\ NoByteAfterNack'
      BY <2>1, <2>3 DEF IInv, TypeOK, CntType, NoByteAfterNack
    <2>6. OthersIdle'
      BY <1>1, <2>1 DEF IInv, OthersIdle, IS_BUSY, CntType
    <2>7. StopSent'
      BY <2>1, <2>4 DEF StopSent, Busy, IS_BUSY, NackCommand
    <2> QED
      BY <2>1, <2>5, <2>6, <2>7 DEF IInv, Transfer
  <1>3. CASE pc # "nack"
    <2>1. /\ pc = "nack wait" /\ ~ Busy /\ attempt' = attempt + 1
          /\ UNCHANGED <<call, data_reg, cnt, open, wire, writes>>
          /\ \/ pc' = "device" /\ result' = result
             \/ pc' = "idle" /\ result' = FALSE
      BY <1>3 DEF i2c_nack, i2c_wait, Busy, bus, NextAttempt
    <2>2. attempt' \in Nat
      <3>1. attempt' = attempt + 1
        BY <2>1
      <3> QED
        BY <1>1, <3>1
    <2>3. result' \in BOOLEAN
      BY <1>1, <2>1, Zenon
    <2>4. /\ TypeOK' /\ OthersIdle' /\ NoByteAfterNack'
          /\ UNCHANGED <<Busy, Wire, Taken1, Taken2, Taken3>>
      BY <2>1, <2>2, <2>3, LookPreserves
    <2>5. ~ open[call.base]
      BY <2>1 DEF IInv, Transfer, StopSent
    <2>6. pc' = "idle" => ~ result'
      BY <2>1
    <2> QED
      BY <2>1, <2>4, <2>5, <2>6 DEF IInv, Transfer
  <1> QED
    BY <1>2, <1>3
-----------------------------------------------------------------------------
(* The theorems.                                                           *)

LEMMA InitHolds == Init => IInv
  <1> SUFFICES ASSUME Init PROVE IInv
    BY Zenon
  <1>1. TypeOK
    <2>1. result \in BOOLEAN /\ open \in [I2C_BASE -> BOOLEAN]
      BY Zenon DEF Init
    <2>2. call \in [device : 0 .. 14, reg : Nat, data : Nat, base : I2C_BASE]
      BY DEF Init, I2C_BASE
    <2>3. wire \in [I2C_BASE -> Seq(Bytes)]
      BY DEF Init
    <2>4. /\ cnt \in [I2C_BASE -> SUBSET {"BUSY", "INT_ENABLE", "PAUSE", "STOP", "START", "ACK"}]
          /\ data_reg \in [I2C_BASE -> Nat] /\ attempt \in Nat /\ writes \in Nat
      BY DEF Init
    <2> QED
      BY Zenon, <2>1, <2>2, <2>3, <2>4 DEF Init, TypeOK
  <1>2. \A b \in I2C_BASE : ~ open[b] /\ ~ IS_BUSY(b) /\ Len(wire[b]) = 0
    BY DEF Init, IS_BUSY
  <1>3. call.base \in I2C_BASE /\ pc = "idle" /\ writes = 0
    BY DEF Init, I2C_BASE
  <1> QED
    BY <1>1, <1>2, <1>3 DEF IInv, Transfer, OthersIdle, NoByteAfterNack, Busy

LEMMA StepPreserves ==
  ASSUME I2cAssumption, IInv, [Next]_vars
  PROVE  IInv'
  <1>1. ASSUME NEW b \in I2C_BASE, Controller(b) PROVE IInv'
    BY <1>1, ControllerPreserves
  <1>2. ASSUME NEW d \in Devices, NEW r \in Registers, NEW v \in Data, i2c_write(d, r, v)
        PROVE  IInv'
    BY Zenon, <1>2, CallPreserves
  <1>3. CASE Driver
    <2>1. CASE try_get_device
      BY Zenon, <2>1, SendPreserves, AcknowledgedPreserves DEF try_get_device
    <2>2. CASE try_get_register
      BY Zenon, <2>2, SendPreserves, AcknowledgedPreserves DEF try_get_register
    <2> QED
      BY Zenon, <1>3, <2>1, <2>2, WriteDataPreserves, NackPreserves DEF Driver
  <1>4. CASE UNCHANGED vars
    <2>1. UNCHANGED <<pc, call, attempt, result, data_reg, cnt, open, wire, writes>>
      BY Zenon, <1>4 DEF vars
    <2>2. UNCHANGED <<Busy, Wire, Taken1, Taken2, Taken3, First, Acknowledged>>
      BY Zenon, <2>1 DEF Busy, IS_BUSY, Wire, Taken1, Taken2, Taken3, First, Acknowledged
    <2>3. UNCHANGED <<DeviceSent, RegisterSent, DataSent, StopSent>>
      BY Zenon, <2>1, <2>2 DEF DeviceSent, RegisterSent, DataSent, StopSent
    <2>4. TypeOK' /\ OthersIdle' /\ NoByteAfterNack'
      BY <2>1 DEF IInv, TypeOK, OthersIdle, NoByteAfterNack, IS_BUSY
    <2> QED
      BY <2>1, <2>2, <2>3, <2>4 DEF IInv, Transfer
  <1> QED
    BY <1>1, <1>2, <1>3, <1>4 DEF Next, Done

\* The invariant says in which places a call is right; it leaves none out.
LEMMA InvariantImplies == IInv => TrueMeansWritten /\ NoByteAfterNack /\ BusReleased
  <1> SUFFICES ASSUME IInv PROVE TrueMeansWritten /\ BusReleased
    BY Zenon DEF IInv
  <1>1. TrueMeansWritten
    BY DEF IInv, Transfer, TrueMeansWritten, Wire, Taken3, First, Byte
  <1>2. BusReleased
    BY DEF IInv, Transfer, OthersIdle, BusReleased, Busy
  <1> QED
    BY <1>1, <1>2

\* A store of the driver goes to the call's controller, for which it has waited.
LEMMA StoresWait ==
  ASSUME IInv, Driver
  PROVE  NoStoreWhileBusy
  <1> SUFFICES ASSUME NEW b \in I2C_BASE, data_reg'[b] # data_reg[b] \/ cnt'[b] # cnt[b]
               PROVE  ~ IS_BUSY(b)
    BY DEF NoStoreWhileBusy
  <1>1. CASE b # call.base
    BY <1>1 DEF IInv, OthersIdle
  <1>2. CASE b = call.base
    <2>1. ASSUME NEW at, NEW byte, NEW command, NEW next, Send(at, byte, command, next)
          PROVE  ~ IS_BUSY(b)
      BY Zenon, <1>2, <2>1 DEF Send, i2c_wait
    <2>2. CASE try_get_device
      BY <2>1, <2>2 DEF try_get_device, i2c_was_acknowledged, bus
    <2>3. CASE try_get_register
      BY <2>1, <2>3 DEF try_get_register, i2c_was_acknowledged, bus
    <2>4. CASE WriteData
      BY <2>1, <2>4 DEF WriteData, bus
    <2>5. CASE i2c_nack
      BY <1>2, <2>5 DEF i2c_nack, bus, IInv, Transfer, Busy
    <2> QED
      BY <2>2, <2>3, <2>4, <2>5 DEF Driver
  <1> QED
    BY <1>1, <1>2

\* i2c_write() returns true only for a transfer that the device has taken, sends
\* no byte after a refused one, leaves every bus released and never stores to a
\* busy controller, whatever the devices answer in each of the attempts.
THEOREM WritesAreSound ==
  ASSUME I2cAssumption
  PROVE  Spec => I2cWriteSound
  <1>1. Init => IInv
    BY InitHolds
  <1>2. IInv /\ [Next]_vars => IInv'
    BY StepPreserves
  <1>3. IInv => TrueMeansWritten /\ NoByteAfterNack /\ BusReleased
    BY Zenon, InvariantImplies
  <1>4. IInv /\ [Next]_vars => [NoStoreWhileBusy]_vars
    BY StoresWait DEF NoStoreWhileBusy
  <1> QED
    BY <1>1, <1>2, <1>3, <1>4, PTL DEF Spec, I2cWriteSound
=============================================================================
