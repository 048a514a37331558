-------------------------------- MODULE I2c ---------------------------------
(***************************************************************************)
(* The I2C driver of the Nintendo 3DS: platform/nintendo/drivers/i2c.c.    *)
(* i2c_write() runs step by step against three bus controllers, which take *)
(* their time over each byte and answer with an acknowledgement or not.    *)
(* The asm of i2c_wait()'s loop makes GCC load the control register anew   *)
(* in every round, although the pointer is not volatile: the driver polls  *)
(* the controller's present state.                                         *)
(***************************************************************************)
EXTENDS Integers, Sequences

CONSTANTS
  Devices,      \* device numbers that i2c_write() is called with
  Registers,    \* registers of a device
  Data,         \* bytes to be written
  MaxWrites     \* bound: calls of i2c_write()

I2cAssumption ==
  /\ Devices \subseteq 0 .. 14 /\ Registers \subseteq Nat /\ Data \subseteq Nat
  /\ MaxWrites \in Nat

\* i2c_device_id_table_contents: bus and address of each device
i2c_device_id_table_contents ==
  << <<0, 74>>, <<0, 122>>, <<0, 120>>, <<1, 74>>, <<1, 120>>, <<1, 44>>, <<1, 46>>,
     <<1, 64>>, <<1, 68>>, <<2, 214>>, <<2, 208>>, <<2, 210>>, <<2, 164>>, <<2, 154>>,
     <<2, 160>> >>
i2c_get_bus_id(device_id) == i2c_device_id_table_contents[device_id + 1][1]
i2c_get_device_register(device_id) == i2c_device_id_table_contents[device_id + 1][2]

\* The addresses of the controllers.
I2C_BASE == {"I2C1_BASE", "I2C2_BASE", "I2C3_BASE"}
i2c_bus_id_to_addr(bus_id) == <<"I2C1_BASE", "I2C2_BASE", "I2C3_BASE">>[bus_id + 1]

ATTEMPTS == 8

VARIABLES
  pc,           \* "idle", or what the driver does next
  call,         \* arguments of the call
  attempt,      \* the loop's counter
  result,       \* what the last call returned
  data_reg,     \* the data register of each controller
  cnt,          \* its control register: the set of bits that are set
  open,         \* a transfer is open on the bus
  wire,         \* the bytes of the last transfer, and if they were taken
  writes        \* number of calls so far

vars == <<pc, call, attempt, result, data_reg, cnt, open, wire, writes>>
bus == <<data_reg, cnt, open, wire>>

Init ==
  /\ pc = "idle" /\ attempt = 0 /\ result = FALSE /\ writes = 0
  /\ call = [device |-> 0, reg |-> 0, data |-> 0, base |-> "I2C1_BASE"]
  /\ data_reg = [b \in I2C_BASE |-> 0] /\ cnt = [b \in I2C_BASE |-> {}]
  /\ open = [b \in I2C_BASE |-> FALSE] /\ wire = [b \in I2C_BASE |-> <<>>]
-----------------------------------------------------------------------------
IS_BUSY(b) == "BUSY" \in cnt[b]

\* A controller ends the transfer of a byte: it clears the busy bit and says
\* whether the device took the byte.  A start opens a transfer, a stop ends it.
Controller(b) ==
  /\ IS_BUSY(b)
  /\ IF "PAUSE" \in cnt[b]
     THEN /\ cnt' = [cnt EXCEPT ![b] = @ \ {"BUSY"}]
          /\ open' = [open EXCEPT ![b] = FALSE]
          /\ UNCHANGED wire
     ELSE \E ack \in BOOLEAN :
            LET byte == [value |-> data_reg[b], ack |-> ack]
            IN  /\ cnt' = [cnt EXCEPT ![b] = (@ \ {"BUSY"}) \cup IF ack THEN {"ACK"} ELSE {}]
                /\ open' = [open EXCEPT ![b] = "STOP" \notin cnt[b]]
                /\ wire' = [wire EXCEPT ![b] = IF "START" \in cnt[b] THEN <<byte>>
                                               ELSE Append(@, byte)]
  /\ UNCHANGED <<pc, call, attempt, result, data_reg, writes>>

\* i2c_write(): the arguments are looked up, the loop begins.
i2c_write(d, r, v) ==
  /\ pc = "idle" /\ writes < MaxWrites
  /\ call' = [device |-> d, reg |-> r, data |-> v,
              base |-> i2c_bus_id_to_addr(i2c_get_bus_id(d))]
  /\ attempt' = 0 /\ writes' = writes + 1 /\ pc' = "device"
  /\ UNCHANGED <<result, bus>>

\* i2c_wait() is over, and the driver goes on.
i2c_wait(at) == pc = at /\ ~ IS_BUSY(call.base)

\* Wait, then store a byte and the command that sends it.
Send(at, byte, command, next) ==
  /\ i2c_wait(at)
  /\ data_reg' = [data_reg EXCEPT ![call.base] = byte]
  /\ cnt' = [cnt EXCEPT ![call.base] = command \cup {"BUSY", "INT_ENABLE"}]
  /\ pc' = next
  /\ UNCHANGED <<call, attempt, result, open, wire, writes>>

\* i2c_was_acknowledged(): on to the next byte, or to i2c_nack().
i2c_was_acknowledged(at, next) ==
  /\ i2c_wait(at)
  /\ pc' = IF "ACK" \in cnt[call.base] THEN next ELSE "nack"
  /\ UNCHANGED <<call, attempt, result, bus, writes>>

try_get_device ==
  \/ Send("device", i2c_get_device_register(call.device), {"START"}, "device ack")
  \/ i2c_was_acknowledged("device ack", "register")
try_get_register ==
  \/ Send("register", call.reg, {}, "register ack")
  \/ i2c_was_acknowledged("register ack", "data")

\* Mutant: success is returned without a look at the acknowledgement.
WriteData_Hasty ==
  \/ Send("data", call.data, {"STOP"}, "data ack")
  \/ /\ i2c_wait("data ack") /\ pc' = "idle" /\ result' = TRUE
     /\ UNCHANGED <<call, attempt, bus, writes>>

WriteData ==
  \/ Send("data", call.data, {"STOP"}, "data ack")
  \/ /\ i2c_wait("data ack")
     /\ IF "ACK" \in cnt[call.base] THEN pc' = "idle" /\ result' = TRUE
        ELSE pc' = "nack" /\ result' = result
     /\ UNCHANGED <<call, attempt, bus, writes>>

NackCommand == {"BUSY", "INT_ENABLE", "PAUSE", "STOP"}

\* Mutant: a refused attempt is not counted.
NextAttempt_Uncounted(n) == n

\* The loop's counter.
NextAttempt(n) == n + 1

\* i2c_nack() and the end of a round of the loop.
i2c_nack ==
  \/ /\ pc = "nack" /\ pc' = "nack wait"
     /\ cnt' = [cnt EXCEPT ![call.base] = NackCommand]
     /\ UNCHANGED <<call, attempt, result, data_reg, open, wire, writes>>
  \/ /\ i2c_wait("nack wait")
     /\ attempt' = NextAttempt(attempt)
     /\ IF attempt' < ATTEMPTS THEN pc' = "device" /\ result' = result
        ELSE pc' = "idle" /\ result' = FALSE
     /\ UNCHANGED <<call, bus, writes>>

Driver == try_get_device \/ try_get_register \/ WriteData \/ i2c_nack

\* No further call is made.
Done == pc = "idle" /\ writes = MaxWrites /\ UNCHANGED vars

Next ==
  \/ \E b \in I2C_BASE : Controller(b)
  \/ \E d \in Devices, r \in Registers, v \in Data : i2c_write(d, r, v)
  \/ Driver \/ Done

\* A controller ends every transfer some time, and the driver is running.
Spec == /\ Init /\ [][Next]_vars
        /\ WF_vars(\E b \in I2C_BASE : Controller(b)) /\ WF_vars(Driver)
-----------------------------------------------------------------------------
\* i2c_write() returns true only if the device took its address, the register
\* and the data, one after the other in one transfer.
TrueMeansWritten ==
  pc = "idle" /\ result /\ writes > 0 =>
    wire[call.base] =
      <<[value |-> i2c_get_device_register(call.device), ack |-> TRUE],
        [value |-> call.reg, ack |-> TRUE], [value |-> call.data, ack |-> TRUE]>>

\* A byte follows only bytes that were taken: whatever the controller answered
\* in earlier attempts, no data go to a device or a register that refused.
NoByteAfterNack ==
  \A b \in I2C_BASE : \A i \in 1 .. Len(wire[b]) - 1 : wire[b][i].ack

\* When i2c_write() returns, no transfer is left open on any bus, and none is
\* under way.
BusReleased == pc = "idle" => \A b \in I2C_BASE : ~ open[b] /\ ~ IS_BUSY(b)

\* The registers of a controller are not written while it is busy.
NoStoreWhileBusy ==
  \A b \in I2C_BASE :
    Driver /\ (data_reg'[b] # data_reg[b] \/ cnt'[b] # cnt[b]) => ~ IS_BUSY(b)

\* What i2c_write() does to the buses, in short.
I2cWriteSound ==
  /\ [](TrueMeansWritten /\ NoByteAfterNack /\ BusReleased)
  /\ [][NoStoreWhileBusy]_vars

\* A call of i2c_write() returns, although the device may refuse every time.
WriteReturns == (pc # "idle") ~> (pc = "idle")
=============================================================================
