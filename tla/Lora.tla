-------------------------------- MODULE Lora --------------------------------
(***************************************************************************)
(* src/src/lora.c: sending and receiving packets over the radio. The radio *)
(* works beside the processor, which sleeps until the DIO0 pin, an output  *)
(* of the radio, raises an interrupt (src/src/gpio.c). Sequences of        *)
(* register accesses in standby, when the radio does nothing of its own,   *)
(* are one step.                                                           *)
(***************************************************************************)
EXTENDS Integers, Sequences

CONSTANTS
  Size,       \* bytes in the FIFO of the radio: 256
  Packets,    \* the packets that may be sent or received
  MaxBuffer   \* bound: size of the buffer given to a receive

ASSUME LoraAssumption ==
  /\ Size \in Nat /\ Size > 1 /\ Size % 2 = 0 /\ MaxBuffer \in Nat
  /\ <<>> \in Packets /\ Packets \subseteq Seq(0 .. 255)
  /\ \A p \in Packets : Len(p) <= Size

rx_addr == 0                \* the lower half of the FIFO receives,
tx_addr == Size \div 2      \* the upper half sends
RxFlags == {"RxTimeout", "RxDone", "CrcError", "ValidHeader"}
Min2(a, b) == IF a < b THEN a ELSE b
Upto(p, n) == SubSeq(p, 1, Min2(n, Len(p)))

VARIABLES
  pc,        \* where the driver is in
  call,      \* the call under way or made last: [op, data, size]
  buffer,    \* what a receive has stored
  result,    \* what the last call returned
  mode,      \* mode of the radio
  dio,       \* the flag that drives DIO0
  flags,     \* its interrupt flags
  fifo,      \* its FIFO, the pointer into it, and
  addr,
  payload,   \* the number of bytes to send,
  rx_bytes,  \* or received last
  air,       \* the packet sent last
  heard,     \* the packet received since the call began, [data, ok], if any
  pend,      \* is the interrupt of DIO0 pending
  asleep     \* is the processor in deep sleep

driver == <<pc, call, buffer, result>>
radio == <<mode, dio, flags, fifo, addr, payload, rx_bytes, air, heard>>
cpu == <<pend, asleep>>
vars == <<driver, radio, cpu>>

Nothing == [data |-> <<>>, ok |-> FALSE]
Call(op, data, size) == [op |-> op, data |-> data, size |-> size]
Level(d, f) == d \in f      \* of the pin

Init ==
  /\ pc = "idle" /\ call = Call("none", <<>>, 0) /\ buffer = <<>> /\ result = 0
  /\ mode = "sleep" /\ dio = "RxDone" /\ flags = {}
  /\ fifo = [a \in 0 .. Size - 1 |-> 0] /\ addr = 0 /\ payload = 1 /\ rx_bytes = 0
  /\ air = <<>> /\ heard = Nothing
  /\ pend = FALSE /\ asleep = FALSE

-----------------------------------------------------------------------------
(* The radio (external).                                                   *)

Put(f, at, p) == [a \in DOMAIN f |->
                    LET i == (a - at) % Size IN IF i < Len(p) THEN p[i + 1] ELSE f[a]]
Get(f, at, n) == [i \in 1 .. n |-> f[(at + i - 1) % Size]]

Raise(f) == /\ flags' = flags \cup f
            /\ pend' = (pend \/ (~Level(dio, flags) /\ Level(dio, flags')))

(* In single receive mode a packet arrives, perhaps damaged, or none does  *)
(* in time; in transmit mode the packet goes out. Then the radio stops.    *)
Arrives ==
  /\ mode = "rx"
  /\ \E p \in Packets \ {<<>>}, ok \in BOOLEAN :
       /\ heard' = [data |-> p, ok |-> ok] /\ fifo' = Put(fifo, rx_addr, p)
       /\ rx_bytes' = Len(p)
       /\ Raise({"RxDone", "ValidHeader"} \cup IF ok THEN {} ELSE {"CrcError"})
  /\ mode' = "standby"
  /\ UNCHANGED <<driver, dio, addr, payload, air, asleep>>

TimesOut ==
  /\ mode = "rx" /\ mode' = "standby" /\ Raise({"RxTimeout"})
  /\ UNCHANGED <<driver, dio, fifo, addr, payload, rx_bytes, air, heard, asleep>>

Sent ==
  /\ mode = "tx" /\ mode' = "standby" /\ Raise({"TxDone"})
  /\ air' = Get(fifo, tx_addr, payload)
  /\ UNCHANGED <<driver, dio, fifo, addr, payload, rx_bytes, heard, asleep>>

-----------------------------------------------------------------------------
(* The processor: am_gpio_isr, and interrupts of other devices.            *)

Isr == pend /\ pend' = FALSE /\ asleep' = FALSE /\ UNCHANGED <<driver, radio>>
Other == asleep /\ asleep' = FALSE /\ UNCHANGED <<driver, radio, pend>>

-----------------------------------------------------------------------------
(* lora_send_packet.                                                       *)

Fill(a, data) == fifo' = Put(fifo, a, data) /\ addr' = (a + Len(data)) % Size

(* Mutant: all of the packet is sent. *)
PortionAll(data) == data
Portion(data) == Upto(data, Size - tx_addr)

(* Mutant: DIO0 is not told to follow TxDone. *)
SendUnmapped(data) ==
  LET part == Portion(data) IN
  /\ pc = "idle" /\ ~asleep
  /\ call' = Call("send", data, 0) /\ heard' = Nothing
  /\ data # <<>> /\ pc' = "look" /\ mode' = "tx"
  /\ flags' = flags \ {"TxDone"} /\ payload' = Len(part) /\ Fill(tx_addr, part)
  /\ UNCHANGED <<buffer, result, dio, rx_bytes, air, cpu>>

Send(data) ==
  LET part == Portion(data) IN
  /\ pc = "idle" /\ ~asleep
  /\ call' = Call("send", data, 0) /\ heard' = Nothing
  /\ \/ data = <<>> /\ result' = 0
        /\ UNCHANGED <<pc, buffer, mode, dio, flags, fifo, addr, payload, rx_bytes,
                       air, cpu>>
     \/ data # <<>> /\ pc' = "look" /\ dio' = "TxDone" /\ mode' = "tx"
        /\ flags' = flags \ {"TxDone"} /\ payload' = Len(part) /\ Fill(tx_addr, part)
        /\ UNCHANGED <<buffer, result, rx_bytes, air, cpu>>

SendEnd ==
  /\ pc = "done" /\ call.op = "send" /\ ~asleep /\ pc' = "idle"
  /\ flags' = flags \ {"TxDone"}
  /\ result' = (IF addr - tx_addr < 0 THEN Size ELSE addr - tx_addr)
  /\ UNCHANGED <<call, buffer, mode, dio, fifo, addr, payload, rx_bytes, air, heard,
                 cpu>>

(* lora_receive_packet.                                                    *)

(* Mutant: old flags are not cleared. *)
ReceiveUncleared(size) ==
  /\ pc = "idle" /\ ~asleep
  /\ call' = Call("receive", <<>>, size) /\ pc' = "look"
  /\ buffer' = <<>> /\ heard' = Nothing
  /\ dio' = "RxDone" /\ mode' = "rx" /\ addr' = rx_addr
  /\ UNCHANGED <<result, fifo, flags, payload, rx_bytes, air, cpu>>

Receive(size) ==
  /\ pc = "idle" /\ ~asleep
  /\ call' = Call("receive", <<>>, size) /\ pc' = "look"
  /\ buffer' = <<>> /\ heard' = Nothing
  /\ dio' = "RxDone" /\ flags' = flags \ RxFlags /\ mode' = "rx" /\ addr' = rx_addr
  /\ UNCHANGED <<result, fifo, payload, rx_bytes, air, cpu>>

Usable == "RxDone" \in flags /\ "CrcError" \notin flags

ReceiveEnd ==
  LET length == IF Usable THEN Min2(rx_bytes, call.size) ELSE 0 IN
  /\ pc = "done" /\ call.op = "receive" /\ ~asleep /\ pc' = "idle"
  /\ mode' = "standby" /\ flags' = flags \ RxFlags
  /\ buffer' = Get(fifo, rx_addr, length) /\ result' = length
  /\ addr' = IF Usable THEN (rx_addr + length) % Size ELSE addr
  /\ UNCHANGED <<call, dio, fifo, payload, rx_bytes, air, heard, cpu>>

(* Both wait for DIO0, asleep: a look at the pin, then deep sleep if it is *)
(* low, which any interrupt ends.                                          *)

(* Mutant: the pin is not looked at again after waking up. *)
LookOnce ==
  /\ pc = "look" /\ ~asleep /\ pc' = "done" /\ asleep' = ~Level(dio, flags)
  /\ UNCHANGED <<call, buffer, result, radio, pend>>

Look ==
  /\ pc = "look" /\ ~asleep /\ pc' = IF Level(dio, flags) THEN "done" ELSE "sleep"
  /\ UNCHANGED <<call, buffer, result, radio, cpu>>

Sleep ==
  /\ pc = "sleep" /\ pc' = "look" /\ asleep' = TRUE
  /\ UNCHANGED <<call, buffer, result, radio, pend>>

(* lora_rx_amount, and the functions that only change the mode.            *)
RxAmount ==
  /\ pc = "idle" /\ ~asleep
  /\ result' = IF {"RxDone", "ValidHeader"} \subseteq flags
                   /\ "CrcError" \notin flags
               THEN rx_bytes ELSE 0
  /\ call' = Call("amount", <<>>, 0) /\ buffer' = <<>> /\ heard' = Nothing
  /\ UNCHANGED <<pc, mode, dio, flags, fifo, addr, payload, rx_bytes, air, cpu>>

SetMode(m) ==
  /\ pc = "idle" /\ ~asleep /\ mode' = m
  /\ call' = Call("mode", <<>>, 0) /\ buffer' = <<>> /\ result' = 0 /\ heard' = Nothing
  /\ UNCHANGED <<pc, dio, flags, fifo, addr, payload, rx_bytes, air, cpu>>

-----------------------------------------------------------------------------
Driver == SendEnd \/ ReceiveEnd \/ Look \/ Sleep
Next ==
  \/ \E data \in Packets : Send(data)
  \/ \E size \in 0 .. MaxBuffer : Receive(size)
  \/ \E m \in {"sleep", "standby", "rx", "tx"} : SetMode(m)
  \/ RxAmount \/ Driver
  \/ Arrives \/ TimesOut \/ Sent \/ Isr \/ Other

(* The processor runs, takes interrupts, and the radio ends what it does.  *)
Fairness == /\ WF_vars(Driver) /\ WF_vars(Isr)
            /\ WF_vars(Sent) /\ WF_vars(Arrives \/ TimesOut)
Spec == Init /\ [][Next]_vars /\ Fairness

(* The same with interrupts of other devices again and again, as when a    *)
(* timer triggers the ADC.                                                 *)
SpecTimer == Spec /\ WF_vars(Other)

-----------------------------------------------------------------------------
(* Properties.                                                             *)

Bytes == {0} \cup UNION {{p[i] : i \in DOMAIN p} : p \in Packets}

(* Every variable stays in its range: the pointer into the FIFO wraps, and *)
(* what is sent fits behind the start of its half.                         *)
TypeOK ==
  /\ pc \in {"idle", "look", "sleep", "done"}
  /\ call \in [op : {"none", "send", "receive", "amount", "mode"},
                data : Packets, size : 0 .. MaxBuffer]
  /\ buffer \in Seq(Bytes) /\ result \in 0 .. Size
  /\ mode \in {"sleep", "standby", "rx", "tx"} /\ dio \in {"RxDone", "TxDone"}
  /\ flags \subseteq RxFlags \cup {"TxDone"}
  /\ fifo \in [0 .. Size - 1 -> Bytes] /\ addr \in 0 .. Size - 1
  /\ payload \in 0 .. Size - tx_addr /\ rx_bytes \in 0 .. Size
  /\ air \in Seq(Bytes) /\ heard \in [data : Packets, ok : BOOLEAN]
  /\ pend \in BOOLEAN /\ asleep \in BOOLEAN

(* A receive that returns bytes returns the start of a packet that arrived *)
(* intact during the call: nothing left in the radio from before, of a     *)
(* packet sent, or of a damaged one.                                       *)
ReceivedIntact ==
  [][pc = "done" /\ pc' = "idle" /\ call.op = "receive" /\ result' > 0 =>
       heard.ok /\ buffer' = Upto(heard.data, call.size) /\ result' = Len(buffer')]_vars

(* When a send returns, the packet has gone out, as much of it as fits.    *)
SentBeforeReturn ==
  [][pc = "done" /\ pc' = "idle" /\ call.op = "send" =>
       air = Upto(call.data, Size - tx_addr) /\ mode # "tx"]_vars

(* The driver notices that the radio has done what it waits for.           *)
Done(op) == (IF op = "send" THEN "TxDone" ELSE "RxDone") \in flags
DoneNoticed == pc \in {"look", "sleep"} /\ Done(call.op) ~> pc = "idle"
=============================================================================
