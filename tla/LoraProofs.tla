----------------------------- MODULE LoraProofs -----------------------------
(***************************************************************************)
(* Proofs about the radio: the packets of Lora and the settings of         *)
(* LoraConfig.                                                             *)
(***************************************************************************)
EXTENDS Lora, LoraConfig, SequenceTheorems, TLAPS

(* The FIFO is a ring: the place k bytes behind another, and back.         *)
LEMMA FifoPlace ==
  ASSUME NEW n \in Nat \ {0}, NEW at \in 0 .. n - 1, NEW k \in 0 .. n - 1
  PROVE  (at + k) % n \in 0 .. n - 1 /\ (((at + k) % n) - at) % n = k
<1>1. ASSUME NEW a \in Int
      PROVE  /\ (0 <= a /\ a < n) => a % n = a
             /\ (n <= a /\ a < 2 * n) => a % n = a - n
             /\ (-n <= a /\ a < 0) => a % n = a + n
  OBVIOUS
<1>2. CASE at + k < n
  BY <1>1, <1>2
<1>3. CASE at + k >= n
  BY <1>1, <1>3
<1> QED BY <1>2, <1>3

Address == 0 .. Size - 1

(* The half that sends is as long as what precedes it.                     *)
LEMMA Halves ==
  /\ Size \in Nat \ {0} /\ rx_addr \in Address /\ tx_addr \in Address
  /\ Size - tx_addr \in Nat /\ Size - tx_addr <= Size /\ Size - tx_addr > 0
BY LoraAssumption DEF LoraAssumption, rx_addr, tx_addr, Address

(* The FIFO holds p from a place on.                                       *)
Holds(f, at, p) == \A k \in 1 .. Len(p) : f[(at + k - 1) % Size] = p[k]

(* What is put into the FIFO is there, whatever it wraps around, and what  *)
(* is there is read back.                                                  *)
LEMMA PutHolds ==
  ASSUME NEW S, NEW f \in [Address -> S], NEW at \in Address, NEW p \in Seq(S), Len(p) <= Size
  PROVE  Put(f, at, p) \in [Address -> S] /\ Holds(Put(f, at, p), at, p)
<1>1. Put(f, at, p) \in [Address -> S]
  <2> SUFFICES ASSUME NEW a \in Address
               PROVE  (LET k == (a - at) % Size IN IF k < Len(p) THEN p[k + 1] ELSE f[a]) \in S
    BY DEF Put
  <2>1. (a - at) % Size \in Nat
    BY Halves DEF Address
  <2> QED BY <2>1
<1>2. ASSUME NEW k \in 1 .. Len(p) PROVE Put(f, at, p)[(at + k - 1) % Size] = p[k]
  <2>1. k - 1 \in 0 .. Size - 1
    BY Halves
  <2>2. /\ (at + k - 1) % Size \in Address
        /\ (((at + k - 1) % Size) - at) % Size = k - 1
    <3>1. at + (k - 1) = at + k - 1
      BY <2>1, Halves DEF Address
    <3> QED BY <2>1, <3>1, Halves, FifoPlace DEF Address
  <2> QED BY <2>1, <2>2 DEF Put
<1> QED BY <1>1, <1>2 DEF Holds

LEMMA GetSeq ==
  ASSUME NEW S, NEW f \in [Address -> S], NEW at \in Address, NEW n \in 0 .. Size
  PROVE  /\ Get(f, at, n) \in Seq(S) /\ Len(Get(f, at, n)) = n
         /\ \A k \in 1 .. n : Get(f, at, n)[k] = f[(at + k - 1) % Size]
<1>1. \A k \in 1 .. n : f[(at + k - 1) % Size] \in S
  BY Halves DEF Address
<1>2. Get(f, at, n) \in [1 .. n -> S]
  BY <1>1 DEF Get
<1>3. n \in Nat
  BY Halves
<1> QED BY <1>2, <1>3 DEF Get

LEMMA GetHeld ==
  ASSUME NEW S, NEW f \in [Address -> S], NEW at \in Address, NEW p \in Seq(S),
         Len(p) <= Size, Holds(f, at, p), NEW n \in 0 .. Len(p)
  PROVE  Get(f, at, n) = SubSeq(p, 1, n)
<1>1. n \in 0 .. Size /\ n \in Int /\ \A k \in 1 .. n : p[k] \in S /\ k \in 1 .. Len(p)
  BY Halves
<1>2. /\ SubSeq(p, 1, n) \in Seq(S) /\ Len(SubSeq(p, 1, n)) = n
      /\ \A k \in 1 .. n : SubSeq(p, 1, n)[k] = p[k]
  BY <1>1, SubSeqProperties
<1>3. /\ Get(f, at, n) \in Seq(S) /\ Len(Get(f, at, n)) = n
      /\ \A k \in 1 .. n : Get(f, at, n)[k] = f[(at + k - 1) % Size]
  BY <1>1, GetSeq
<1> QED BY <1>1, <1>2, <1>3, SeqEqual DEF Holds

(* The part of a packet that is sent fits.                                 *)
LEMMA PacketBytes ==
  ASSUME NEW p \in Packets
  PROVE  p \in Seq(Bytes) /\ Len(p) \in Nat /\ Len(p) <= Size
<1>1. p \in Seq(0 .. 255) /\ Len(p) <= Size /\ Len(p) \in Nat /\ DOMAIN p = 1 .. Len(p)
  BY LoraAssumption DEF LoraAssumption
<1>2. \A k \in 1 .. Len(p) : p[k] \in Bytes
  BY <1>1 DEF Bytes
<1> QED BY <1>1, <1>2

LEMMA PortionBytes ==
  ASSUME NEW p \in Packets
  PROVE  /\ Portion(p) \in Seq(Bytes) /\ Len(Portion(p)) \in Nat
         /\ Len(Portion(p)) <= Size - tx_addr
<1>1. /\ Min2(Size - tx_addr, Len(p)) \in 0 .. Len(p)
      /\ Min2(Size - tx_addr, Len(p)) <= Size - tx_addr
  BY Halves, PacketBytes DEF Min2
<1>2. \A k \in 1 .. Min2(Size - tx_addr, Len(p)) : p[k] \in Bytes
  BY <1>1, PacketBytes
<1>3. Min2(Size - tx_addr, Len(p)) \in Int
  BY <1>1, PacketBytes
<1> QED BY <1>1, <1>2, <1>3, PacketBytes, SubSeqProperties DEF Portion, Upto
-----------------------------------------------------------------------------
(* Type correctness. *)

Calls == [op : {"none", "send", "receive", "amount", "mode"},
          data : Packets, size : 0 .. MaxBuffer]

LEMMA RadioInit == Init => TypeOK
<1> SUFFICES ASSUME Init PROVE TypeOK
  OBVIOUS
<1>1. <<>> \in Packets /\ 0 \in 0 .. MaxBuffer /\ 0 \in Bytes
  BY LoraAssumption DEF LoraAssumption, Bytes
<1>2. call \in Calls
  BY <1>1 DEF Init, Call, Calls
<1>3. fifo \in [0 .. Size - 1 -> Bytes] /\ addr \in 0 .. Size - 1
  BY <1>1, Halves DEF Init
<1>4. heard \in [data : Packets, ok : BOOLEAN] /\ buffer \in Seq(Bytes) /\ air \in Seq(Bytes)
  BY <1>1, EmptySeq DEF Init, Nothing
<1>5. payload \in 0 .. Size - tx_addr /\ result \in 0 .. Size /\ rx_bytes \in 0 .. Size
  BY Halves DEF Init
<1> QED BY <1>2, <1>3, <1>4, <1>5 DEF Init, TypeOK, Calls, RxFlags

(* What the radio does of its own.                                         *)
LEMMA RadioStep ==
  ASSUME TypeOK, Arrives \/ TimesOut \/ Sent
  PROVE  TypeOK'
<1> USE DEF TypeOK, Calls
<1>0. ASSUME NEW f \in SUBSET (RxFlags \cup {"TxDone"}), Raise(f)
      PROVE  flags' \subseteq RxFlags \cup {"TxDone"} /\ pend' \in BOOLEAN
  BY <1>0 DEF Raise, Level
<1>1. CASE Arrives
  <2>1. PICK p \in Packets \ {<<>>}, ok \in BOOLEAN :
          /\ heard' = [data |-> p, ok |-> ok] /\ fifo' = Put(fifo, rx_addr, p)
          /\ rx_bytes' = Len(p)
          /\ Raise({"RxDone", "ValidHeader"} \cup IF ok THEN {} ELSE {"CrcError"})
    BY <1>1 DEF Arrives
  <2>2. fifo' \in [Address -> Bytes] /\ rx_bytes' \in 0 .. Size
    <3>1. p \in Seq(Bytes) /\ Len(p) \in Nat /\ Len(p) <= Size
      BY PacketBytes
    <3>2. fifo \in [Address -> Bytes]
      BY DEF Address
    <3>3. Put(fifo, rx_addr, p) \in [Address -> Bytes]
      BY <3>1, <3>2, PutHolds, Halves
    <3> QED BY <2>1, <3>1, <3>3, Halves
  <2>3. flags' \subseteq RxFlags \cup {"TxDone"} /\ pend' \in BOOLEAN
    BY <1>0, <2>1 DEF RxFlags
  <2> QED BY <1>1, <2>1, <2>2, <2>3 DEF Arrives, driver, Address
<1>2. CASE TimesOut
  <2>1. flags' \subseteq RxFlags \cup {"TxDone"} /\ pend' \in BOOLEAN
    BY <1>0, <1>2 DEF TimesOut, RxFlags
  <2> QED BY <1>2, <2>1 DEF TimesOut, driver
<1>3. CASE Sent
  <2>1. flags' \subseteq RxFlags \cup {"TxDone"} /\ pend' \in BOOLEAN
    BY <1>0, <1>3 DEF Sent
  <2>2. air' \in Seq(Bytes)
    <3>1. fifo \in [Address -> Bytes] /\ payload \in 0 .. Size
      BY Halves DEF Address
    <3>2. Get(fifo, tx_addr, payload) \in Seq(Bytes)
      BY <3>1, GetSeq, Halves
    <3> QED BY <1>3, <3>2 DEF Sent
  <2> QED BY <1>3, <2>1, <2>2 DEF Sent, driver
<1> QED BY <1>1, <1>2, <1>3

LEMMA CallStep ==
  ASSUME TypeOK,
         \/ \E data \in Packets : Send(data)
         \/ \E size \in 0 .. MaxBuffer : Receive(size)
  PROVE  TypeOK'
<1> USE DEF TypeOK, Calls
<1>1. ASSUME NEW data \in Packets, Send(data) PROVE TypeOK'
  <2>1. /\ call' = Call("send", data, 0) /\ heard' = Nothing
        /\ call' \in Calls
        /\ heard' \in [data : Packets, ok : BOOLEAN]
    BY <1>1, LoraAssumption DEF LoraAssumption, Send, Call, Nothing
  <2>2. CASE data = <<>> /\ result' = 0 /\
             UNCHANGED <<pc, buffer, mode, dio, flags, fifo, addr, payload, rx_bytes, air, cpu>>
    BY <2>1, <2>2, Halves DEF cpu
  <2>3. CASE /\ pc' = "look" /\ dio' = "TxDone" /\ mode' = "tx" /\ flags' = flags \ {"TxDone"}
             /\ payload' = Len(Portion(data)) /\ Fill(tx_addr, Portion(data))
             /\ UNCHANGED <<buffer, result, rx_bytes, air, cpu>>
    <3>1. fifo' \in [Address -> Bytes] /\ payload' \in 0 .. Size - tx_addr
      <4>1. /\ Portion(data) \in Seq(Bytes) /\ Len(Portion(data)) \in 0 .. Size - tx_addr
            /\ Len(Portion(data)) <= Size
        BY PortionBytes, Halves
      <4>2. fifo \in [Address -> Bytes]
        BY DEF Address
      <4>3. Put(fifo, tx_addr, Portion(data)) \in [Address -> Bytes]
        BY <4>1, <4>2, PutHolds, Halves
      <4> QED BY <2>3, <4>1, <4>3 DEF Fill
    <3>2. addr' \in 0 .. Size - 1
      BY <2>3, PortionBytes, Halves DEF Fill, Address
    <3> QED BY <2>1, <2>3, <3>1, <3>2 DEF cpu, Address
  <2> QED BY <1>1, <2>2, <2>3 DEF Send
<1>2. ASSUME NEW size \in 0 .. MaxBuffer, Receive(size) PROVE TypeOK'
  <2>1. /\ call' \in Calls
        /\ heard' \in [data : Packets, ok : BOOLEAN]
        /\ buffer' \in Seq(Bytes) /\ addr' \in 0 .. Size - 1
    BY <1>2, LoraAssumption, Halves, EmptySeq
       DEF LoraAssumption, Receive, Call, Nothing, Address
  <2> QED BY <1>2, <2>1 DEF Receive, cpu
<1> QED BY <1>1, <1>2

LEMMA EndStep ==
  ASSUME TypeOK, SendEnd \/ ReceiveEnd
  PROVE  TypeOK'
<1> USE DEF TypeOK, Calls
<1>1. CASE SendEnd
  <2>1. result' \in 0 .. Size
    BY <1>1, Halves DEF SendEnd, Address
  <2> QED BY <1>1, <2>1 DEF SendEnd, cpu
<1>2. CASE ReceiveEnd
  <2> DEFINE length == IF Usable THEN Min2(rx_bytes, call.size) ELSE 0
  <2>1. length \in 0 .. Size
    BY Halves, LoraAssumption DEF Min2, LoraAssumption
  <2>2. buffer' = Get(fifo, rx_addr, length) /\ result' = length
        /\ addr' = IF Usable THEN (rx_addr + length) % Size ELSE addr
    BY <1>2 DEF ReceiveEnd
  <2> HIDE DEF length
  <2>3. buffer' \in Seq(Bytes)
    BY <2>1, <2>2, GetSeq, Halves DEF Address
  <2>4. addr' \in 0 .. Size - 1
    BY <2>1, <2>2, Halves DEF Address
  <2> QED BY <1>2, <2>1, <2>2, <2>3, <2>4 DEF ReceiveEnd, cpu
<1> QED BY <1>1, <1>2

LEMMA TypeStep == TypeOK /\ [Next]_vars => TypeOK'
<1> SUFFICES ASSUME TypeOK, [Next]_vars PROVE TypeOK'
  OBVIOUS
<1> USE DEF TypeOK, Calls
<1>1. CASE RxAmount
  <2>1. call' \in Calls
        /\ heard' \in [data : Packets, ok : BOOLEAN] /\ buffer' \in Seq(Bytes)
    BY <1>1, LoraAssumption, EmptySeq DEF LoraAssumption, RxAmount, Call, Nothing
  <2>2. result' \in 0 .. Size
    BY <1>1, Halves DEF RxAmount
  <2> QED BY <1>1, <2>1, <2>2 DEF RxAmount, cpu
<1>2. ASSUME NEW m \in {"sleep", "standby", "rx", "tx"}, SetMode(m) PROVE TypeOK'
  <2>1. call' \in Calls
        /\ heard' \in [data : Packets, ok : BOOLEAN] /\ buffer' \in Seq(Bytes)
        /\ result' \in 0 .. Size
    BY <1>2, LoraAssumption, EmptySeq, Halves DEF LoraAssumption, SetMode, Call, Nothing
  <2> QED BY <1>2, <2>1 DEF SetMode, cpu
<1>3. CASE Look \/ Sleep
  BY <1>3 DEF Look, Sleep, radio, cpu
<1>4. CASE Isr \/ Other
  BY <1>4 DEF Isr, Other, driver, radio
<1>5. CASE UNCHANGED vars
  BY <1>5 DEF vars, driver, radio, cpu
<1> QED BY <1>1, <1>2, <1>3, <1>4, <1>5, RadioStep, CallStep, EndStep DEF Next, Driver

(* Every variable of the driver and of the radio stays in its range: no    *)
(* packet, buffer or FIFO of any size makes the FIFO pointer, or the       *)
(* number of bytes to send, leave it.                                      *)
THEOREM RadioTypeCorrect == Spec => []TypeOK
BY RadioInit, TypeStep, PTL DEF Spec

-----------------------------------------------------------------------------
(* What the driver and the radio know of each other during a call.         *)

(* A receive began with no flag of an earlier packet, and the radio stops  *)
(* after one: while it may still hear a packet there is none, and a packet *)
(* that is there is the one heard.                                         *)
Receiving ==
  pc # "idle" /\ call.op = "receive" =>
    /\ dio = "RxDone" /\ mode \in {"rx", "standby"}
    /\ mode = "rx" => flags \cap RxFlags = {}
    /\ "RxDone" \in flags =>
         /\ rx_bytes = Len(heard.data) /\ heard.ok = ("CrcError" \notin flags)
         /\ Holds(fifo, rx_addr, heard.data)

(* The part of the packet that fits is in the half that sends, and once    *)
(* the radio says it is done, this part has gone out.                      *)
Sending ==
  pc # "idle" /\ call.op = "send" =>
    /\ dio = "TxDone" /\ mode \in {"tx", "standby"}
    /\ payload = Len(Portion(call.data)) /\ Holds(fifo, tx_addr, Portion(call.data))
    /\ "TxDone" \in flags => mode = "standby" /\ air = Portion(call.data)

Waiting ==
  /\ pc # "idle" => call.op \in {"send", "receive"}
  /\ pc = "done" => Level(dio, flags)

CallInv == TypeOK /\ Receiving /\ Sending /\ Waiting

(* An event of the radio: what was raised is raised, and what was not yet. *)
LEMMA CallRadio ==
  ASSUME CallInv, Arrives \/ TimesOut \/ Sent
  PROVE  Receiving' /\ Sending' /\ Waiting'
<1> USE DEF CallInv
<1>1. CASE Arrives
  <2>1. PICK p \in Packets \ {<<>>}, ok \in BOOLEAN :
          /\ heard' = [data |-> p, ok |-> ok] /\ fifo' = Put(fifo, rx_addr, p)
          /\ rx_bytes' = Len(p)
          /\ Raise({"RxDone", "ValidHeader"} \cup IF ok THEN {} ELSE {"CrcError"})
    BY <1>1 DEF Arrives
  <2>2. /\ flags' = flags \cup {"RxDone", "ValidHeader"} \cup (IF ok THEN {} ELSE {"CrcError"})
        /\ mode = "rx" /\ mode' = "standby" /\ UNCHANGED <<pc, call, dio, payload, air>>
    BY <1>1, <2>1 DEF Raise, Arrives, driver
  <2>3. Holds(fifo', rx_addr, p)
    <3>1. p \in Seq(Bytes) /\ Len(p) <= Size /\ fifo \in [Address -> Bytes]
      BY PacketBytes DEF TypeOK, Address
    <3> QED BY <2>1, <3>1, PutHolds, Halves
  <2>4. Receiving'
    <3> SUFFICES ASSUME pc # "idle", call.op = "receive"
                 PROVE  /\ dio = "RxDone" /\ heard'.data = p
                        /\ heard'.ok = ("CrcError" \notin flags')
      BY <2>1, <2>2, <2>3 DEF Receiving
    <3>1. dio = "RxDone" /\ flags \cap RxFlags = {}
      BY <2>2 DEF Receiving
    <3>2. heard'.ok = ok /\ heard'.data = p
      BY <2>1
    <3>3. ("CrcError" \notin flags') = ok
      BY <2>2, <3>1 DEF RxFlags
    <3> QED BY <3>1, <3>2, <3>3
  <2>5. Sending' /\ Waiting'
    BY <2>2 DEF Sending, Waiting, Level
  <2> QED BY <2>4, <2>5
<1>2. CASE TimesOut
  <2>1. /\ flags' = flags \cup {"RxTimeout"} /\ mode = "rx" /\ mode' = "standby"
        /\ UNCHANGED <<pc, call, dio, payload, air, heard, fifo, rx_bytes>>
    BY <1>2 DEF TimesOut, Raise, driver
  <2> QED BY <2>1 DEF Receiving, Sending, Waiting, Level, RxFlags
<1>3. CASE Sent
  <2>1. /\ flags' = flags \cup {"TxDone"} /\ mode = "tx" /\ mode' = "standby"
        /\ UNCHANGED <<pc, call, dio, payload, heard, fifo, rx_bytes>>
        /\ air' = Get(fifo, tx_addr, payload)
    BY <1>3 DEF Sent, Raise, driver
  <2>2. Receiving' /\ Waiting'
    BY <2>1 DEF Receiving, Waiting, Level
  <2>3. Sending'
    <3> SUFFICES ASSUME pc # "idle", call.op = "send"
                 PROVE  air' = Portion(call.data)
      BY <2>1 DEF Sending
    <3> DEFINE part == Portion(call.data)
    <3>1. /\ call.data \in Packets /\ payload = Len(part) /\ Holds(fifo, tx_addr, part)
          /\ fifo \in [Address -> Bytes]
      BY DEF Sending, TypeOK, Address
    <3>2. part \in Seq(Bytes) /\ Len(part) \in Nat /\ Len(part) <= Size
      BY <3>1, PortionBytes, Halves
    <3> HIDE DEF part
    <3>3. Get(fifo, tx_addr, payload) = SubSeq(part, 1, payload)
      BY <3>1, <3>2, GetHeld, Halves
    <3> QED BY <2>1, <3>1, <3>2, <3>3, SubSeqFull DEF part
  <2> QED BY <2>2, <2>3
<1> QED BY <1>1, <1>2, <1>3

LEMMA CallBegins ==
  ASSUME CallInv, 
         \/ \E data \in Packets : Send(data)
         \/ \E size \in 0 .. MaxBuffer : Receive(size)
  PROVE  Receiving' /\ Sending' /\ Waiting'
<1> USE DEF CallInv
<1>1. ASSUME NEW data \in Packets, Send(data) PROVE Receiving' /\ Sending' /\ Waiting'
  <2>1. call' = Call("send", data, 0) /\ call'.op = "send" /\ call'.data = data /\ pc = "idle"
    BY <1>1 DEF Send, Call
  <2>2. CASE UNCHANGED pc
    BY <2>1, <2>2 DEF Receiving, Sending, Waiting
  <2>3. CASE /\ pc' = "look" /\ dio' = "TxDone" /\ mode' = "tx" /\ flags' = flags \ {"TxDone"}
             /\ payload' = Len(Portion(data)) /\ Fill(tx_addr, Portion(data))
    <3>1. Portion(data) \in Seq(Bytes) /\ Len(Portion(data)) <= Size /\ fifo \in [Address -> Bytes]
      BY PortionBytes, Halves DEF TypeOK, Address
    <3>2. Holds(fifo', tx_addr, Portion(data))
      BY <2>3, <3>1, PutHolds, Halves DEF Fill
    <3> QED BY <2>1, <2>3, <3>2 DEF Receiving, Sending, Waiting
  <2> QED BY <1>1, <2>2, <2>3 DEF Send
<1>2. ASSUME NEW size \in 0 .. MaxBuffer, Receive(size)
      PROVE  Receiving' /\ Sending' /\ Waiting'
  <2>1. /\ call'.op = "receive" /\ pc' = "look" /\ dio' = "RxDone" /\ mode' = "rx"
        /\ flags' = flags \ RxFlags
    BY <1>2 DEF Receive, Call
  <2> QED BY <2>1 DEF Receiving, Sending, Waiting, RxFlags
<1> QED BY <1>1, <1>2

LEMMA CallInvStep == CallInv /\ [Next]_vars => CallInv'
<1> SUFFICES ASSUME CallInv, [Next]_vars PROVE Receiving' /\ Sending' /\ Waiting'
  BY TypeStep DEF CallInv
<1> USE DEF CallInv
<1>1. CASE SendEnd \/ ReceiveEnd
  BY <1>1 DEF SendEnd, ReceiveEnd, Receiving, Sending, Waiting
<1>2. CASE Look
  BY <1>2 DEF Look, radio, Receiving, Sending, Waiting, Level
<1>3. CASE Sleep
  BY <1>3 DEF Sleep, radio, Receiving, Sending, Waiting, Level
<1>4. CASE RxAmount \/ \E m \in {"sleep", "standby", "rx", "tx"} : SetMode(m)
  BY <1>4 DEF RxAmount, SetMode, Receiving, Sending, Waiting
<1>5. CASE Isr \/ Other \/ UNCHANGED vars
  BY <1>5 DEF Isr, Other, vars, driver, radio, Receiving, Sending, Waiting, Level
<1> QED BY <1>1, <1>2, <1>3, <1>4, <1>5, CallRadio, CallBegins DEF Next, Driver

LEMMA CallInvInit == Init => CallInv
BY RadioInit DEF Init, CallInv, Receiving, Sending, Waiting

(* What a receive returns is the start of a packet that the radio heard    *)
(* intact during the call, for any packets, FIFO and buffer.               *)
THEOREM ReceivesIntact == Spec => ReceivedIntact
<1> DEFINE Step == pc = "done" /\ pc' = "idle" /\ call.op = "receive" /\ result' > 0 =>
                     heard.ok /\ buffer' = Upto(heard.data, call.size) /\ result' = Len(buffer')
<1>1. CallInv /\ [Next]_vars => [Step]_vars
  <2> SUFFICES ASSUME CallInv, [Next]_vars, pc = "done", pc' = "idle", call.op = "receive",
                      result' > 0
               PROVE  /\ heard.ok /\ buffer' = Upto(heard.data, call.size)
                      /\ result' = Len(buffer')
    OBVIOUS
  <2>1. ReceiveEnd
    BY DEF Next, Driver, Send, Receive, SetMode, RxAmount, SendEnd, Look, Sleep, Arrives,
           TimesOut, Sent, Isr, Other, vars, driver
  <2> DEFINE n == Min2(rx_bytes, call.size)
             p == heard.data
  <2>2. Usable /\ buffer' = Get(fifo, rx_addr, n) /\ result' = n
    BY <2>1 DEF ReceiveEnd
  <2>3. /\ p \in Packets /\ heard.ok /\ rx_bytes = Len(p) /\ Holds(fifo, rx_addr, p)
        /\ fifo \in [Address -> Bytes] /\ call.size \in Nat
    BY <2>2, LoraAssumption DEF CallInv, Receiving, Usable, TypeOK, Address, LoraAssumption
  <2>4. p \in Seq(Bytes) /\ Len(p) \in Nat /\ Len(p) <= Size
    BY <2>3, PacketBytes
  <2>5. n \in 0 .. Len(p) /\ n = Min2(call.size, Len(p)) /\ n \in 0 .. Size
    BY <2>3, <2>4, Halves DEF Min2
  <2> HIDE DEF n, p
  <2>6. Get(fifo, rx_addr, n) = SubSeq(p, 1, n) /\ Len(Get(fifo, rx_addr, n)) = n
    BY <2>3, <2>4, <2>5, GetHeld, GetSeq, Halves
  <2> QED BY <2>2, <2>3, <2>5, <2>6 DEF Upto, p
<1> QED BY <1>1, CallInvInit, CallInvStep, PTL DEF Spec, ReceivedIntact

(* A send returns only when as much of its packet as fits has gone out.    *)
THEOREM SendsBeforeReturn == Spec => SentBeforeReturn
<1> DEFINE Step == pc = "done" /\ pc' = "idle" /\ call.op = "send" =>
                     air = Upto(call.data, Size - tx_addr) /\ mode # "tx"
<1>1. CallInv /\ [Next]_vars => [Step]_vars
  BY DEF CallInv, Sending, Waiting, Level, Portion
<1> QED BY <1>1, CallInvInit, CallInvStep, PTL DEF Spec, SentBeforeReturn

-----------------------------------------------------------------------------
(* The settings. *)

Byte == 0 .. 255

(* A field that is set has its value, the byte is a byte, and the other    *)
(* fields of the register are as they were: for MODEM_CONFIG1, whose three *)
(* fields are set one by one, OPMODE, LNA and MODEM_CONFIG2.               *)
LEMMA ModemFields ==
  ASSUME NEW b \in Byte, NEW v \in Nat
  PROVE  /\ With(b, 4, 4, v) \in Byte /\ Field(With(b, 4, 4, v), 4, 4) = v % 16
         /\ Field(With(b, 4, 4, v), 1, 3) = Field(b, 1, 3)
         /\ With(b, 1, 3, v) \in Byte /\ Field(With(b, 1, 3, v), 1, 3) = v % 8
         /\ Field(With(b, 1, 3, v), 4, 4) = Field(b, 4, 4)
         /\ With(b, 0, 1, 0) \in Byte /\ Field(With(b, 0, 1, 0), 1, 3) = Field(b, 1, 3)
         /\ Field(With(b, 0, 1, 0), 4, 4) = Field(b, 4, 4)
         /\ Field(With(b, 0, 1, 0), 0, 1) = 0
         /\ Field(With(b, 4, 4, v), 0, 1) = Field(b, 0, 1)
         /\ Field(With(b, 1, 3, v), 0, 1) = Field(b, 0, 1)
         /\ Field(b, 4, 4) \in 0 .. 15
BY DEF With, Field, Bit, Byte

(* The OR of two fields has the bits of each, and is the first when the    *)
(* second has none.                                                        *)
LEMMA BitOrBits ==
  ASSUME NEW a \in 0 .. 15, NEW b \in 0 .. 15
  PROVE  /\ BitOr(a, b) \in 0 .. 15
         /\ b = 0 => BitOr(a, b) = a
         /\ Includes(BitOr(a, b), a)
<1> DEFINE A(n) == Field(a, n, 1)
           B(n) == Field(b, n, 1)
           O(n) == IF A(n) + B(n) > 0 THEN 1 ELSE 0
<1>1. /\ \A n \in 0 .. 3 : A(n) \in {0, 1} /\ B(n) \in {0, 1}
      /\ a = A(0) + 2 * A(1) + 4 * A(2) + 8 * A(3)
      /\ b = 0 => B(0) = 0 /\ B(1) = 0 /\ B(2) = 0 /\ B(3) = 0
  BY DEF Field, Bit
<1>2. BitOr(a, b) = O(0) + 2 * O(1) + 4 * O(2) + 8 * O(3)
  BY DEF BitOr, Bit
<1>3. \A n \in 0 .. 3 : O(n) \in {0, 1} /\ A(n) <= O(n)
  BY <1>1
<1>4. b = 0 => O(0) = A(0) /\ O(1) = A(1) /\ O(2) = A(2) /\ O(3) = A(3)
  BY <1>1
<1> HIDE DEF O, A, B
<1>5. /\ BitOr(a, b) \in 0 .. 15
      /\ Field(BitOr(a, b), 0, 1) = O(0) /\ Field(BitOr(a, b), 1, 1) = O(1)
      /\ Field(BitOr(a, b), 2, 1) = O(2) /\ Field(BitOr(a, b), 3, 1) = O(3)
  BY <1>2, <1>3 DEF Field, Bit
<1>6. b = 0 => BitOr(a, b) = a
  BY <1>1, <1>2, <1>4
<1>7. \A n \in 0 .. 3 : Field(a, n, 1) <= Field(BitOr(a, b), n, 1)
  <2>1. \A n \in 0 .. 3 : n = 0 \/ n = 1 \/ n = 2 \/ n = 3
    OBVIOUS
  <2> QED BY <1>3, <1>5, <2>1 DEF A
<1> QED BY <1>5, <1>6, <1>7 DEF Includes

LEMMA IncludesItself ==
  ASSUME NEW a \in 0 .. 15 PROVE Includes(a, a)
<1>1. ASSUME NEW n \in 0 .. 3 PROVE Field(a, n, 1) \in Int
  <2>1. Bit(n) \in Nat \ {0} /\ Bit(1) = 2
    BY DEF Bit
  <2> QED BY <2>1 DEF Field
<1> QED BY <1>1 DEF Includes

LEMMA IncludesThrough ==
  ASSUME NEW a \in 0 .. 15, NEW b \in 0 .. 15, NEW c \in 0 .. 15,
         Includes(a, b), Includes(b, c)
  PROVE  Includes(a, c)
<1>1. ASSUME NEW x \in 0 .. 15, NEW n \in 0 .. 3 PROVE Field(x, n, 1) \in Int
  <2>1. Bit(n) \in Nat \ {0} /\ Bit(1) = 2
    BY DEF Bit
  <2> QED BY <2>1 DEF Field
<1>2. \A n \in 0 .. 3 : /\ Field(a, n, 1) \in Int /\ Field(b, n, 1) \in Int
                        /\ Field(c, n, 1) \in Int
  BY <1>1
<1> QED BY <1>2 DEF Includes

(* What a coding rate does to its register.                                *)
LEMMA RateFields ==
  ASSUME NEW b \in Byte, NEW r \in Byte
  PROVE  /\ WithRate(b, r) \in Byte /\ Field(WithRate(b, r), 1, 3) = r % 8
         /\ Field(WithRate(b, r), 0, 1) = Field(b, 0, 1)
         /\ Field(WithRate(b, r), 4, 4) = BitOr(Field(b, 4, 4), Over(r))
<1> DEFINE c == With(b, 1, 3, r)
           o == BitOr(Field(b, 4, 4), Over(r))
<1>1. Over(r) \in 0 .. 15 /\ Field(b, 4, 4) \in 0 .. 15
  BY DEF Over, Field, Bit, Byte
<1>2. o \in 0 .. 15
  BY <1>1, BitOrBits
<1>3. c \in Byte /\ Field(c, 1, 3) = r % 8 /\ Field(c, 0, 1) = Field(b, 0, 1)
  <2>1. r \in Nat
    BY DEF Byte
  <2> QED BY <2>1, ModemFields
<1>4. WithRate(b, r) = With(c, 4, 4, o)
  BY DEF WithRate
<1> HIDE DEF c, o
<1>5. o \in Nat /\ o % 16 = o
  BY <1>2
<1>6. /\ With(c, 4, 4, o) \in Byte /\ Field(With(c, 4, 4, o), 4, 4) = o
      /\ Field(With(c, 4, 4, o), 1, 3) = Field(c, 1, 3)
      /\ Field(With(c, 4, 4, o), 0, 1) = Field(c, 0, 1)
  BY <1>3, <1>5, ModemFields
<1> QED BY <1>3, <1>4, <1>6 DEF o

LEMMA ModeFields ==
  ASSUME NEW b \in Byte, Field(b, 7, 1) = 1, NEW v \in 0 .. 7, NEW l \in {0, 1}
  PROVE  /\ With(b, 0, 3, v) \in Byte /\ Field(With(b, 0, 3, v), 0, 3) = v
         /\ Field(With(b, 0, 3, v), 3, 1) = Field(b, 3, 1) /\ Field(With(b, 0, 3, v), 7, 1) = 1
         /\ With(b, 3, 1, l) \in Byte /\ Field(With(b, 3, 1, l), 3, 1) = l
         /\ Field(With(b, 3, 1, l), 0, 3) = Field(b, 0, 3) /\ Field(With(b, 3, 1, l), 7, 1) = 1
BY DEF With, Field, Bit, Byte

LEMMA LnaFields ==
  ASSUME NEW b \in Byte, NEW boost \in {0, 3}, NEW gain \in 1 .. 6
  PROVE  LET c == With(With(b, 0, 2, boost), 5, 3, gain)
         IN  c \in Byte /\ Field(c, 5, 3) = gain /\ Field(c, 0, 2) = boost
<1> DEFINE c == With(b, 0, 2, boost)
<1>1. c \in Byte /\ Field(c, 0, 2) = boost
  BY DEF With, Field, Bit, Byte
<1> HIDE DEF c
<1>2. /\ With(c, 5, 3, gain) \in Byte /\ Field(With(c, 5, 3, gain), 5, 3) = gain
      /\ Field(With(c, 5, 3, gain), 0, 2) = Field(c, 0, 2)
  BY <1>1 DEF With, Field, Bit, Byte
<1> QED BY <1>1, <1>2 DEF c

(* The power of a level that may be asked for.                             *)
LEMMA LevelPower ==
  ASSUME NEW high \in BOOLEAN, NEW dBm \in Int, IF high THEN dBm \in 2 .. 17 ELSE dBm \in -4 .. 15
  PROVE  LET pa == PaConfig(dBm, high)
             below == 10 * (15 - Field(pa, 0, 4))
         IN  /\ pa \in Byte
             /\ high => Field(pa, 7, 1) = 1 /\ 170 - below = 10 * dBm
             /\ ~high => Field(pa, 7, 1) = 0
             /\ ~high /\ dBm < 0 => 108 + 6 * Field(pa, 4, 3) - below = 10 * dBm - 2
             /\ ~high /\ dBm >= 0 => 108 + 6 * Field(pa, 4, 3) - below = 10 * dBm - 24
<1>1. CASE high
  <2>1. PaConfig(dBm, high) = 128 + 32 + (dBm - 2)
    BY <1>1 DEF PaConfig, Power
  <2>2. dBm \in 2 .. 17
    BY <1>1
  <2>3. /\ PaConfig(dBm, high) \in Byte /\ Field(PaConfig(dBm, high), 0, 4) = dBm - 2
        /\ Field(PaConfig(dBm, high), 7, 1) = 1
    BY <2>1, <2>2 DEF Field, Bit, Byte
  <2>4. 170 - 10 * (15 - Field(PaConfig(dBm, high), 0, 4)) = 10 * dBm
    BY <2>2, <2>3
  <2> QED BY <1>1, <2>3, <2>4
<1>2. CASE ~high /\ dBm < 0
  <2>1. PaConfig(dBm, high) = dBm + 4
    BY <1>2 DEF PaConfig, Power
  <2> QED BY <1>2, <2>1 DEF Field, Bit, Byte
<1>3. CASE ~high /\ dBm >= 0
  <2>1. PaConfig(dBm, high) = 48 + dBm
    BY <1>3 DEF PaConfig, Power
  <2> QED BY <1>3, <2>1 DEF Field, Bit, Byte
<1> QED BY <1>1, <1>2, <1>3

(* The strengthening: what was asked for is legal, and the registers that  *)
(* no field is read back from are those it gives.                          *)
Asked == [bandwidth : Byte, spoilt : BOOLEAN, rate : Byte, factor : 6 .. 12,
          gain : 1 .. 6, boost : BOOLEAN, low : BOOLEAN, mode : DOMAIN Modes, dBm : Int, high : BOOLEAN]

SettingsInv ==
  /\ FieldsIndependent /\ HeaderExplicit /\ asked \in Asked
  /\ IF asked.high THEN asked.dBm \in 2 .. 17 ELSE asked.dBm \in -4 .. 15
  /\ reg["PA_CONFIG"] = PaConfig(asked.dBm, asked.high)
  /\ reg["DETECT_OPTIMIZE"] = IF asked.factor = 6 THEN 197 ELSE 195
  /\ reg["DETECTION_THRESHOLD"] = IF asked.factor = 6 THEN 12 ELSE 10

LEMMA ModesKnown ==
  /\ DOMAIN Modes = {"sleep", "standby", "tx", "rx"}
  /\ \A m \in DOMAIN Modes : Modes[m] \in 0 .. 7
BY DEF Modes

LEMMA SettingsInit == CfgInit => SettingsInv
<1> SUFFICES ASSUME CfgInit PROVE SettingsInv
  OBVIOUS
<1>0. /\ asked.bandwidth = 7 /\ asked.spoilt = FALSE /\ asked.rate = 1 /\ asked.factor = 7
      /\ asked.gain = 1
      /\ asked.boost = TRUE /\ asked.low = FALSE /\ asked.mode = "sleep" /\ asked.dBm = 2
      /\ asked.high = TRUE
  BY DEF CfgInit
<1>1. /\ reg["OPMODE"] = 128 /\ reg["MODEM_CONFIG1"] = 114 /\ reg["MODEM_CONFIG2"] = 112
      /\ reg["LNA"] = 35 /\ reg["PA_CONFIG"] = 160 /\ reg["DETECT_OPTIMIZE"] = 195
      /\ reg["DETECTION_THRESHOLD"] = 10
  BY DEF CfgInit, Names
<1>2. reg \in [Names -> 0 .. 255]
  BY <1>1 DEF CfgInit, Names
<1>3. asked \in Asked
  BY ModesKnown DEF CfgInit, Asked, Byte
<1>4. FieldsIndependent
  <2>1. /\ Field(114, 4, 4) = 7 /\ Field(114, 1, 3) = 1 /\ Field(112, 4, 4) = 7
        /\ Field(35, 5, 3) = 1 /\ Field(35, 0, 2) = 3 /\ Field(128, 3, 1) = 0
        /\ Field(128, 0, 3) = 0 /\ Field(128, 7, 1) = 1 /\ 7 % 16 = 7 /\ 1 % 8 = 1
        /\ Field(114, 0, 1) = 0
    BY DEF Field, Bit
  <2>2. /\ Field(reg["MODEM_CONFIG1"], 4, 4) = asked.bandwidth % 16
        /\ asked.rate % 8 = Field(reg["MODEM_CONFIG1"], 1, 3)
        /\ asked.factor = Field(reg["MODEM_CONFIG2"], 4, 4)
        /\ asked.gain = Field(reg["LNA"], 5, 3) /\ Field(reg["OPMODE"], 7, 1) = 1
    BY <1>0, <1>1, <2>1
  <2>3. asked.boost = (Field(reg["LNA"], 0, 2) = 3)
    BY <1>0, <1>1, <2>1
  <2>4. asked.low = (Field(reg["OPMODE"], 3, 1) = 1)
    <3>1. Field(reg["OPMODE"], 3, 1) # 1
      BY <1>1, <2>1
    <3> QED BY <1>0, <3>1, Zenon
  <2>5. Modes[asked.mode] = Field(reg["OPMODE"], 0, 3)
    BY <1>0, <1>1, <2>1 DEF Modes
  <2>6. Includes(Field(reg["MODEM_CONFIG1"], 4, 4), asked.bandwidth % 16)
    <3>1. 7 \in 0 .. 15 /\ 0 \in 0 .. 15
      OBVIOUS
    <3>2. Includes(7, 7)
      BY <3>1, IncludesItself
    <3>3. Field(reg["MODEM_CONFIG1"], 4, 4) = 7 /\ asked.bandwidth % 16 = 7
      BY <1>0, <2>1, <2>2
    <3> QED BY <3>2, <3>3
  <2> QED BY <1>2, <2>2, <2>3, <2>4, <2>5, <2>6 DEF FieldsIndependent
<1>4a. HeaderExplicit
  BY <1>1 DEF HeaderExplicit, Field, Bit
<1>5. PaConfig(2, TRUE) = 160
  BY DEF PaConfig, Power
<1>6. IF asked.high THEN asked.dBm \in 2 .. 17 ELSE asked.dBm \in -4 .. 15
  BY <1>0
<1>7. reg["PA_CONFIG"] = PaConfig(asked.dBm, asked.high)
  BY <1>0, <1>1, <1>5
<1> QED BY <1>0, <1>1, <1>3, <1>4, <1>4a, <1>6, <1>7 DEF SettingsInv

(* A register that is written; a setting that is asked for.                *)
LEMMA RegisterWritten ==
  ASSUME SettingsInv, NEW n \in Names, NEW v \in Byte, reg' = [reg EXCEPT ![n] = v]
  PROVE  /\ reg' \in [Names -> 0 .. 255] /\ reg'[n] = v
         /\ \A k \in Names \ {n} : reg'[k] = reg[k]
BY DEF SettingsInv, FieldsIndependent, Byte

LEMMA SetBandwidthKeeps ==
  ASSUME SettingsInv, NEW b \in Byte, SetBandwidth(b) PROVE SettingsInv'
<1> USE DEF SettingsInv, Names
<1> DEFINE v == With(reg["MODEM_CONFIG1"], 4, 4, b)
<1>1. reg["MODEM_CONFIG1"] \in Byte /\ b \in Nat /\ b % 16 \in 0 .. 15
  BY DEF FieldsIndependent, Byte
<1>2. /\ v \in Byte /\ Field(v, 4, 4) = b % 16
      /\ Field(v, 1, 3) = Field(reg["MODEM_CONFIG1"], 1, 3)
      /\ Field(v, 0, 1) = Field(reg["MODEM_CONFIG1"], 0, 1)
  BY <1>1, ModemFields
<1>3. /\ reg' = [reg EXCEPT !["MODEM_CONFIG1"] = v]
      /\ asked' = [asked EXCEPT !.bandwidth = b, !.spoilt = FALSE]
  BY DEF SetBandwidth, Change, FieldsIndependent
<1> HIDE DEF v
<1>4. /\ reg' \in [Names -> 0 .. 255] /\ reg'["MODEM_CONFIG1"] = v
      /\ \A k \in Names \ {"MODEM_CONFIG1"} : reg'[k] = reg[k]
  BY <1>2, <1>3, RegisterWritten
<1>5. /\ asked' \in Asked /\ asked'.bandwidth = b /\ asked'.rate = asked.rate
      /\ asked'.factor = asked.factor /\ asked'.gain = asked.gain
      /\ asked'.boost = asked.boost /\ asked'.low = asked.low
      /\ asked'.mode = asked.mode /\ asked'.dBm = asked.dBm
      /\ asked'.high = asked.high
  BY <1>3 DEF Asked
<1>6. Includes(b % 16, b % 16)
  BY <1>1, IncludesItself
<1> QED BY <1>2, <1>4, <1>5, <1>6 DEF FieldsIndependent, HeaderExplicit

LEMMA SetCodingRateKeeps ==
  ASSUME SettingsInv, NEW r \in Byte, SetCodingRate(r) PROVE SettingsInv'
<1> DEFINE old == Field(reg["MODEM_CONFIG1"], 4, 4)
           v == WithRate(reg["MODEM_CONFIG1"], r)
           over == Over(r)
           wanted == asked.bandwidth % 16
<1>1. /\ reg["MODEM_CONFIG1"] \in Byte /\ over \in 0 .. 15 /\ old \in 0 .. 15
      /\ wanted \in 0 .. 15
  BY DEF SettingsInv, FieldsIndependent, Names, Byte, Over, Field, Bit, Asked
<1>2. /\ v \in Byte /\ Field(v, 1, 3) = r % 8 /\ Field(v, 4, 4) = BitOr(old, over)
      /\ Field(v, 0, 1) = Field(reg["MODEM_CONFIG1"], 0, 1)
  BY <1>1, RateFields
<1>3. /\ reg' = [reg EXCEPT !["MODEM_CONFIG1"] = v]
      /\ asked' = [asked EXCEPT !.rate = r, !.spoilt = asked.spoilt \/ over # 0]
  BY DEF SetCodingRate, RateAsked, SettingsInv, FieldsIndependent, Names
<1>4. /\ old # wanted => asked.spoilt
      /\ Includes(old, wanted)
  BY DEF SettingsInv, FieldsIndependent
<1> HIDE DEF v, old, over, wanted
<1>5. /\ reg' \in [Names -> 0 .. 255] /\ reg'["MODEM_CONFIG1"] = v
      /\ \A k \in Names \ {"MODEM_CONFIG1"} : reg'[k] = reg[k]
  BY <1>2, <1>3, RegisterWritten DEF Names
<1>6. /\ asked' \in Asked /\ asked'.bandwidth = asked.bandwidth /\ asked'.rate = r
      /\ asked'.factor = asked.factor /\ asked'.gain = asked.gain
      /\ asked'.boost = asked.boost /\ asked'.low = asked.low
      /\ asked'.mode = asked.mode /\ asked'.dBm = asked.dBm
      /\ asked'.high = asked.high /\ asked'.spoilt = (asked.spoilt \/ over # 0)
  BY <1>3 DEF SettingsInv, Asked
<1>7. Includes(BitOr(old, over), wanted) /\ (over = 0 => BitOr(old, over) = old)
  <2>1. /\ BitOr(old, over) \in 0 .. 15 /\ Includes(BitOr(old, over), old)
        /\ over = 0 => BitOr(old, over) = old
    BY <1>1, BitOrBits
  <2> QED BY <1>1, <1>4, <2>1, IncludesThrough
<1>8. BitOr(old, over) # wanted => asked'.spoilt
  BY <1>4, <1>6, <1>7
<1> QED BY <1>2, <1>5, <1>6, <1>7, <1>8
  DEF SettingsInv, FieldsIndependent, HeaderExplicit, Names, wanted

LEMMA SetSpreadingFactorKeeps ==
  ASSUME SettingsInv, NEW f, SetSpreadingFactor(f) PROVE SettingsInv'
<1> USE DEF SettingsInv, Names
<1>1. CASE UNCHANGED cfgVars
  BY <1>1 DEF cfgVars, FieldsIndependent, HeaderExplicit
<1>2. CASE f \in 6 .. 12 /\ ~UNCHANGED cfgVars
  <2> DEFINE v == With(reg["MODEM_CONFIG2"], 4, 4, f)
  <2>1. reg["MODEM_CONFIG2"] \in Byte /\ f \in Nat /\ f % 16 = f
    BY <1>2 DEF FieldsIndependent, Byte
  <2>2. v \in Byte /\ Field(v, 4, 4) = f
    BY <2>1, ModemFields
  <2>3. /\ reg' = [reg EXCEPT !["MODEM_CONFIG2"] = v,
                              !["DETECT_OPTIMIZE"] = IF f = 6 THEN 197 ELSE 195,
                              !["DETECTION_THRESHOLD"] = IF f = 6 THEN 12 ELSE 10]
        /\ asked' = [asked EXCEPT !.factor = f]
    BY <1>2 DEF SetSpreadingFactor, Change, FieldsIndependent
  <2> HIDE DEF v
  <2>4. /\ reg' \in [Names -> 0 .. 255] /\ reg'["MODEM_CONFIG2"] = v
        /\ reg'["DETECT_OPTIMIZE"] = (IF f = 6 THEN 197 ELSE 195)
        /\ reg'["DETECTION_THRESHOLD"] = (IF f = 6 THEN 12 ELSE 10)
        /\ \A k \in {"OPMODE", "MODEM_CONFIG1", "LNA", "PA_CONFIG"} : reg'[k] = reg[k]
    BY <2>2, <2>3 DEF FieldsIndependent, Byte
  <2>5. /\ asked' \in Asked /\ asked'.bandwidth = asked.bandwidth /\ asked'.spoilt = asked.spoilt
        /\ asked'.rate = asked.rate /\ asked'.factor = f /\ asked'.gain = asked.gain
        /\ asked'.boost = asked.boost /\ asked'.low = asked.low
        /\ asked'.mode = asked.mode /\ asked'.dBm = asked.dBm
        /\ asked'.high = asked.high
    BY <1>2, <2>3 DEF Asked
  <2> QED BY <2>2, <2>4, <2>5 DEF FieldsIndependent, HeaderExplicit
<1> QED BY <1>1, <1>2 DEF SetSpreadingFactor

LEMMA SetLnaKeeps ==
  ASSUME SettingsInv, NEW g \in 1 .. 6, NEW boost \in BOOLEAN, SetLna(g, boost)
  PROVE  SettingsInv'
<1> USE DEF SettingsInv, Names
<1> DEFINE v == With(With(reg["LNA"], 0, 2, IF boost THEN 3 ELSE 0), 5, 3, g)
<1>1. reg["LNA"] \in Byte
  BY DEF FieldsIndependent, Byte
<1>2. v \in Byte /\ Field(v, 5, 3) = g /\ Field(v, 0, 2) = (IF boost THEN 3 ELSE 0)
  BY <1>1, LnaFields
<1>3. reg' = [reg EXCEPT !["LNA"] = v] /\ asked' = [asked EXCEPT !.gain = g, !.boost = boost]
  BY DEF SetLna, FieldsIndependent
<1> HIDE DEF v
<1>4. /\ reg' \in [Names -> 0 .. 255] /\ reg'["LNA"] = v
      /\ \A k \in Names \ {"LNA"} : reg'[k] = reg[k]
  BY <1>2, <1>3, RegisterWritten
<1>5. /\ asked' \in Asked /\ asked'.bandwidth = asked.bandwidth /\ asked'.spoilt = asked.spoilt
      /\ asked'.rate = asked.rate /\ asked'.factor = asked.factor /\ asked'.gain = g
      /\ asked'.boost = boost /\ asked'.low = asked.low /\ asked'.mode = asked.mode
      /\ asked'.dBm = asked.dBm /\ asked'.high = asked.high
  BY <1>3 DEF Asked
<1>6. boost = (Field(v, 0, 2) = 3)
  BY <1>2
<1> QED BY <1>2, <1>4, <1>5, <1>6 DEF FieldsIndependent, HeaderExplicit

LEMMA SetFrequencyKeeps ==
  ASSUME SettingsInv, NEW low \in BOOLEAN, SetFrequency(low) PROVE SettingsInv'
<1> USE DEF SettingsInv, Names
<1> DEFINE v == With(reg["OPMODE"], 3, 1, IF low THEN 1 ELSE 0)
<1>1. reg["OPMODE"] \in Byte /\ Field(reg["OPMODE"], 7, 1) = 1
  BY DEF FieldsIndependent, Byte
<1>2. /\ v \in Byte /\ Field(v, 3, 1) = (IF low THEN 1 ELSE 0)
      /\ Field(v, 0, 3) = Field(reg["OPMODE"], 0, 3) /\ Field(v, 7, 1) = 1
  BY <1>1, ModeFields
<1>3. reg' = [reg EXCEPT !["OPMODE"] = v] /\ asked' = [asked EXCEPT !.low = low]
  BY DEF SetFrequency, Change, FieldsIndependent
<1> HIDE DEF v
<1>4. /\ reg' \in [Names -> 0 .. 255] /\ reg'["OPMODE"] = v
      /\ \A k \in Names \ {"OPMODE"} : reg'[k] = reg[k]
  BY <1>2, <1>3, RegisterWritten
<1>5. /\ asked' \in Asked /\ asked'.bandwidth = asked.bandwidth /\ asked'.spoilt = asked.spoilt
      /\ asked'.rate = asked.rate /\ asked'.factor = asked.factor
      /\ asked'.gain = asked.gain /\ asked'.boost = asked.boost /\ asked'.low = low
      /\ asked'.mode = asked.mode /\ asked'.dBm = asked.dBm
      /\ asked'.high = asked.high
  BY <1>3 DEF Asked
<1>6. low = (Field(v, 3, 1) = 1)
  BY <1>2
<1> QED BY <1>2, <1>4, <1>5, <1>6 DEF FieldsIndependent, HeaderExplicit

LEMMA SetTransmitLevelKeeps ==
  ASSUME SettingsInv, NEW dBm \in Int, NEW high \in BOOLEAN, SetTransmitLevel(dBm, high)
  PROVE  SettingsInv'
<1> USE DEF SettingsInv, Names
<1>1. CASE UNCHANGED cfgVars
  BY <1>1 DEF cfgVars, FieldsIndependent, HeaderExplicit
<1>2. CASE ~UNCHANGED cfgVars
  <2> DEFINE v == PaConfig(dBm, high)
  <2>1. /\ reg' = [reg EXCEPT !["PA_CONFIG"] = v]
        /\ asked' = [asked EXCEPT !.dBm = dBm, !.high = high]
        /\ IF high THEN dBm \in 2 .. 17 ELSE dBm \in -4 .. 15
    BY <1>2 DEF SetTransmitLevel
  <2>2. v \in Byte
    BY <2>1, LevelPower
  <2> HIDE DEF v
  <2>4. /\ reg' \in [Names -> 0 .. 255] /\ reg'["PA_CONFIG"] = v
        /\ \A k \in Names \ {"PA_CONFIG"} : reg'[k] = reg[k]
    BY <2>1, <2>2, RegisterWritten
  <2>5. /\ asked' \in Asked /\ asked'.bandwidth = asked.bandwidth /\ asked'.spoilt = asked.spoilt
        /\ asked'.rate = asked.rate /\ asked'.factor = asked.factor
        /\ asked'.gain = asked.gain /\ asked'.boost = asked.boost
        /\ asked'.low = asked.low /\ asked'.mode = asked.mode /\ asked'.dBm = dBm
        /\ asked'.high = high
    BY <2>1 DEF Asked
  <2> QED BY <2>1, <2>2, <2>4, <2>5 DEF FieldsIndependent, HeaderExplicit, v
<1> QED BY <1>1, <1>2

LEMMA ChangeModeKeeps ==
  ASSUME SettingsInv, NEW m \in DOMAIN Modes, ChangeMode(m) PROVE SettingsInv'
<1> USE DEF SettingsInv, Names
<1> DEFINE v == With(reg["OPMODE"], 0, 3, Modes[m])
           w == IF m \in {"rx", "tx"} THEN With(reg["MODEM_CONFIG1"], 0, 1, 0)
                ELSE reg["MODEM_CONFIG1"]
<1>1. /\ reg["OPMODE"] \in Byte /\ Field(reg["OPMODE"], 7, 1) = 1
      /\ reg["MODEM_CONFIG1"] \in Byte
  BY DEF FieldsIndependent, Byte
<1>2. /\ v \in Byte /\ Field(v, 0, 3) = Modes[m]
      /\ Field(v, 3, 1) = Field(reg["OPMODE"], 3, 1) /\ Field(v, 7, 1) = 1
  BY <1>1, ModeFields, ModesKnown
<1>3. /\ w \in Byte /\ Field(w, 1, 3) = Field(reg["MODEM_CONFIG1"], 1, 3)
      /\ Field(w, 4, 4) = Field(reg["MODEM_CONFIG1"], 4, 4) /\ Field(w, 0, 1) = 0
  BY <1>1, ModemFields DEF HeaderExplicit
<1>4. /\ reg' = [reg EXCEPT !["OPMODE"] = v, !["MODEM_CONFIG1"] = w]
      /\ asked' = [asked EXCEPT !.mode = m]
  BY DEF ChangeMode, Change, FieldsIndependent
<1> HIDE DEF v, w
<1>5. /\ reg' \in [Names -> 0 .. 255] /\ reg'["OPMODE"] = v /\ reg'["MODEM_CONFIG1"] = w
      /\ \A k \in Names \ {"OPMODE", "MODEM_CONFIG1"} : reg'[k] = reg[k]
  BY <1>2, <1>3, <1>4 DEF FieldsIndependent, Byte
<1>6. /\ asked' \in Asked /\ asked'.bandwidth = asked.bandwidth /\ asked'.spoilt = asked.spoilt
      /\ asked'.rate = asked.rate /\ asked'.factor = asked.factor
      /\ asked'.gain = asked.gain /\ asked'.boost = asked.boost
      /\ asked'.low = asked.low /\ asked'.mode = m /\ asked'.dBm = asked.dBm
      /\ asked'.high = asked.high
  BY <1>4 DEF Asked
<1> QED BY <1>2, <1>3, <1>5, <1>6 DEF FieldsIndependent, HeaderExplicit

LEMMA SettingsStep == SettingsInv /\ [CfgNext]_cfgVars => SettingsInv'
<1> SUFFICES ASSUME SettingsInv, CfgNext \/ UNCHANGED cfgVars PROVE SettingsInv'
  OBVIOUS
<1>1. CASE UNCHANGED cfgVars
  BY <1>1 DEF cfgVars, SettingsInv, FieldsIndependent, HeaderExplicit
<1>2. /\ \A b \in Bandwidths : b \in Byte
      /\ \A r \in Rates : r \in Byte
      /\ \A g \in Gains : g \in 1 .. 6
      /\ \A l \in Levels : l \in Int
  BY LoraConfigAssumption DEF LoraConfigAssumption, Byte
<1> QED BY <1>1, <1>2, SetBandwidthKeeps, SetCodingRateKeeps, SetSpreadingFactorKeeps, SetLnaKeeps,
           SetFrequencyKeeps, SetTransmitLevelKeeps, ChangeModeKeeps DEF CfgNext

(* Each setting is what was asked for last, as far as it fits, whatever    *)
(* else was set since; a coding rate that does not fit adds bits to the    *)
(* bandwidth until that is set again.                                      *)
THEOREM FieldsAlwaysIndependent == CfgSpec => []FieldsIndependent
<1>1. SettingsInv => FieldsIndependent
  BY DEF SettingsInv
<1> QED BY <1>1, SettingsInit, SettingsStep, PTL DEF CfgSpec

(* After any calls the detection follows the spreading factor, the power   *)
(* is the one asked for or, of the low levels, the one the register holds  *)
(* for it, and the header is explicit whatever the spreading factor.       *)
THEOREM SettingsAlwaysConsistent == CfgSpec => []SettingsConsistent
<1>1. SettingsInv => SettingsConsistent
  <2> SUFFICES ASSUME SettingsInv PROVE SettingsConsistent
    OBVIOUS
  <2>1. DetectionFollowsFactor
    BY DEF SettingsInv, FieldsIndependent, Asked, DetectionFollowsFactor
  <2>2. PowerAsAsked
    <3>1. /\ asked.dBm \in Int /\ asked.high \in BOOLEAN
          /\ IF asked.high THEN asked.dBm \in 2 .. 17 ELSE asked.dBm \in -4 .. 15
          /\ reg["PA_CONFIG"] = PaConfig(asked.dBm, asked.high)
      BY DEF SettingsInv, Asked
    <3> DEFINE pa == PaConfig(asked.dBm, asked.high)
               below == 10 * (15 - Field(pa, 0, 4))
    <3>2. /\ asked.high => Field(pa, 7, 1) = 1 /\ 170 - below = 10 * asked.dBm
          /\ ~asked.high => Field(pa, 7, 1) = 0
          /\ ~asked.high /\ asked.dBm < 0
               => 108 + 6 * Field(pa, 4, 3) - below = 10 * asked.dBm - 2
          /\ ~asked.high /\ asked.dBm >= 0
               => 108 + 6 * Field(pa, 4, 3) - below = 10 * asked.dBm - 24
      BY <3>1, LevelPower
    <3>3. OutputPower = IF Field(pa, 7, 1) = 1 THEN 170 - below ELSE 108 + 6 * Field(pa, 4, 3) - below
      BY <3>1 DEF OutputPower
    <3>4. below \in Int /\ Field(pa, 4, 3) \in Int /\ Field(pa, 7, 1) \in Int
      <4>1. pa \in Byte
        BY <3>1, LevelPower
      <4> QED BY <4>1 DEF Field, Bit, Byte
    <3> HIDE DEF pa, below
    <3> QED BY <3>1, <3>2, <3>3, <3>4 DEF PowerAsAsked
  <2> QED BY <2>1, <2>2 DEF SettingsConsistent, SettingsInv
<1> QED BY <1>1, SettingsInit, SettingsStep, PTL DEF CfgSpec
=============================================================================
