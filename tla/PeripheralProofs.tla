-------------------------- MODULE PeripheralProofs --------------------------
(***************************************************************************)
(* Proofs about Peripheral: for any clients and pins the peripherals are   *)
(* counted exactly, handlers are served, pins are released, the samples of *)
(* the ADC are those of one scan, and a buffer of the microphone that is   *)
(* said to be ready is whole.                                              *)
(***************************************************************************)
EXTENDS Peripheral, FiniteSetTheorems, SequenceTheorems, TLAPS

Pins == AdcPin \cup {"TX", "RX", "DATA", "CLK"}

(* The types of what borrowing, sleeping and waking change.                *)
BorrowTypes ==
  /\ handle \in [Kind -> BOOLEAN] /\ refcount \in [Kind -> Nat]
  /\ users \in [Kind -> SUBSET Client] /\ failed \in BOOLEAN
  /\ powered \in [Kind -> BOOLEAN] /\ saved \in [Kind -> BOOLEAN]
  /\ irq \in [Kind -> BOOLEAN] /\ pins \in [Kind -> SUBSET Pins]
  /\ slots \subseteq AdcPin /\ adcHandle \in {"null", "live", "stale"}
  /\ sleeping \in Kind \cup {"none"}

(* The handle of the ADC's handler is live while the structure has one.    *)
LiveHandle == "adc" \in Kind /\ handle["adc"] => adcHandle = "live"

(* Only what has a handle is on, and only the peripheral's own pins are    *)
(* connected, so that a sleep disconnects them all.                        *)
OnlyOwn == \A k \in Kind : /\ powered[k] => handle[k]
                           /\ ~failed => pins[k] \subseteq Own(k)

(* The ADC and the microphone are silent while their sleep is under way.   *)
SilentAsleep == \A k \in Kind : sleeping = k /\ k # "uart" => ~irq[k]

BorrowInv ==
  /\ BorrowTypes /\ LiveHandle /\ OnlyOwn /\ SilentAsleep
  /\ CountsExact /\ HandlersServed /\ PinsOffAsleep

borrowed == <<driver, hardware, history>>

-----------------------------------------------------------------------------
(* Counting the borrowers when one comes, and when one goes.               *)
LEMMA CountMore ==
  ASSUME NEW S \in SUBSET Client, NEW c \in Client, c \notin S
  PROVE  Cardinality(S \cup {c}) = Cardinality(S) + 1
<1>1. IsFiniteSet(S)
  BY PeripheralAssumption, FS_Subset
<1> QED BY <1>1, FS_AddElement

LEMMA CountLess ==
  ASSUME NEW S \in SUBSET Client, NEW c \in S
  PROVE  /\ Cardinality(S \ {c}) = Cardinality(S) - 1
         /\ Cardinality(S) > 1 => S \ {c} # {}
         /\ Cardinality(S) \in Nat /\ Cardinality(S) >= 1
         /\ Cardinality(S) = 1 => S \ {c} = {}
<1>1. IsFiniteSet(S) /\ IsFiniteSet(S \ {c})
  BY PeripheralAssumption, FS_Subset
<1>2. Cardinality(S \ {c}) = Cardinality(S) - 1
  BY <1>1, FS_RemoveElement
<1>3. Cardinality(S) \in Nat /\ Cardinality(S \ {c}) \in Nat
  BY <1>1, FS_CardinalityType
<1>4. (Cardinality(S \ {c}) = 0) <=> (S \ {c} = {})
  BY <1>1, FS_EmptySet
<1> QED BY <1>2, <1>3, <1>4

(* Nobody borrows anything at first.                                       *)
LEMMA BorrowInit == Init => BorrowInv
<1>1. Cardinality({}) = 0
  BY FS_EmptySet
<1>2. Init => BorrowTypes
  <2> SUFFICES ASSUME Init PROVE BorrowTypes
    OBVIOUS
  <2>1. /\ handle \in [Kind -> BOOLEAN] /\ powered \in [Kind -> BOOLEAN]
        /\ saved \in [Kind -> BOOLEAN] /\ irq \in [Kind -> BOOLEAN]
    BY DEF Init
  <2>2. refcount \in [Kind -> Nat] /\ failed \in BOOLEAN
    BY DEF Init
  <2>3. users \in [Kind -> SUBSET Client] /\ pins \in [Kind -> SUBSET Pins]
    BY DEF Init
  <2>4. /\ slots \subseteq AdcPin /\ adcHandle \in {"null", "live", "stale"}
        /\ sleeping \in Kind \cup {"none"}
    BY DEF Init
  <2> QED BY <2>1, <2>2, <2>3, <2>4 DEF BorrowTypes
<1>3. Init => LiveHandle /\ OnlyOwn /\ SilentAsleep
  BY DEF Init, LiveHandle, OnlyOwn, SilentAsleep
<1>4. Init => CountsExact /\ HandlersServed /\ PinsOffAsleep
  BY <1>1 DEF Init, CountsExact, HandlersServed, PinsOffAsleep
<1> QED BY <1>2, <1>3, <1>4 DEF BorrowInv

(* What changes none of it keeps it.                                       *)
LEMMA BorrowStutter == BorrowInv /\ UNCHANGED borrowed => BorrowInv'
BY DEF borrowed, driver, hardware, history, BorrowInv, BorrowTypes, LiveHandle, OnlyOwn, Own,
       SilentAsleep, CountsExact, HandlersServed, PinsOffAsleep

(* Bytes are only queued and sent while the UART is on.                    *)
LEMMA BorrowSend ==
  ASSUME BorrowInv, Drain \/ \E c \in Client, n \in 1 .. Buffer : Write(c, n)
  PROVE  BorrowInv'
<1>1. /\ "uart" \in Kind /\ powered["uart"]
      /\ UNCHANGED <<driver, powered, saved, irq, pins, history>>
  BY DEF Drain, Write
<1>2. UNCHANGED <<handle, refcount, slots, adcHandle, sleeping, users, failed>>
  BY <1>1 DEF driver, history
<1> QED BY <1>1, <1>2 DEF BorrowInv, BorrowTypes, LiveHandle, OnlyOwn, Own, SilentAsleep,
           CountsExact, HandlersServed, PinsOffAsleep

-----------------------------------------------------------------------------
(* The first borrower initialises, and any is counted.                     *)
LEMMA BorrowGet ==
  ASSUME BorrowInv, NEW k \in Kind, NEW c \in Client, NEW want \in SUBSET AdcPin,
         Free, GetInstance(c, k, want)
  PROVE  BorrowInv'
<1> USE DEF BorrowInv
<1>0. sleeping = "none" /\ UNCHANGED <<sleeping, queued>>
  BY DEF Free, GetInstance
<1>1. /\ c \notin users[k]
      /\ users' = [users EXCEPT ![k] = @ \cup {c}]
      /\ refcount' = [refcount EXCEPT ![k] = @ + 1]
  BY DEF GetInstance, Borrow
<1>2. /\ users' \in [Kind -> SUBSET Client] /\ refcount' \in [Kind -> Nat]
      /\ \A j \in Kind : refcount'[j] = Cardinality(users'[j])
      /\ \A j \in Kind : users'[j] = {} => users[j] = {} /\ j # k
  <2>1. users[k] \in SUBSET Client
    BY DEF BorrowTypes
  <2>2. Cardinality(users[k] \cup {c}) = Cardinality(users[k]) + 1
    BY <1>0, <1>1, <2>1, CountMore
  <2> QED BY <1>0, <1>1, <2>2 DEF BorrowTypes, CountsExact
<1>3. CASE handle[k]
  <2>1. UNCHANGED <<handle, slots, adcHandle, powered, saved, irq, pins, failed>>
    BY <1>0, <1>3 DEF GetInstance
  <2> QED BY <1>0, <1>2, <2>1 DEF BorrowTypes, LiveHandle, OnlyOwn, Own, SilentAsleep, CountsExact,
              HandlersServed, PinsOffAsleep
<1>4. CASE ~handle[k] /\ k # "adc"
  <2>1. InitAsleep(k) /\ UNCHANGED <<slots, adcHandle, pins, failed>>
    BY <1>0, <1>4 DEF GetInstance, Initialize
  <2>2. /\ handle' = [handle EXCEPT ![k] = TRUE]
        /\ saved' = [saved EXCEPT ![k] = TRUE]
        /\ powered' = [powered EXCEPT ![k] = FALSE]
        /\ irq' = [irq EXCEPT ![k] = FALSE]
    BY <1>0, <2>1 DEF InitAsleep
  <2>3. ~powered[k]
    BY <1>0, <1>4 DEF OnlyOwn
  <2>4. BorrowTypes'
    BY <1>0, <1>2, <2>1, <2>2 DEF BorrowTypes
  <2>5. LiveHandle' /\ OnlyOwn' /\ SilentAsleep'
    BY <1>0, <1>4, <2>1, <2>2 DEF BorrowTypes, LiveHandle, OnlyOwn, Own, SilentAsleep
  <2>6. CountsExact'
    BY <1>0, <1>2, <2>2 DEF BorrowTypes, CountsExact
  <2>7. HandlersServed' /\ PinsOffAsleep'
    BY <1>0, <1>4, <2>1, <2>2, <2>3 DEF BorrowTypes, HandlersServed, PinsOffAsleep
  <2> QED BY <1>0, <2>4, <2>5, <2>6, <2>7
<1>5. CASE ~handle[k] /\ k = "adc"
  <2>1. PICK outcome \in Outcome :
          /\ slots' = IF outcome = "ok" THEN want ELSE {Channel0}
          /\ pins' = [pins EXCEPT !["adc"] = (@ \cup want) \ slots']
          /\ adcHandle' = IF outcome = "none" THEN "null" ELSE "live"
          /\ failed' = (failed \/ outcome # "ok")
          /\ IF outcome = "none"
             THEN irq' = [irq EXCEPT !["adc"] = FALSE] /\ UNCHANGED <<handle, saved, powered>>
             ELSE InitAsleep("adc")
    BY <1>0, <1>5 DEF GetInstance, Initialize, AdcInitChannels
  <2>2. ~powered[k] /\ (~failed => pins[k] = {})
    BY <1>0, <1>5 DEF OnlyOwn, PinsOffAsleep
  <2>3. slots' \subseteq AdcPin /\ pins' \in [Kind -> SUBSET Pins]
    BY <1>0, <2>1, PeripheralAssumption DEF BorrowTypes, Pins
  <2>4. ~failed' => ~failed /\ slots' = want /\ pins'[k] = {}
    BY <1>0, <1>5, <2>1, <2>2 DEF BorrowTypes
  <2>5. \A j \in Kind : j # k => pins'[j] = pins[j] /\ Own(j)' = Own(j)
    BY <1>0, <1>5, <2>1, PeripheralAssumption DEF BorrowTypes, Own
  <2>6. /\ irq' = [irq EXCEPT !["adc"] = FALSE]
        /\ powered' \in [Kind -> BOOLEAN] /\ ~powered'[k]
        /\ \A j \in Kind : j # k => powered'[j] = powered[j] /\ handle'[j] = handle[j]
        /\ handle' \in [Kind -> BOOLEAN] /\ saved' \in [Kind -> BOOLEAN]
        /\ handle'[k] => adcHandle' = "live"
    <3>1. CASE outcome = "none"
      BY <1>0, <1>5, <2>1, <2>2, <3>1 DEF BorrowTypes
    <3>2. CASE outcome # "none"
      BY <1>0, <1>5, <2>1, <2>2, <3>2 DEF BorrowTypes, InitAsleep
    <3> QED BY <3>1, <3>2
  <2>7. BorrowTypes'
    BY <1>0, <1>2, <2>1, <2>3, <2>6 DEF BorrowTypes
  <2>8. LiveHandle' /\ OnlyOwn' /\ SilentAsleep'
    BY <1>0, <1>5, <2>4, <2>5, <2>6 DEF BorrowTypes, LiveHandle, OnlyOwn, SilentAsleep
  <2>9. CountsExact'
    BY <1>0, <1>2, <2>6 DEF BorrowTypes, CountsExact
  <2>10. HandlersServed' /\ PinsOffAsleep'
    BY <1>0, <1>5, <2>1, <2>2, <2>4, <2>5, <2>6 DEF BorrowTypes, HandlersServed, PinsOffAsleep
  <2> QED BY <1>0, <2>7, <2>8, <2>9, <2>10
<1> QED BY <1>0, <1>3, <1>4, <1>5 DEF BorrowTypes

(* The last to return it leaves nothing on.                                *)
LEMMA BorrowReturn ==
  ASSUME BorrowInv, NEW k \in Kind, NEW c \in Client, Free, Deinitialize(c, k)
  PROVE  BorrowInv'
<1> USE DEF BorrowInv
<1>1. /\ c \in users[k] /\ UNCHANGED failed /\ sleeping = "none" /\ sleeping' = "none"
      /\ users' = [users EXCEPT ![k] = @ \ {c}]
      /\ refcount' = [refcount EXCEPT ![k] = @ - 1]
  BY DEF Free, Deinitialize, Return
<1>2. /\ Cardinality(users[k] \ {c}) = Cardinality(users[k]) - 1
      /\ Cardinality(users[k]) \in Nat /\ Cardinality(users[k]) >= 1
      /\ Cardinality(users[k]) > 1 => users[k] \ {c} # {}
  <2>1. users[k] \in SUBSET Client
    BY DEF BorrowTypes
  <2> QED BY <1>1, <2>1, CountLess
<1>3. /\ users' \in [Kind -> SUBSET Client] /\ refcount' \in [Kind -> Nat]
      /\ \A j \in Kind : refcount'[j] = Cardinality(users'[j])
      /\ \A j \in Kind : users'[j] = {} /\ refcount[k] > 1 => users[j] = {} /\ j # k
      /\ \A j \in Kind : users'[j] = {} /\ j # k => users[j] = {}
  BY <1>1, <1>2 DEF BorrowTypes, CountsExact
<1>4. CASE refcount[k] > 1
  <2>1. UNCHANGED <<handle, slots, adcHandle, powered, saved, irq, pins>>
    BY <1>4 DEF Deinitialize, hardware
  <2> QED BY <1>1, <1>3, <1>4, <2>1 DEF BorrowTypes, LiveHandle, OnlyOwn, Own, SilentAsleep, CountsExact,
              HandlersServed, PinsOffAsleep
<1>5. CASE ~(refcount[k] > 1)
  <2>1. /\ irq' = [irq EXCEPT ![k] = FALSE] /\ powered' = [powered EXCEPT ![k] = FALSE]
        /\ pins' = [pins EXCEPT ![k] = @ \ Own(k)]
        /\ handle' = [handle EXCEPT ![k] = FALSE] /\ saved' = [saved EXCEPT ![k] = FALSE]
        /\ slots' = IF k = "adc" THEN {} ELSE slots
        /\ adcHandle' = IF k = "adc" /\ handle[k] THEN "stale" ELSE adcHandle
    BY <1>5 DEF Deinitialize
  <2>2. \A j \in Kind : j # k => Own(j)' = Own(j)
    BY <2>1, PeripheralAssumption DEF Own
  <2>3. ~failed => pins'[k] = {}
    BY <2>1 DEF BorrowTypes, OnlyOwn
  <2>4. BorrowTypes'
    BY <1>1, <1>3, <2>1 DEF BorrowTypes
  <2>5. LiveHandle' /\ OnlyOwn' /\ SilentAsleep'
    BY <1>1, <2>1, <2>2, <2>3 DEF BorrowTypes, LiveHandle, OnlyOwn, SilentAsleep
  <2>6. CountsExact'
    BY <1>3, <2>1 DEF BorrowTypes, CountsExact
  <2>7. HandlersServed' /\ PinsOffAsleep'
    BY <1>1, <2>1, <2>3 DEF BorrowTypes, HandlersServed, PinsOffAsleep
  <2> QED BY <2>4, <2>5, <2>6, <2>7
<1> QED BY <1>4, <1>5

(* A sleep begins: the UART, with nothing left to send, is off with its    *)
(* interrupt enabled, the others are on with theirs disabled.              *)
LEMMA BorrowSleep ==
  ASSUME BorrowInv, NEW k \in Kind, NEW c \in Client, Free, Sleep(c, k)
  PROVE  BorrowInv'
<1> USE DEF BorrowInv
<1>1. /\ sleeping = "none" /\ sleeping' = k
      /\ UNCHANGED <<handle, refcount, slots, adcHandle, pins, queued, users, failed>>
  BY DEF Free, Sleep, history
<1>2. CASE k = "uart"
  <2>1. /\ queued = 0 /\ UNCHANGED irq
        /\ powered' = [powered EXCEPT ![k] = FALSE] /\ saved' = [saved EXCEPT ![k] = TRUE]
    BY <1>2 DEF Sleep, PowerOff
  <2>2. BorrowTypes' /\ LiveHandle' /\ OnlyOwn' /\ SilentAsleep'
    BY <1>1, <1>2, <2>1 DEF BorrowTypes, LiveHandle, OnlyOwn, Own, SilentAsleep
  <2>3. CountsExact'
    BY <1>1, <1>2, <2>1 DEF BorrowTypes, CountsExact
  <2>4. HandlersServed'
    BY <1>1, <1>2, <2>1 DEF BorrowTypes, HandlersServed
  <2>5. PinsOffAsleep'
    <3>1. \A j \in Kind : sleeping # j
      BY <1>1, PeripheralAssumption
    <3> QED BY <1>1, <1>2, <2>1, <3>1 DEF BorrowTypes, PinsOffAsleep
  <2> QED BY <2>2, <2>3, <2>4, <2>5
<1>3. CASE k # "uart"
  <2>1. irq' = [irq EXCEPT ![k] = FALSE] /\ UNCHANGED <<powered, saved>>
    BY <1>3 DEF Sleep, Unlisten, Powered
  <2>2. BorrowTypes' /\ LiveHandle' /\ OnlyOwn' /\ SilentAsleep'
    BY <1>1, <1>3, <2>1 DEF BorrowTypes, LiveHandle, OnlyOwn, Own, SilentAsleep
  <2>3. CountsExact'
    BY <1>1, <1>3, <2>1 DEF BorrowTypes, CountsExact
  <2>4. HandlersServed'
    BY <1>1, <1>3, <2>1 DEF BorrowTypes, HandlersServed
  <2>5. PinsOffAsleep'
    <3>1. \A j \in Kind : sleeping # j
      BY <1>1, PeripheralAssumption
    <3> QED BY <1>1, <1>3, <2>1, <3>1 DEF BorrowTypes, PinsOffAsleep
  <2> QED BY <2>2, <2>3, <2>4, <2>5
<1> QED BY <1>2, <1>3

(* A sleep ends: the peripheral is off, silent and without pins.           *)
LEMMA BorrowSleepEnd ==
  ASSUME BorrowInv, NEW k \in Kind, SleepEnd(k)
  PROVE  BorrowInv'
<1> USE DEF BorrowInv
<1>1. /\ sleeping = k /\ sleeping' = "none" /\ pins' = [pins EXCEPT ![k] = @ \ Own(k)]
      /\ UNCHANGED <<handle, refcount, slots, adcHandle, queued, users, failed>>
  BY DEF SleepEnd, history
<1>2. /\ irq' \in [Kind -> BOOLEAN] /\ ~irq'[k]
      /\ \A j \in Kind : j # k => irq'[j] = irq[j] /\ powered'[j] = powered[j]
      /\ powered' \in [Kind -> BOOLEAN] /\ saved' \in [Kind -> BOOLEAN]
      /\ powered'[k] => powered[k]
  <2>1. CASE k = "uart"
    <3>1. irq' = [irq EXCEPT ![k] = FALSE] /\ UNCHANGED <<powered, saved>>
      BY <2>1 DEF SleepEnd, Unlisten, Powered
    <3> QED BY <3>1 DEF BorrowTypes
  <2>2. CASE k # "uart"
    <3>1. /\ UNCHANGED irq /\ powered' = [powered EXCEPT ![k] = FALSE]
          /\ saved' = [saved EXCEPT ![k] = TRUE]
      BY <2>2 DEF SleepEnd, PowerOff
    <3>2. ~irq[k]
      BY <1>1, <2>2 DEF SilentAsleep
    <3> QED BY <3>1, <3>2 DEF BorrowTypes
  <2> QED BY <2>1, <2>2
<1>3. pins' \in [Kind -> SUBSET Pins] /\ \A j \in Kind : j # k => pins'[j] = pins[j]
  BY <1>1 DEF BorrowTypes
<1>4. pins'[k] \subseteq pins[k] /\ (~failed => pins'[k] = {})
  BY <1>1 DEF BorrowTypes, OnlyOwn
<1>5. BorrowTypes' /\ SilentAsleep'
  <2>1. BorrowTypes'
    BY <1>1, <1>2, <1>3 DEF BorrowTypes
  <2>2. SilentAsleep'
    BY <1>1, PeripheralAssumption DEF SilentAsleep
  <2> QED BY <2>1, <2>2
<1>6. LiveHandle' /\ OnlyOwn'
  BY <1>1, <1>2, <1>3, <1>4 DEF LiveHandle, OnlyOwn, Own
<1>7. CountsExact'
  BY <1>1, <1>2 DEF CountsExact
<1>8. HandlersServed' /\ PinsOffAsleep'
  BY <1>1, <1>2, <1>3, <1>4 DEF HandlersServed, PinsOffAsleep
<1> QED BY <1>5, <1>6, <1>7, <1>8

(* Waking needs a handle, which then is the one the handler uses.          *)
LEMMA BorrowEnable ==
  ASSUME BorrowInv, NEW k \in Kind, NEW c \in Client, Free, Enable(c, k)
  PROVE  BorrowInv'
<1> USE DEF BorrowInv
<1>1. /\ irq' = [irq EXCEPT ![k] = TRUE] /\ powered' = [powered EXCEPT ![k] = TRUE]
      /\ saved' = [saved EXCEPT ![k] = FALSE] /\ pins' = [pins EXCEPT ![k] = @ \cup Own(k)]
      /\ c \in users[k] /\ handle[k] /\ sleeping = "none"
      /\ UNCHANGED <<handle, refcount, slots, adcHandle, sleeping, queued, users, failed>>
  BY DEF Free, Enable, driver, history
<1>2. Own(k) \subseteq Pins
  BY DEF Own, Pins, BorrowTypes
<1>3. BorrowTypes'
  BY <1>1, <1>2 DEF BorrowTypes
<1>4. LiveHandle' /\ OnlyOwn' /\ SilentAsleep'
  <2>1. LiveHandle' /\ OnlyOwn'
    BY <1>1 DEF BorrowTypes, LiveHandle, OnlyOwn, Own
  <2>2. SilentAsleep'
    BY <1>1, PeripheralAssumption DEF SilentAsleep
  <2> QED BY <2>1, <2>2
<1>5. CountsExact'
  BY <1>1 DEF BorrowTypes, CountsExact
<1>6. HandlersServed' /\ PinsOffAsleep'
  BY <1>1 DEF BorrowTypes, LiveHandle, HandlersServed, PinsOffAsleep
<1> QED BY <1>3, <1>4, <1>5, <1>6

-----------------------------------------------------------------------------
(* The microphone: a transfer runs only while its end is waited for, and   *)
(* the flag is down until it is over, so the flag is the one of this       *)
(* transfer.                                                               *)
MicInv ==
  /\ mic \in [ready : BOOLEAN, dma : {"none", "running", "done"}, getting : BOOLEAN,
              waiting : BOOLEAN, filled : BOOLEAN]
  /\ mic.getting => ~mic.ready /\ mic.dma = "none" /\ ~mic.waiting
  /\ mic.dma # "none" => mic.waiting /\ ~mic.ready
  /\ mic.dma = "done" => mic.filled
  /\ mic.waiting /\ mic.ready => mic.filled

(* Taking, losing power and returning keep it, unless between the halves   *)
(* of pdm_data_get.                                                        *)
LEMMA MicQuiet ==
  ASSUME MicInv, NEW k \in Kind,
         \/ LosePower(k) \/ Clear(k) \/ UNCHANGED mic
  PROVE  MicInv'
<1>1. CASE LosePower(k)
  BY <1>1 DEF LosePower, Interrupted, Quiet, MicInv
<1>2. CASE Clear(k)
  BY <1>2 DEF Clear, Quiet, MicInv
<1>3. CASE UNCHANGED mic
  BY <1>3 DEF MicInv
<1> QED BY <1>1, <1>2, <1>3

(* A buffer is asked for, filled, announced and taken.                     *)
LEMMA MicSteps ==
  ASSUME MicInv,
         \/ DmaStart \/ DmaDone \/ am_pdm0_isr \/ isPDMDataReady
         \/ \E c \in Client : DataGet(c)
  PROVE  MicInv'
<1> USE DEF MicInv
<1>1. CASE DmaStart
  BY <1>1 DEF DmaStart
<1>2. CASE DmaDone
  BY <1>2 DEF DmaDone
<1>3. CASE am_pdm0_isr
  BY <1>3 DEF am_pdm0_isr
<1>4. CASE isPDMDataReady
  BY <1>4 DEF isPDMDataReady
<1>5. CASE \E c \in Client : DataGet(c)
  BY <1>5 DEF DataGet
<1> QED BY <1>1, <1>2, <1>3, <1>4, <1>5

-----------------------------------------------------------------------------
(* The queues: of the UART, and of the converter.                          *)
Sample == [pin : AdcPin, scan : Nat]

QueueInv ==
  /\ queued \in 0 .. Buffer
  /\ converter \in [slots : SUBSET AdcPin, left : SUBSET AdcPin, scan : Nat,
                    fifo : Seq(Sample), skewed : BOOLEAN]
  /\ converter.left \subseteq converter.slots /\ Len(converter.fifo) <= Depth
  /\ slots \subseteq AdcPin

LEMMA QueueInit == Init => QueueInv
BY PeripheralAssumption DEF Init, QueueInv, NoScan

(* Borrowing, sleeping and waking empty the queues or keep them.           *)
LEMMA QueueBorrow ==
  ASSUME QueueInv, NEW k \in Kind, NEW c \in Client, NEW want \in SUBSET AdcPin,
         \/ GetInstance(c, k, want) \/ Deinitialize(c, k) \/ Sleep(c, k) \/ Enable(c, k)
  PROVE  QueueInv'
<1> USE DEF QueueInv
<1> DEFINE Kept == converter' = converter
           Blank == \E s \in SUBSET AdcPin, n \in Nat :
                      converter' = [slots |-> s, left |-> {}, scan |-> n, fifo |-> <<>>,
                                    skewed |-> FALSE]
<1>1. /\ Kept \/ Blank
      /\ queued' \in {queued, 0} /\ slots' \subseteq AdcPin
  <2>1. CASE GetInstance(c, k, want)
    <3>1. /\ queued' = queued
          /\ UNCHANGED <<slots, converter>> \/ Initialize(k, want)
      BY <2>1 DEF GetInstance
    <3>2. CASE UNCHANGED <<slots, converter>>
      BY <3>1, <3>2
    <3>3. CASE Initialize(k, want)
      <4>1. UNCHANGED <<slots, converter>> \/ AdcInitChannels(want)
        BY <3>3 DEF Initialize
      <4>2. ASSUME AdcInitChannels(want) PROVE Blank /\ slots' \subseteq AdcPin
        BY <4>2, PeripheralAssumption DEF AdcInitChannels, NoScan
      <4> QED BY <3>1, <4>1, <4>2
    <3> QED BY <3>1, <3>2, <3>3
  <2>2. CASE Deinitialize(c, k)
    <3>1. CASE refcount[k] > 1
      BY <2>2, <3>1 DEF Deinitialize, hardware, samples
    <3>2. CASE ~(refcount[k] > 1)
      <4>1. /\ Clear(k) /\ slots' \in {slots, {}} /\ queued' \in {queued, 0}
        BY <2>2, <3>2 DEF Deinitialize
      <4>2. Kept \/ Blank
        BY <4>1 DEF Clear, NoScan
      <4> QED BY <4>1, <4>2
    <3> QED BY <3>1, <3>2
  <2>3. CASE Sleep(c, k)
    <3>1. /\ UNCHANGED <<queued, slots>>
          /\ LosePower(k) \/ UNCHANGED converter
      BY <2>3 DEF Sleep, PowerOff, Powered, samples
    <3> QED BY <3>1 DEF LosePower, Emptied, NoScan
  <2>4. CASE Enable(c, k)
    BY <2>4 DEF Enable, driver, samples
  <2> QED BY <2>1, <2>2, <2>3, <2>4
<1>2. queued' \in 0 .. Buffer
  BY <1>1, PeripheralAssumption
<1>3. CASE Kept
  BY <1>1, <1>2, <1>3
<1>4. CASE Blank
  BY <1>1, <1>2, <1>4, PeripheralAssumption
<1> QED BY <1>1, <1>3, <1>4

(* Bytes are queued for which there is room, and samples.                  *)
LEMMA QueueUse ==
  ASSUME QueueInv,
         \/ Drain \/ \E c \in Client, n \in 1 .. Buffer : Write(c, n)
         \/ AdcConvert
         \/ \E c \in Client : AdcTrigger(c) \/ \E asked \in (SUBSET AdcPin) \ {{}} : GetSample(c, asked)
  PROVE  QueueInv'
<1> USE PeripheralAssumption DEF QueueInv
<1>1. CASE Drain
  BY <1>1 DEF Drain, driver, samples
<1>2. CASE \E c \in Client, n \in 1 .. Buffer : Write(c, n)
  BY <1>2 DEF Write, Room, TxBufferSize, driver, samples
<1>3. CASE AdcConvert
  <2>1. PICK p \in converter.left : converter' = [converter EXCEPT
         !.left = @ \ {p},
         !.fifo = IF Len(@) < Depth THEN Append(@, [pin |-> p, scan |-> converter.scan]) ELSE @,
         !.skewed = @ \/ Len(converter.fifo) = Depth]
    BY <1>3 DEF AdcConvert
  <2>2. queued' = queued /\ slots' = slots
    BY <1>3 DEF AdcConvert, driver, hardware
  <2>3. /\ converter.left \ {p} \in SUBSET AdcPin
        /\ [pin |-> p, scan |-> converter.scan] \in Sample
    BY DEF Sample
  <2>4. /\ Append(converter.fifo, [pin |-> p, scan |-> converter.scan]) \in Seq(Sample)
        /\ Len(Append(converter.fifo, [pin |-> p, scan |-> converter.scan])) = Len(converter.fifo) + 1
    BY <2>3
  <2>5. /\ converter'.slots = converter.slots /\ converter'.scan = converter.scan
        /\ converter'.left = converter.left \ {p}
        /\ converter'.fifo \in Seq(Sample) /\ Len(converter'.fifo) <= Depth
        /\ converter'.skewed \in BOOLEAN
        /\ DOMAIN converter' = {"slots", "left", "scan", "fifo", "skewed"}
    <3>1. CASE Len(converter.fifo) < Depth
      BY <2>1, <2>4, <3>1
    <3>2. CASE ~(Len(converter.fifo) < Depth)
      BY <2>1, <3>2
    <3> QED BY <3>1, <3>2
  <2>6. converter' = [slots |-> converter.slots, left |-> converter.left \ {p},
                      scan |-> converter.scan, fifo |-> converter'.fifo,
                      skewed |-> converter'.skewed]
    BY <2>1, <2>5
  <2> QED BY <2>2, <2>3, <2>5, <2>6
<1>4. CASE \E c \in Client : AdcTrigger(c)
  <2>1. /\ queued' = queued /\ slots' = slots
        /\ \/ converter' = converter
           \/ converter' = [converter EXCEPT !.left = converter.slots, !.scan = (@ + 1) % Scans]
    BY <1>4 DEF AdcTrigger, driver, hardware
  <2>2. (converter.scan + 1) % Scans \in Nat
    BY DEF Scans
  <2> QED BY <2>1, <2>2
<1>5. CASE \E c \in Client, asked \in (SUBSET AdcPin) \ {{}} : GetSample(c, asked)
  <2>1. queued' = queued /\ slots' = slots
    BY <1>5 DEF GetSample, driver, hardware
  <2> DEFINE f == converter.fifo
  <2>2. PICK asked \in SUBSET AdcPin :
          \/ UNCHANGED converter
          \/ /\ Enough /\ Cardinality(asked) <= Cardinality(slots)
             /\ converter' = [converter EXCEPT
                  !.fifo = SubSeq(f, Cardinality(asked) + 1, Len(f)),
                  !.skewed = @ \/ asked # slots]
    BY <1>5 DEF GetSample
  <2>3. CASE UNCHANGED converter
    BY <2>1, <2>3
  <2>4. CASE ~UNCHANGED converter
    <3> DEFINE n == Cardinality(asked) + 1
    <3>1. Cardinality(asked) \in Nat /\ Cardinality(slots) \in Nat
      BY FS_Subset, FS_CardinalityType
    <3>2. n \in 1 .. Len(f) + 1
      BY <2>2, <2>4, <3>1 DEF Enough
    <3>3. SubSeq(f, n, Len(f)) \in Seq(Sample) /\ Len(SubSeq(f, n, Len(f))) <= Len(f)
      <4>1. Len(f) \in n - 1 .. Len(f)
        BY <3>2
      <4>2. /\ SubSeq(f, n, Len(f)) \in Seq(Sample)
            /\ Len(SubSeq(f, n, Len(f))) = IF n <= Len(f) THEN Len(f) - n + 1 ELSE 0
        BY <3>2, <4>1, SubSeqProperties
      <4> QED BY <3>2, <4>2
    <3>4. Len(SubSeq(f, n, Len(f))) <= Depth
      BY <3>3
    <3> QED BY <2>1, <2>2, <2>4, <3>3, <3>4
  <2> QED BY <2>3, <2>4
<1> QED BY <1>1, <1>2, <1>3, <1>4, <1>5

-----------------------------------------------------------------------------
(* The scans in the queue of the converter.                                *)

(* The samples lie in the queue in blocks, one of a sample of each slot    *)
(* for each scan; S are the places where the blocks begin, up to the place *)
(* after the scan under way.                                               *)
InBlocks(S, fifo, left, scan, n, m) ==
  LET end == Len(fifo) + m + 1 IN
  /\ S \subseteq 1 .. end /\ 1 \in S /\ end \in S
  /\ m > 0 => end - n \in S
  /\ \A s, t \in S : s < t => s + n <= t
  /\ \A s \in S : s < end => s + n \in S
  /\ \A s \in S : \A i, j \in 1 .. Len(fifo) :
       s <= i /\ i < s + n /\ s <= j /\ j < s + n
         => fifo[i].scan = fifo[j].scan /\ (fifo[i].pin = fifo[j].pin => i = j)
  /\ m > 0 => \A i \in 1 .. Len(fifo) :
                end - n <= i => fifo[i].scan = scan /\ fifo[i].pin \notin left

(* The slots are those the converter was set up with, or it was not set up *)
(* and queues nothing; unless samples were lost or fewer asked for, a call *)
(* of adc_get_sample finds a block of n samples at the front.              *)
ScanInv ==
  /\ converter.slots \in {{}, slots}
  /\ converter.slots = {} => converter.fifo = <<>>
  /\ \A i \in 1 .. Len(converter.fifo) : converter.fifo[i].pin \in converter.slots
  /\ ~converter.skewed =>
       \E S \in SUBSET (1 .. Len(converter.fifo) + Cardinality(converter.left) + 1) :
         InBlocks(S, converter.fifo, converter.left, converter.scan, Cardinality(slots),
                  Cardinality(converter.left))
  /\ SamplesOfPins

LEMMA BlocksEmpty ==
  ASSUME NEW n \in Nat, NEW scan
  PROVE  InBlocks({1}, <<>>, {}, scan, n, 0)
BY DEF InBlocks

(* A sample of the scan under way is queued.                               *)
LEMMA BlocksSampled ==
  ASSUME NEW f \in Seq(Sample), NEW left, NEW p \in left, NEW scan, NEW n \in Nat,
         NEW m \in Nat, m > 0, m <= n, NEW S, InBlocks(S, f, left, scan, n, m),
         NEW e, e.pin = p, e.scan = scan
  PROVE  InBlocks(S, Append(f, e), left \ {p}, scan, n, m - 1)
<1> DEFINE g == Append(f, e)
           l == Len(f)
           end == l + m + 1
<1>1. /\ l \in Nat /\ Len(g) = l + 1
      /\ \A i \in 1 .. l : g[i] = f[i]
      /\ g[l + 1] = e
  OBVIOUS
<1>2. /\ S \subseteq 1 .. end /\ 1 \in S /\ end \in S
      /\ end - n \in S
      /\ \A s, t \in S : s < t => s + n <= t
      /\ \A s \in S : s < end => s + n \in S
      /\ \A s \in S : \A i, j \in 1 .. l :
           s <= i /\ i < s + n /\ s <= j /\ j < s + n
             => f[i].scan = f[j].scan /\ (f[i].pin = f[j].pin => i = j)
      /\ \A i \in 1 .. l : end - n <= i => f[i].scan = scan /\ f[i].pin \notin left
  BY DEF InBlocks
<1> HIDE DEF g, l
<1>3. Len(g) + (m - 1) + 1 = end
  BY <1>1
<1>4. \A s \in S : s <= l + 1 /\ l + 1 < s + n => s = end - n
  <2> SUFFICES ASSUME NEW s \in S, s <= l + 1, l + 1 < s + n PROVE s = end - n
    OBVIOUS
  <2>1. s \in 1 .. end /\ end - n \in 1 .. end
    BY <1>2
  <2>2. CASE s < end - n
    <3>1. s + n <= end - n
      BY <1>2, <2>2
    <3> QED BY <1>1, <2>1, <3>1
  <2>3. CASE end - n < s
    <3>1. end - n + n <= s
      BY <1>2, <2>3
    <3> QED BY <1>1, <2>1, <3>1
  <2> QED BY <1>1, <2>1, <2>2, <2>3
<1>5. \A s \in S : \A i, j \in 1 .. Len(g) :
        s <= i /\ i < s + n /\ s <= j /\ j < s + n
          => g[i].scan = g[j].scan /\ (g[i].pin = g[j].pin => i = j)
  <2> SUFFICES ASSUME NEW s \in S, NEW i \in 1 .. Len(g), NEW j \in 1 .. Len(g),
                      s <= i, i < s + n, s <= j, j < s + n
               PROVE  g[i].scan = g[j].scan /\ (g[i].pin = g[j].pin => i = j)
    OBVIOUS
  <2>1. s \in Int
    BY <1>1, <1>2
  <2>2. CASE i <= l /\ j <= l
    <3>1. i \in 1 .. l /\ j \in 1 .. l
      BY <1>1, <2>2
    <3>2. f[i].scan = f[j].scan /\ (f[i].pin = f[j].pin => i = j)
      BY <1>2, <3>1
    <3> QED BY <1>1, <3>1, <3>2
  <2>3. CASE i = l + 1 /\ j <= l
    <3>1. j \in 1 .. l /\ s = end - n
      BY <1>1, <1>4, <2>3
    <3>2. f[j].scan = scan /\ f[j].pin \notin left
      BY <1>2, <3>1
    <3> QED BY <1>1, <2>3, <3>1, <3>2
  <2>4. CASE i <= l /\ j = l + 1
    <3>1. i \in 1 .. l /\ s = end - n
      BY <1>1, <1>4, <2>4
    <3>2. f[i].scan = scan /\ f[i].pin \notin left
      BY <1>2, <3>1
    <3> QED BY <1>1, <2>4, <3>1, <3>2
  <2>5. CASE i = l + 1 /\ j = l + 1
    BY <2>5
  <2> QED BY <1>1, <2>2, <2>3, <2>4, <2>5
<1>6. \A i \in 1 .. Len(g) : end - n <= i => g[i].scan = scan /\ g[i].pin \notin left \ {p}
  <2> SUFFICES ASSUME NEW i \in 1 .. Len(g), end - n <= i
               PROVE  g[i].scan = scan /\ g[i].pin \notin left \ {p}
    OBVIOUS
  <2>1. CASE i = l + 1
    BY <1>1, <2>1
  <2>2. CASE i <= l
    <3>1. i \in 1 .. l
      BY <1>1, <2>2
    <3> QED BY <1>1, <1>2, <3>1
  <2> QED BY <1>1, <2>1, <2>2
<1> HIDE DEF end
<1> QED BY <1>2, <1>3, <1>5, <1>6 DEF InBlocks, g

(* A scan begins: a block of which no sample is queued yet.                *)
LEMMA BlocksTriggered ==
  ASSUME NEW f \in Seq(Sample), NEW left, NEW next, NEW scan, NEW begun, NEW n \in Nat,
         NEW S, InBlocks(S, f, left, scan, n, 0)
  PROVE  InBlocks(S \cup {Len(f) + n + 1}, f, next, begun, n, n)
<1> DEFINE l == Len(f)
<1>1. l \in Nat
  OBVIOUS
<1>2. /\ S \subseteq 1 .. l + 1 /\ 1 \in S /\ l + 1 \in S
      /\ \A s, t \in S : s < t => s + n <= t
      /\ \A s \in S : s < l + 1 => s + n \in S
      /\ \A s \in S : \A i, j \in 1 .. l :
           s <= i /\ i < s + n /\ s <= j /\ j < s + n
             => f[i].scan = f[j].scan /\ (f[i].pin = f[j].pin => i = j)
  BY <1>1 DEF InBlocks
<1> HIDE DEF l
<1> DEFINE T == S \cup {l + n + 1}
<1>3. T \subseteq 1 .. l + n + 1 /\ 1 \in T /\ l + n + 1 \in T /\ l + n + 1 - n \in T
  BY <1>1, <1>2
<1>4. \A s, t \in T : s < t => s + n <= t
  BY <1>1, <1>2
<1>5. \A s \in T : s < l + n + 1 => s + n \in T
  BY <1>1, <1>2
<1>6. \A s \in T : \A i, j \in 1 .. l :
        s <= i /\ i < s + n /\ s <= j /\ j < s + n
          => f[i].scan = f[j].scan /\ (f[i].pin = f[j].pin => i = j)
  BY <1>1, <1>2
<1>7. \A i \in 1 .. l : ~(l + n + 1 - n <= i)
  BY <1>1
<1> HIDE DEF T
<1>8. InBlocks(T, f, next, begun, n, n)
  BY <1>3, <1>4, <1>5, <1>6, <1>7 DEF InBlocks, l
<1> QED BY <1>8 DEF T, l

(* The block at the front is read.                                         *)
LEMMA BlocksRead ==
  ASSUME NEW f \in Seq(Sample), NEW left, NEW scan, NEW n \in Nat, n > 0, NEW m \in Nat,
         NEW S, InBlocks(S, f, left, scan, n, m), n <= Len(f)
  PROVE  LET T == {s \in 1 .. Len(f) - n + m + 1 : s + n \in S} IN
         InBlocks(T, SubSeq(f, n + 1, Len(f)), left, scan, n, m)
<1> DEFINE l == Len(f)
           g == SubSeq(f, n + 1, l)
           end == l + m + 1
           T == {s \in 1 .. l - n + m + 1 : s + n \in S}
<1>1. /\ l \in Nat /\ n <= l
      /\ Len(g) = l - n
      /\ \A i \in 1 .. l - n : g[i] = f[i + n]
  <2>1. n + 1 \in 1 .. l + 1 /\ l \in n .. l
    OBVIOUS
  <2>2. /\ Len(g) = IF n + 1 <= l THEN l - (n + 1) + 1 ELSE 0
        /\ \A i \in 1 .. l - (n + 1) + 1 : g[i] = f[n + 1 + i - 1]
    BY <2>1, SubSeqProperties
  <2>3. \A i \in 1 .. l - n : n + 1 + i - 1 = i + n
    BY <2>1
  <2> QED BY <2>1, <2>2, <2>3
<1>2. /\ S \subseteq 1 .. end /\ 1 \in S /\ end \in S
      /\ m > 0 => end - n \in S
      /\ \A s, t \in S : s < t => s + n <= t
      /\ \A s \in S : s < end => s + n \in S
      /\ \A s \in S : \A i, j \in 1 .. l :
           s <= i /\ i < s + n /\ s <= j /\ j < s + n
             => f[i].scan = f[j].scan /\ (f[i].pin = f[j].pin => i = j)
      /\ m > 0 => \A i \in 1 .. l : end - n <= i => f[i].scan = scan /\ f[i].pin \notin left
  BY DEF InBlocks
<1> HIDE DEF l, g
<1>3. Len(g) + m + 1 = l - n + m + 1 /\ end = l + m + 1
  BY <1>1
<1>4. T \subseteq 1 .. Len(g) + m + 1 /\ 1 \in T /\ Len(g) + m + 1 \in T
  <2>1. 1 + n \in S
    BY <1>1, <1>2
  <2>2. Len(g) + m + 1 + n = end
    BY <1>1
  <2> QED BY <1>1, <1>2, <2>1, <2>2
<1>5. m > 0 => Len(g) + m + 1 - n \in T
  <2> SUFFICES ASSUME m > 0 PROVE Len(g) + m + 1 - n \in T
    OBVIOUS
  <2>1. end - n \in S /\ 1 < end - n
    BY <1>1, <1>2
  <2>2. 1 + n <= end - n
    BY <1>2, <2>1
  <2>3. Len(g) + m + 1 - n + n = end - n
    BY <1>1
  <2> QED BY <1>1, <2>1, <2>2, <2>3
<1>6. \A s, t \in T : s < t => s + n <= t
  <2> SUFFICES ASSUME NEW s \in T, NEW t \in T, s < t PROVE s + n <= t
    OBVIOUS
  <2>1. s + n \in S /\ t + n \in S /\ s \in Int /\ t \in Int
    BY <1>1
  <2>2. s + n + n <= t + n
    BY <1>2, <2>1
  <2> QED BY <2>1, <2>2
<1>7. \A s \in T : s < Len(g) + m + 1 => s + n \in T
  <2> SUFFICES ASSUME NEW s \in T, s < Len(g) + m + 1 PROVE s + n \in T
    OBVIOUS
  <2>1. s + n \in S /\ s \in Int /\ s >= 1 /\ s + n < end
    BY <1>1
  <2>2. s + n + n \in S /\ s + n + n <= end
    BY <1>2, <2>1
  <2> QED BY <1>1, <2>1, <2>2
<1>8. \A s \in T : \A i, j \in 1 .. Len(g) :
        s <= i /\ i < s + n /\ s <= j /\ j < s + n
          => g[i].scan = g[j].scan /\ (g[i].pin = g[j].pin => i = j)
  <2> SUFFICES ASSUME NEW s \in T, NEW i \in 1 .. Len(g), NEW j \in 1 .. Len(g),
                      s <= i, i < s + n, s <= j, j < s + n
               PROVE  g[i].scan = g[j].scan /\ (g[i].pin = g[j].pin => i = j)
    OBVIOUS
  <2>1. s + n \in S /\ s \in Int
    BY <1>1
  <2>2. i + n \in 1 .. l /\ j + n \in 1 .. l /\ i \in Int /\ j \in Int
    BY <1>1
  <2>3. s + n <= i + n /\ i + n < s + n + n /\ s + n <= j + n /\ j + n < s + n + n
    BY <2>1, <2>2
  <2>4. f[i + n].scan = f[j + n].scan /\ (f[i + n].pin = f[j + n].pin => i + n = j + n)
    BY <1>2, <2>1, <2>2, <2>3
  <2>5. g[i] = f[i + n] /\ g[j] = f[j + n]
    BY <1>1
  <2>6. i + n = j + n => i = j
    BY <2>2
  <2> QED BY <2>4, <2>5, <2>6
<1>9. m > 0 => \A i \in 1 .. Len(g) : Len(g) + m + 1 - n <= i => g[i].scan = scan /\ g[i].pin \notin left
  <2> SUFFICES ASSUME m > 0, NEW i \in 1 .. Len(g), Len(g) + m + 1 - n <= i
               PROVE  g[i].scan = scan /\ g[i].pin \notin left
    OBVIOUS
  <2>1. i + n \in 1 .. l /\ end - n <= i + n
    BY <1>1
  <2>2. f[i + n].scan = scan /\ f[i + n].pin \notin left
    BY <1>2, <2>1
  <2>3. g[i] = f[i + n]
    BY <1>1
  <2> QED BY <2>2, <2>3
<1> HIDE DEF T, end
<1>10. InBlocks(T, g, left, scan, n, m)
  <2> DEFINE last == Len(g) + m + 1
  <2>1. /\ T \subseteq 1 .. last /\ 1 \in T /\ last \in T
        /\ m > 0 => last - n \in T
        /\ \A s \in T : s < last => s + n \in T
        /\ m > 0 => \A i \in 1 .. Len(g) : last - n <= i => g[i].scan = scan /\ g[i].pin \notin left
    BY <1>4, <1>5, <1>7, <1>9
  <2> HIDE DEF last
  <2>2. InBlocks(T, g, left, scan, n, m) =
         (/\ T \subseteq 1 .. last /\ 1 \in T /\ last \in T
          /\ m > 0 => last - n \in T
          /\ \A s, t \in T : s < t => s + n <= t
          /\ \A s \in T : s < last => s + n \in T
          /\ \A s \in T : \A i, j \in 1 .. Len(g) :
               s <= i /\ i < s + n /\ s <= j /\ j < s + n
                 => g[i].scan = g[j].scan /\ (g[i].pin = g[j].pin => i = j)
          /\ m > 0 => \A i \in 1 .. Len(g) :
                last - n <= i => g[i].scan = scan /\ g[i].pin \notin left)
    BY Zenon DEF InBlocks, last
  <2> QED BY <1>6, <1>8, <2>1, <2>2
<1> QED BY <1>10 DEF T, g, l

(* It holds a sample of each slot, all of one scan.                        *)
Complete(own, read) ==
  LET got == Filled(own, read) IN DOMAIN got = own /\ \A p, q \in own : got[p] = got[q]

LEMMA BlockWhole ==
  ASSUME NEW f \in Seq(Sample), NEW left, NEW scan, NEW n \in Nat, n > 0, NEW m \in Nat,
         NEW S, InBlocks(S, f, left, scan, n, m), n <= Len(f),
         NEW own \in SUBSET AdcPin, Cardinality(own) = n,
         \A i \in 1 .. Len(f) : f[i].pin \in own
  PROVE  Complete(own, SubSeq(f, 1, n))
<1> DEFINE r == SubSeq(f, 1, n)
           got == Filled(own, r)
<1>1. Len(f) \in Nat /\ DOMAIN r = 1 .. n /\ \A i \in 1 .. n : r[i] = f[i]
  <2>1. 1 \in 1 .. Len(f) + 1 /\ n \in 0 .. Len(f)
    OBVIOUS
  <2>2. /\ r \in Seq(Sample)
        /\ Len(r) = IF 1 <= n THEN n - 1 + 1 ELSE 0
        /\ \A i \in 1 .. n - 1 + 1 : r[i] = f[1 + i - 1]
    BY <2>1, SubSeqProperties
  <2>3. \A i \in 1 .. n : 1 + i - 1 = i
    OBVIOUS
  <2>4. DOMAIN r = 1 .. Len(r) /\ Len(r) = n
    BY <2>2
  <2> QED BY <2>1, <2>2, <2>3, <2>4
<1>2. \A i, j \in 1 .. n : r[i].scan = r[j].scan /\ (r[i].pin = r[j].pin => i = j)
  <2> SUFFICES ASSUME NEW i \in 1 .. n, NEW j \in 1 .. n
               PROVE  r[i].scan = r[j].scan /\ (r[i].pin = r[j].pin => i = j)
    OBVIOUS
  <2>1. 1 \in S /\ i \in 1 .. Len(f) /\ j \in 1 .. Len(f)
    BY <1>1 DEF InBlocks
  <2>2. 1 <= i /\ i < 1 + n /\ 1 <= j /\ j < 1 + n
    OBVIOUS
  <2>3. f[i].scan = f[j].scan /\ (f[i].pin = f[j].pin => i = j)
    BY <2>1, <2>2 DEF InBlocks
  <2> QED BY <1>1, <2>3
<1>3. \A i \in 1 .. n : r[i].pin \in own
  BY <1>1
<1> HIDE DEF r
<1>4. \A q \in own : \E i \in 1 .. n : r[i].pin = q
  <2> SUFFICES ASSUME NEW q \in own, \A i \in 1 .. n : r[i].pin # q PROVE FALSE
    OBVIOUS
  <2> DEFINE h == [i \in 1 .. n |-> r[i].pin]
             rest == own \ {q}
  <2>1. IsFiniteSet(own)
    BY PeripheralAssumption, FS_Subset
  <2>2. IsFiniteSet(rest) /\ Cardinality(rest) = n - 1
    BY <2>1, FS_RemoveElement
  <2>3. IsFiniteSet(1 .. n) /\ Cardinality(1 .. n) = n
    BY FS_Interval
  <2>4. h \in [1 .. n -> rest]
    BY <1>3
  <2>5. Cardinality(rest) < Cardinality(1 .. n)
    BY <2>2, <2>3
  <2> HIDE DEF h, rest
  <2>6. \E x, y \in 1 .. n : x # y /\ h[x] = h[y]
    BY <2>2, <2>3, <2>4, <2>5, FS_PigeonHole
  <2> QED BY <1>2, <2>6 DEF h
<1>5. \A q \in own : \E i \in DOMAIN r :
        r[i].pin = q /\ \A j \in DOMAIN r : r[j].pin = q => j <= i
  <2> SUFFICES ASSUME NEW q \in own
               PROVE  \E i \in DOMAIN r : r[i].pin = q /\ \A j \in DOMAIN r : r[j].pin = q => j <= i
    OBVIOUS
  <2>1. PICK i \in 1 .. n : r[i].pin = q
    BY <1>4
  <2>2. \A j \in 1 .. n : r[j].pin = q => j = i
    BY <1>2, <2>1
  <2> QED BY <1>1, <2>1, <2>2
<1> DEFINE at(q) == CHOOSE i \in DOMAIN r :
                      r[i].pin = q /\ \A j \in DOMAIN r : r[j].pin = q => j <= i
<1>6. \A q \in own : at(q) \in 1 .. n
  BY <1>1, <1>5
<1>7. got = [q \in own |-> r[at(q)].scan]
  <2>1. {q \in own : \E i \in DOMAIN r : r[i].pin = q} = own
    BY <1>1, <1>4
  <2> QED BY <2>1 DEF Filled
<1> HIDE DEF at, got
<1>8. DOMAIN got = own /\ \A p, q \in own : got[p] = got[q]
  BY <1>2, <1>6, <1>7
<1> QED BY <1>8 DEF got, r, Complete
-----------------------------------------------------------------------------
(* An empty queue is one block to come.                                    *)
LEMMA ScanInit == Init => ScanInv
<1> SUFFICES ASSUME Init PROVE ScanInv
  OBVIOUS
<1>1. /\ converter = NoScan /\ sampled = NoCall /\ slots = {}
      /\ Cardinality({}) = 0
  BY FS_EmptySet DEF Init
<1>2. InBlocks({1}, <<>>, {}, 0, 0, 0)
  BY BlocksEmpty
<1> QED BY <1>1, <1>2 DEF ScanInv, SamplesOfPins, NoScan, NoCall

(* What changes neither the queue nor the slots keeps it.                  *)
LEMMA ScanKept ==
  ASSUME ScanInv, UNCHANGED <<converter, slots>>, sampled' \in {sampled, NoCall}
  PROVE  ScanInv'
<1>1. SamplesOfPins'
  BY DEF ScanInv, SamplesOfPins, NoCall
<1> QED BY <1>1 DEF ScanInv

(* Without samples, where the next goes a block begins.                    *)
LEMMA ScanEmptied ==
  ASSUME ScanInv, slots' \in SUBSET AdcPin,
         converter'.slots \in {{}, slots'}, converter'.fifo = <<>>, converter'.left = {},
         sampled' \in {sampled, NoCall}
  PROVE  ScanInv'
<1>1. SamplesOfPins'
  BY DEF ScanInv, SamplesOfPins, NoCall
<1>2. Cardinality({}) = 0 /\ Cardinality(slots') \in Nat
  BY PeripheralAssumption, FS_EmptySet, FS_Subset, FS_CardinalityType
<1>3. InBlocks({1}, <<>>, {}, converter'.scan, Cardinality(slots'), 0)
  BY <1>2, BlocksEmpty
<1>4. \E S \in SUBSET (1 .. Len(converter'.fifo) + Cardinality(converter'.left) + 1) :
        InBlocks(S, converter'.fifo, converter'.left, converter'.scan, Cardinality(slots'),
                 Cardinality(converter'.left))
  <2>1. {1} \in SUBSET (1 .. Len(converter'.fifo) + Cardinality(converter'.left) + 1)
    BY <1>2
  <2> QED BY <1>2, <1>3, <2>1
<1> QED BY <1>1, <1>4 DEF ScanInv

(* Taking, returning, sleeping and waking keep the queue or empty it.      *)
LEMMA ScanBorrow ==
  ASSUME ScanInv, QueueInv, NEW k \in Kind, NEW c \in Client, NEW want \in SUBSET AdcPin,
         \/ GetInstance(c, k, want) \/ Deinitialize(c, k) \/ Sleep(c, k) \/ Enable(c, k)
  PROVE  ScanInv'
<1> DEFINE Kept == UNCHANGED <<converter, slots>>
           Blank == /\ slots' \in SUBSET AdcPin /\ converter'.slots \in {{}, slots'}
                    /\ converter'.fifo = <<>> /\ converter'.left = {}
<1>1. sampled' \in {sampled, NoCall} /\ (Kept \/ Blank)
  <2>1. CASE GetInstance(c, k, want)
    <3>1. /\ sampled' = sampled
          /\ UNCHANGED <<slots, converter>> \/ Initialize(k, want)
      BY <2>1 DEF GetInstance
    <3>2. ASSUME AdcInitChannels(want) PROVE Blank
      <4>1. PICK outcome \in Outcome :
              /\ slots' = IF outcome = "ok" THEN want ELSE {Channel0}
              /\ converter' = [NoScan EXCEPT !.slots = IF outcome = "ok" THEN want ELSE {}]
        BY <3>2 DEF AdcInitChannels
      <4> QED BY <4>1, PeripheralAssumption DEF NoScan
    <3> QED BY <3>1, <3>2 DEF Initialize
  <2>2. CASE Deinitialize(c, k)
    <3>1. CASE refcount[k] > 1
      BY <2>2, <3>1 DEF Deinitialize, samples
    <3>2. CASE ~(refcount[k] > 1)
      <4>1. Clear(k) /\ slots' = IF k = "adc" THEN {} ELSE slots
        BY <2>2, <3>2 DEF Deinitialize
      <4> QED BY <4>1 DEF Clear, NoScan
    <3> QED BY <3>1, <3>2
  <2>3. CASE Sleep(c, k)
    <3>1. /\ slots' = slots
          /\ LosePower(k) \/ UNCHANGED <<converter, sampled>>
      BY <2>3 DEF Sleep, PowerOff, Powered, samples
    <3> QED BY <3>1 DEF LosePower, Emptied, NoScan, ScanInv, QueueInv
  <2>4. CASE Enable(c, k)
    BY <2>4 DEF Enable, driver, samples
  <2> QED BY <2>1, <2>2, <2>3, <2>4
<1>2. CASE Kept
  BY <1>1, <1>2, ScanKept
<1>3. CASE Blank
  BY <1>1, <1>3, ScanEmptied
<1> QED BY <1>1, <1>2, <1>3

LEMMA SleepEndQueue ==
  ASSUME ScanInv, QueueInv, NEW k \in Kind, SleepEnd(k)
  PROVE  QueueInv' /\ ScanInv'
<1>1. UNCHANGED <<queued, slots>>
  BY DEF SleepEnd
<1>2. CASE LosePower(k) /\ k = "adc"
  <2>1. QueueInv'
    <3>1. converter' = [slots |-> converter.slots, left |-> {}, scan |-> converter.scan,
                        fifo |-> <<>>, skewed |-> FALSE]
      BY <1>2 DEF LosePower, Emptied, NoScan
    <3> QED BY <1>1, <3>1, PeripheralAssumption DEF QueueInv
  <2>2. sampled' = NoCall /\ converter'.slots \in {{}, slots'}
        /\ converter'.fifo = <<>> /\ converter'.left = {} /\ slots' \in SUBSET AdcPin
    BY <1>1, <1>2 DEF LosePower, Emptied, NoScan, ScanInv, QueueInv
  <2> QED BY <2>1, <2>2, ScanEmptied
<1>3. CASE UNCHANGED converter /\ sampled' \in {sampled, NoCall}
  <2>1. QueueInv'
    BY <1>1, <1>3 DEF QueueInv
  <2> QED BY <1>1, <1>3, <2>1, ScanKept
<1> QED BY <1>2, <1>3 DEF SleepEnd, PowerOff, Powered, LosePower, samples

(* What is left to read are some of the slots.                             *)
LEMMA LeftOfSlots ==
  ASSUME QueueInv
  PROVE  /\ IsFiniteSet(converter.left) /\ IsFiniteSet(slots)
         /\ Cardinality(converter.left) \in Nat /\ Cardinality(slots) \in Nat
         /\ converter.slots = slots => Cardinality(converter.left) <= Cardinality(slots)
         /\ (Cardinality(converter.left) = 0) <=> (converter.left = {})
         /\ (Cardinality(slots) = 0) <=> (slots = {})
<1>1. IsFiniteSet(converter.left) /\ IsFiniteSet(slots)
  BY PeripheralAssumption, FS_Subset DEF QueueInv
<1>2. converter.slots = slots => converter.left \subseteq slots
  BY DEF QueueInv
<1> QED BY <1>1, <1>2, FS_Subset, FS_CardinalityType, FS_EmptySet

(* A scan begins.                                                          *)
LEMMA ScanTrigger ==
  ASSUME ScanInv, QueueInv, NEW c \in Client, AdcTrigger(c)
  PROVE  ScanInv'
<1> DEFINE f == converter.fifo
           n == Cardinality(slots)
           begun == (converter.scan + 1) % Scans
<1>1. sampled' = NoCall /\ slots' = slots
  BY DEF AdcTrigger, driver
<1>2. CASE UNCHANGED converter
  BY <1>1, <1>2, ScanKept
<1>3. CASE ~UNCHANGED converter
  <2>1. /\ converter.left = {}
        /\ converter' = [converter EXCEPT !.left = converter.slots, !.scan = begun]
    BY <1>3 DEF AdcTrigger
  <2>2. /\ converter'.slots = converter.slots /\ converter'.fifo = f
        /\ converter'.left = converter.slots /\ converter'.scan = begun
        /\ converter'.skewed = converter.skewed
    BY <2>1 DEF QueueInv
  <2>3. CASE converter.slots = {}
    BY <1>1, <2>2, <2>3, ScanEmptied DEF ScanInv, QueueInv
  <2>4. CASE converter.slots = slots /\ slots # {}
    <3>1. SamplesOfPins'
      BY <1>1 DEF SamplesOfPins, NoCall
    <3>2. ASSUME ~converter.skewed
          PROVE  \E S \in SUBSET (1 .. Len(f) + n + 1) : InBlocks(S, f, slots, begun, n, n)
      <4>1. n \in Nat /\ Cardinality(converter.left) = 0 /\ f \in Seq(Sample)
        BY <2>1, LeftOfSlots DEF QueueInv
      <4>2. PICK S : InBlocks(S, f, converter.left, converter.scan, n, 0)
        BY <3>2, <4>1 DEF ScanInv
      <4>3. InBlocks(S \cup {Len(f) + n + 1}, f, slots, begun, n, n)
        BY <4>1, <4>2, BlocksTriggered
      <4>4. S \cup {Len(f) + n + 1} \in SUBSET (1 .. Len(f) + n + 1)
        BY <4>3 DEF InBlocks
      <4> QED BY <4>3, <4>4
    <3>3. \A i \in 1 .. Len(f) : f[i].pin \in converter.slots
      BY DEF ScanInv
    <3> HIDE DEF f, n, begun
    <3> QED BY <1>1, <2>2, <2>4, <3>1, <3>2, <3>3 DEF ScanInv, n
  <2> QED BY <2>3, <2>4 DEF ScanInv
<1> QED BY <1>2, <1>3

(* A sample is queued, or lost.                                            *)
LEMMA ScanConvert ==
  ASSUME ScanInv, QueueInv, AdcConvert
  PROVE  ScanInv'
<1> DEFINE f == converter.fifo
           n == Cardinality(slots)
           m == Cardinality(converter.left)
<1>1. sampled' = NoCall /\ slots' = slots
  BY DEF AdcConvert, driver
<1>2. PICK p \in converter.left : converter' = [converter EXCEPT
         !.left = @ \ {p},
         !.fifo = IF Len(@) < Depth THEN Append(@, [pin |-> p, scan |-> converter.scan]) ELSE @,
         !.skewed = @ \/ Len(converter.fifo) = Depth]
  BY DEF AdcConvert
<1> DEFINE e == [pin |-> p, scan |-> converter.scan]
           g == Append(f, e)
<1>3. /\ converter'.slots = converter.slots /\ converter'.scan = converter.scan
      /\ converter'.left = converter.left \ {p}
      /\ converter'.fifo = IF Len(f) < Depth THEN g ELSE f
      /\ converter'.skewed = (converter.skewed \/ Len(f) = Depth)
  BY <1>2 DEF QueueInv
<1>4. /\ converter.slots = slots /\ slots # {} /\ p \in AdcPin
      /\ f \in Seq(Sample) /\ Len(f) \in Nat /\ Len(f) <= Depth
      /\ \A i \in 1 .. Len(f) : f[i].pin \in slots
      /\ p \in slots
  BY DEF ScanInv, QueueInv
<1>5. SamplesOfPins'
  BY <1>1 DEF SamplesOfPins, NoCall
<1>6. CASE ~(Len(f) < Depth)
  <2>1. converter'.skewed /\ converter'.fifo = f
    <3>1. Depth \in Nat
      BY PeripheralAssumption
    <3> HIDE DEF f
    <3>2. Len(f) = Depth
      BY <1>4, <1>6, <3>1
    <3> QED BY <1>3, <1>6, <3>2
  <2> QED BY <1>1, <1>3, <1>4, <1>5, <2>1 DEF ScanInv
<1>7. CASE Len(f) < Depth
  <2>1. Len(g) = Len(f) + 1 /\ (\A i \in 1 .. Len(f) : g[i] = f[i]) /\ g[Len(f) + 1] = e
    BY <1>4
  <2>2. \A i \in 1 .. Len(g) : g[i].pin \in slots
    <3> SUFFICES ASSUME NEW i \in 1 .. Len(g) PROVE g[i].pin \in slots
      OBVIOUS
    <3>1. i = Len(f) + 1 \/ i \in 1 .. Len(f)
      BY <1>4, <2>1
    <3> QED BY <1>4, <2>1, <3>1
  <2>3. ASSUME ~converter.skewed
        PROVE  \E S \in SUBSET (1 .. Len(g) + (m - 1) + 1) :
                 InBlocks(S, g, converter.left \ {p}, converter.scan, n, m - 1)
    <3>1. m \in Nat /\ m > 0 /\ n \in Nat /\ m <= n
      BY <1>4, LeftOfSlots
    <3>2. PICK S : InBlocks(S, f, converter.left, converter.scan, n, m)
      BY <2>3 DEF ScanInv
    <3>3. e.pin = p /\ e.scan = converter.scan
      OBVIOUS
    <3> HIDE DEF e, m, n
    <3>4. InBlocks(S, g, converter.left \ {p}, converter.scan, n, m - 1)
      BY <1>4, <3>1, <3>2, <3>3, BlocksSampled
    <3>5. S \in SUBSET (1 .. Len(g) + (m - 1) + 1)
      BY <3>4 DEF InBlocks
    <3> QED BY <3>4, <3>5
  <2>4. Cardinality(converter.left \ {p}) = m - 1
    BY LeftOfSlots, FS_RemoveElement
  <2>5. converter'.fifo = g /\ (~converter'.skewed => ~converter.skewed)
    BY <1>3, <1>7
  <2> HIDE DEF f, n, m, e, g
  <2> QED BY <1>1, <1>3, <1>4, <1>5, <2>2, <2>3, <2>4, <2>5 DEF ScanInv, n
<1> QED BY <1>6, <1>7

(* A call of adc_get_sample takes the block at the front.                  *)
LEMMA ScanGet ==
  ASSUME ScanInv, QueueInv, NEW c \in Client, NEW asked \in (SUBSET AdcPin) \ {{}},
         GetSample(c, asked)
  PROVE  ScanInv'
<1> DEFINE f == converter.fifo
           n == Cardinality(asked)
           m == Cardinality(converter.left)
           g == SubSeq(f, n + 1, Len(f))
           filled == Filled(asked, SubSeq(f, 1, n))
<1>1. slots' = slots /\ n <= Cardinality(slots)
  BY DEF GetSample, driver
<1>2. CASE ~Enough
  BY <1>1, <1>2, ScanKept DEF GetSample
<1>3. CASE Enough
  <2>1. /\ sampled' = [asked |-> asked, whole |-> asked = slots /\ ~converter.skewed,
                       got |-> filled]
        /\ converter' = [converter EXCEPT !.fifo = g, !.skewed = @ \/ asked # slots]
    BY <1>3 DEF GetSample
  <2>2. /\ converter'.slots = converter.slots /\ converter'.scan = converter.scan
        /\ converter'.left = converter.left /\ converter'.fifo = g
        /\ converter'.skewed = (converter.skewed \/ asked # slots)
    BY <2>1 DEF QueueInv
  <2>3. /\ n \in Nat /\ n > 0 /\ m \in Nat /\ f \in Seq(Sample) /\ Len(f) \in Nat
        /\ n <= Len(f)
    <3>1. IsFiniteSet(asked)
      BY PeripheralAssumption, FS_Subset
    <3>2. n \in Nat /\ n # 0
      BY <3>1, FS_CardinalityType, FS_EmptySet
    <3>3. Cardinality(slots) \in Nat /\ m \in Nat /\ f \in Seq(Sample)
      BY LeftOfSlots DEF QueueInv
    <3> QED BY <1>1, <1>3, <3>2, <3>3 DEF Enough
  <2>4. converter.slots = slots
    BY <2>3 DEF ScanInv
  <2>5. \A i \in 1 .. Len(f) : f[i].pin \in slots
    BY <2>4 DEF ScanInv
  <2>6. \A i \in 1 .. Len(g) : g[i].pin \in slots
    <3>1. /\ Len(g) = Len(f) - n
          /\ \A i \in 1 .. Len(f) - n : g[i] = f[i + n]
      <4>1. n + 1 \in 1 .. Len(f) + 1 /\ Len(f) \in n .. Len(f)
        BY <2>3
      <4>2. /\ Len(g) = IF n + 1 <= Len(f) THEN Len(f) - (n + 1) + 1 ELSE 0
            /\ \A i \in 1 .. Len(f) - (n + 1) + 1 : g[i] = f[n + 1 + i - 1]
        BY <2>3, <4>1, SubSeqProperties
      <4>3. \A i \in 1 .. Len(f) - n : n + 1 + i - 1 = i + n
        BY <2>3
      <4> QED BY <2>3, <4>1, <4>2, <4>3
    <3> SUFFICES ASSUME NEW i \in 1 .. Len(g) PROVE g[i].pin \in slots
      OBVIOUS
    <3>2. i + n \in 1 .. Len(f) /\ g[i] = f[i + n]
      BY <2>3, <3>1
    <3> QED BY <2>5, <3>2
  <2>7. ASSUME ~converter.skewed, asked = slots
        PROVE  /\ DOMAIN filled = asked /\ \A p, q \in asked : filled[p] = filled[q]
               /\ \E S \in SUBSET (1 .. Len(g) + m + 1) :
                    InBlocks(S, g, converter.left, converter.scan, n, m)
    <3>1. PICK S : InBlocks(S, f, converter.left, converter.scan, n, m)
      BY <2>7 DEF ScanInv
    <3>2. DOMAIN filled = asked /\ \A p, q \in asked : filled[p] = filled[q]
      <4>1. \A i \in 1 .. Len(f) : f[i].pin \in asked
        BY <2>5, <2>7
      <4>2. asked \in SUBSET AdcPin /\ Cardinality(asked) = n
        OBVIOUS
      <4> HIDE DEF n, m, f
      <4>3. /\ f \in Seq(Sample) /\ n \in Nat /\ n > 0 /\ m \in Nat /\ n <= Len(f)
            /\ asked \in SUBSET AdcPin
        BY <2>3, <4>2
      <4>4. Complete(asked, SubSeq(f, 1, n))
        BY <3>1, <4>1, <4>2, <4>3, BlockWhole
      <4> QED BY <4>4 DEF Complete
    <3> HIDE DEF m, f, n
    <3>3. \E T : InBlocks(T, g, converter.left, converter.scan, n, m)
      BY <2>3, <3>1, BlocksRead
    <3>4. PICK T : InBlocks(T, g, converter.left, converter.scan, n, m)
      BY <3>3
    <3>5. T \in SUBSET (1 .. Len(g) + m + 1)
      BY <3>4 DEF InBlocks
    <3> QED BY <3>2, <3>4, <3>5
  <2>8. SamplesOfPins'
    <3> HIDE DEF filled
    <3> SUFFICES ASSUME sampled'.whole
                 PROVE  /\ DOMAIN sampled'.got = sampled'.asked
                        /\ \A p, q \in sampled'.asked : sampled'.got[p] = sampled'.got[q]
      BY DEF SamplesOfPins
    <3>1. asked = slots /\ ~converter.skewed
      BY <2>1
    <3>2. sampled'.got = filled /\ sampled'.asked = asked
      BY <2>1
    <3> QED BY <2>7, <3>1, <3>2
  <2>9. CASE converter.skewed \/ asked # slots
    <3>1. converter'.skewed
      BY <2>2, <2>9
    <3>2. slots # {}
      BY <1>1, <2>3, LeftOfSlots
    <3> HIDE DEF f, g, n, m
    <3> QED BY <1>1, <2>2, <2>4, <2>6, <2>8, <3>1, <3>2 DEF ScanInv
  <2>10. CASE ~converter.skewed /\ asked = slots
    <3>1. slots # {}
      BY <2>10
    <3>2. \E S \in SUBSET (1 .. Len(g) + m + 1) :
            InBlocks(S, g, converter.left, converter.scan, n, m)
      BY <2>7, <2>10
    <3>3. Cardinality(slots) = n
      BY <2>10
    <3> HIDE DEF f, g, n
    <3> QED BY <1>1, <2>2, <2>4, <2>6, <2>8, <3>1, <3>2, <3>3 DEF ScanInv
  <2> QED BY <2>9, <2>10
<1> QED BY <1>2, <1>3

-----------------------------------------------------------------------------
(* The inductive invariant: what the borrowers share, the microphone, the  *)
(* queues and the scans in the converter's.                                *)
PeripheralInv == BorrowInv /\ MicInv /\ QueueInv /\ ScanInv

LEMMA InitInv == Init => PeripheralInv
<1>1. Init => MicInv
  BY DEF Init, Quiet, MicInv
<1> QED BY <1>1, BorrowInit, QueueInit, ScanInit DEF PeripheralInv

(* A step borrows, sleeps, wakes or returns, or uses the peripheral.       *)
LEMMA StepInv == PeripheralInv /\ [Next]_vars => PeripheralInv'
<1> SUFFICES ASSUME PeripheralInv, [Next]_vars PROVE PeripheralInv'
  OBVIOUS
<1> USE DEF PeripheralInv
<1>1. ASSUME NEW k \in Kind, NEW c \in Client, NEW want \in SUBSET AdcPin,
             Free,
             \/ GetInstance(c, k, want) \/ Deinitialize(c, k) \/ Sleep(c, k) \/ Enable(c, k)
      PROVE  PeripheralInv'
  <2>1. BorrowInv'
    BY <1>1, BorrowGet, BorrowReturn, BorrowSleep, BorrowEnable
  <2>2. QueueInv'
    BY <1>1, QueueBorrow
  <2>3. LosePower(k) \/ Clear(k) \/ UNCHANGED mic
    BY <1>1 DEF GetInstance, Deinitialize, Sleep, PowerOff, Powered, Enable
  <2>4. MicInv'
    BY <2>3, MicQuiet
  <2>5. ScanInv'
    BY <1>1, ScanBorrow
  <2> QED BY <2>1, <2>2, <2>4, <2>5
<1>2. CASE Drain \/ \E c \in Client, n \in 1 .. Buffer : Write(c, n)
  <2>1. UNCHANGED mic /\ UNCHANGED <<converter, slots, sampled>>
    BY <1>2 DEF Drain, Write, driver, samples
  <2>2. MicInv'
    BY <2>1 DEF MicInv
  <2> QED BY <1>2, <2>1, <2>2, BorrowSend, QueueUse, ScanKept
<1>3. CASE \/ AdcConvert
           \/ \E c \in Client : AdcTrigger(c) \/ \E asked \in (SUBSET AdcPin) \ {{}} : GetSample(c, asked)
  <2>1. UNCHANGED borrowed /\ UNCHANGED mic
    BY <1>3 DEF AdcConvert, AdcTrigger, GetSample, borrowed, driver, hardware, history
  <2>2. MicInv'
    BY <2>1 DEF MicInv
  <2>3. ScanInv'
    BY <1>3, ScanConvert, ScanTrigger, ScanGet
  <2> QED BY <1>3, <2>1, <2>2, <2>3, BorrowStutter, QueueUse
<1>4. CASE \/ DmaStart \/ DmaDone \/ am_pdm0_isr \/ isPDMDataReady
           \/ \E c \in Client : DataGet(c)
  <2>1. UNCHANGED borrowed /\ UNCHANGED <<queued, converter, slots, sampled>>
    BY <1>4 DEF DmaStart, DmaDone, am_pdm0_isr, isPDMDataReady, DataGet, borrowed, driver,
                hardware, history, samples
  <2>2. QueueInv'
    BY <2>1 DEF QueueInv
  <2> QED BY <1>4, <2>1, <2>2, BorrowStutter, MicSteps, ScanKept
<1>5. CASE UNCHANGED vars
  <2>1. UNCHANGED borrowed /\ UNCHANGED <<queued, converter, slots, mic, sampled>>
    BY <1>5 DEF vars, borrowed, driver, hardware, history, samples
  <2>2. QueueInv' /\ MicInv'
    BY <2>1 DEF QueueInv, MicInv
  <2> QED BY <2>1, <2>2, BorrowStutter, ScanKept
<1>6. ASSUME NEW k \in Kind, KindNext(k) PROVE PeripheralInv'
  <2>1. ASSUME NEW c \in Client, Free, Call(c, k) PROVE PeripheralInv'
    <3>1. {} \in SUBSET AdcPin
      OBVIOUS
    <3>2. CASE \E want \in IF k = "adc" THEN (SUBSET AdcPin) \ {{}} ELSE {{}} :
                 GetInstance(c, k, want)
      BY <1>1, <2>1, <3>2
    <3>3. CASE Deinitialize(c, k) \/ Enable(c, k) \/ Sleep(c, k)
      BY <1>1, <2>1, <3>1, <3>3
    <3> QED BY <2>1, <3>2, <3>3 DEF Call
  <2>2. ASSUME NEW c \in Client, Use(c, k) PROVE PeripheralInv'
    BY <1>2, <1>3, <1>4, <2>2 DEF Use
  <2>3. ASSUME SleepEnd(k) PROVE PeripheralInv'
    <3>1. LosePower(k) \/ UNCHANGED mic
      BY <2>3 DEF SleepEnd, PowerOff, Powered
    <3> QED BY <2>3, <3>1, BorrowSleepEnd, MicQuiet, SleepEndQueue
  <2> QED BY <1>2, <1>3, <1>4, <1>6, <2>1, <2>2, <2>3 DEF KindNext
<1> QED BY <1>5, <1>6 DEF Next

THEOREM Invariance == Spec => []PeripheralInv
BY InitInv, StepInv, PTL DEF Spec

(* Every variable stays in its range, the queues within their bounds.      *)
THEOREM TypeCorrect == Spec => []TypeOK
<1>1. PeripheralInv => TypeOK
  BY DEF PeripheralInv, BorrowInv, BorrowTypes, QueueInv, TypeOK, Pins
<1> QED BY <1>1, Invariance, PTL

(* No handler runs for a peripheral that is off or was returned, or with   *)
(* the handle of an ADC released before, for any number of borrowers.      *)
THEOREM HandlersAlwaysServed == Spec => []HandlersServed
<1>1. PeripheralInv => HandlersServed
  BY DEF PeripheralInv, BorrowInv
<1> QED BY <1>1, Invariance, PTL

(* Counts are the numbers of borrowers, and what nobody borrows is off.    *)
THEOREM CountsAlwaysExact == Spec => []CountsExact
<1>1. PeripheralInv => CountsExact
  BY DEF PeripheralInv, BorrowInv
<1> QED BY <1>1, Invariance, PTL

(* Unless initialising the ADC has failed, what is off has no pin.         *)
THEOREM PinsReleased == Spec => []PinsOffAsleep
<1>1. PeripheralInv => PinsOffAsleep
  BY DEF PeripheralInv, BorrowInv
<1> QED BY <1>1, Invariance, PTL

(* A buffer that isPDMDataReady says is ready is whole and left alone.     *)
THEOREM BuffersWhole == Spec => []BufferWhole
<1>1. PeripheralInv => BufferWhole
  BY DEF PeripheralInv, MicInv, BufferWhole
<1> QED BY <1>1, Invariance, PTL

(* adc_get_sample that finds samples returns one of every pin, all of one  *)
(* scan, when asked for what the ADC was set up with and nothing was lost, *)
(* however scans, calls, sleeps and failed initialisations interleave.     *)
THEOREM SamplesComplete == Spec => []SamplesOfPins
<1>1. PeripheralInv => SamplesOfPins
  BY DEF PeripheralInv, ScanInv
<1> QED BY <1>1, Invariance, PTL
=============================================================================
