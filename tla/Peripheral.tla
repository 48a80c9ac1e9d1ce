----------------------------- MODULE Peripheral -----------------------------
(***************************************************************************)
(* The peripherals of the processor that firmware modules borrow: the UART *)
(* (src/src/uart.c), the ADC (src/src/adc.c) and the microphone            *)
(* (src/src/pdm.c). Each is one static structure, initialised by the first *)
(* borrower, counted, put to sleep and woken by any of them, and served by *)
(* an interrupt handler.                                                   *)
(***************************************************************************)
EXTENDS Integers, FiniteSets, Sequences

CONSTANTS
  Client,    \* the firmware modules that borrow peripherals
  Kind,      \* the peripherals looked at: of "uart", "adc", "pdm"
  AdcPin,    \* the pins the ADC can read ...
  Channel0,  \* ... and the one that channel 0, the value of a cleared slot, reads
  Outcome,   \* how initialising the ADC ends: of "ok", "none" (no handle), "half"
  Buffer,    \* bytes the UART queues: 1024
  Depth      \* samples the ADC queues: 12

ASSUME PeripheralAssumption ==
  /\ IsFiniteSet(Client) /\ IsFiniteSet(AdcPin) /\ Kind \subseteq {"uart", "adc", "pdm"}
  /\ Channel0 \in AdcPin /\ Outcome \subseteq {"ok", "none", "half"}
  /\ Buffer \in Nat /\ Depth \in Nat

VARIABLES
  handle,    \* kind -> is the handle of the HAL set
  refcount,  \* kind -> the number of borrowers
  slots,     \* the pins that the ADC's slots are believed to read
  adcHandle, \* what the ADC's handler uses: "null", "live" or "stale"
  powered,   \* kind -> is the hardware on
  saved,     \* kind -> is there a state to restore
  irq,       \* kind -> is the interrupt enabled
  pins,      \* kind -> the pins connected to the peripheral
  queued,    \* bytes the UART has accepted and not sent
  converter, \* the converter of the ADC: the pins its slots read, those left to
             \* read in this scan, the scan's number, the queue of samples, and (history)
             \* whether the queue no longer begins where a scan does
  mic,       \* the microphone: the flag of its handler, the transfer, the driver
  sleeping,  \* the kind whose sleep the program has begun and not ended, or "none"
  users,     \* history: kind -> the borrowers
  failed,    \* history: has initialising the ADC ever failed
  sampled    \* history: the last call of adc_get_sample, and what it filled

driver == <<handle, refcount, slots, adcHandle, sleeping>>
hardware == <<powered, saved, irq, pins, queued>>
history == <<users, failed>>
samples == <<converter, sampled>>
vars == <<driver, hardware, history, samples, mic>>

Own(k) == IF k = "uart" THEN {"TX", "RX"}
          ELSE IF k = "pdm" THEN {"DATA", "CLK"} ELSE slots

(* A converter without configuration, and one whose power was lost; the    *)
(* microphone without a transfer.                                          *)
Scans == 3                            \* bound: scans are numbered modulo 3
NoScan == [slots |-> {}, left |-> {}, scan |-> 0, fifo |-> <<>>, skewed |-> FALSE]
Emptied(c) == [NoScan EXCEPT !.slots = c.slots, !.scan = c.scan]
NoCall == [asked |-> {}, got |-> <<>>, whole |-> FALSE]
Quiet == [ready |-> FALSE, dma |-> "none", getting |-> FALSE, waiting |-> FALSE, filled |-> FALSE]
Interrupted(m) == [Quiet EXCEPT !.ready = m.ready, !.filled = m.filled]

Init ==
  /\ converter = NoScan /\ sampled = NoCall /\ mic = Quiet /\ sleeping = "none"
  /\ handle = [k \in Kind |-> FALSE] /\ refcount = [k \in Kind |-> 0]
  /\ slots = {} /\ adcHandle = "null"
  /\ powered = [k \in Kind |-> FALSE] /\ saved = [k \in Kind |-> FALSE]
  /\ irq = [k \in Kind |-> FALSE] /\ pins = [k \in Kind |-> {}] /\ queued = 0
  /\ users = [k \in Kind |-> {}] /\ failed = FALSE

-----------------------------------------------------------------------------
(* Borrowing. The first borrower initialises the peripheral, which is then *)
(* put to sleep: off, its state saved, its interrupt disabled.             *)

InitAsleep(k) ==
  /\ handle' = [handle EXCEPT ![k] = TRUE] /\ saved' = [saved EXCEPT ![k] = TRUE]
  /\ powered' = [powered EXCEPT ![k] = FALSE] /\ irq' = [irq EXCEPT ![k] = FALSE]

(* adc_init_channels connects the pins before it asks for a handle and     *)
(* notes the channels of its slots after the ADC is configured; adc_sleep  *)
(* then disconnects what is noted.                                         *)
AdcInitChannels(want) ==
  \E outcome \in Outcome :
    /\ slots' = IF outcome = "ok" THEN want ELSE {Channel0}
    /\ pins' = [pins EXCEPT !["adc"] = (@ \cup want) \ slots']
    /\ adcHandle' = IF outcome = "none" THEN "null" ELSE "live"
    /\ failed' = (failed \/ outcome # "ok")
    /\ converter' = [NoScan EXCEPT !.slots = IF outcome = "ok" THEN want ELSE {}]
    /\ IF outcome = "none"
       THEN irq' = [irq EXCEPT !["adc"] = FALSE] /\ UNCHANGED <<handle, saved, powered>>
       ELSE InitAsleep("adc")

Initialize(k, want) ==
  \/ k = "adc" /\ AdcInitChannels(want)
  \/ k # "adc" /\ InitAsleep(k) /\ UNCHANGED <<slots, adcHandle, pins, failed, converter>>

Borrow(c, k) ==
  /\ refcount' = [refcount EXCEPT ![k] = @ + 1]
  /\ users' = [users EXCEPT ![k] = @ \cup {c}]

(* Mutant: only the borrower that initialises is counted. *)
GetInstanceCountOnce(c, k, want) ==
  /\ c \notin users[k]
  /\ IF handle[k]
     THEN /\ users' = [users EXCEPT ![k] = @ \cup {c}]
          /\ UNCHANGED <<driver, powered, saved, irq, pins, failed, converter>>
     ELSE Borrow(c, k) /\ Initialize(k, want)
  /\ UNCHANGED <<queued, sampled, mic, sleeping>>

GetInstance(c, k, want) ==
  /\ c \notin users[k]                    \* bound: one reference per client
  /\ IF handle[k]
     THEN UNCHANGED <<handle, slots, adcHandle, powered, saved, irq, pins, failed, converter>>
     ELSE Initialize(k, want)
  /\ Borrow(c, k)
  /\ UNCHANGED <<queued, sampled, mic, sleeping>>

(* The last to return the peripheral turns it off, without waiting for the *)
(* queue of the UART, and clears the structure; interrupt_adc_handle is    *)
(* not part of it.                                                         *)
Return(c, k) ==
  /\ users' = [users EXCEPT ![k] = @ \ {c}] /\ refcount' = [refcount EXCEPT ![k] = @ - 1]
  /\ UNCHANGED <<failed, sleeping>>

(* Without power a scan and its samples, or a transfer, are gone; the flag *)
(* of the microphone's handler is kept, also when the structure is cleared.*)
LosePower(k) ==
  /\ converter' = IF k = "adc" THEN Emptied(converter) ELSE converter
  /\ mic' = IF k = "pdm" THEN Interrupted(mic) ELSE mic
  /\ sampled' = NoCall

Clear(k) ==
  /\ converter' = IF k = "adc" THEN NoScan ELSE converter
  /\ mic' = IF k = "pdm" THEN [Quiet EXCEPT !.ready = mic.ready] ELSE mic
  /\ sampled' = NoCall

(* Mutant: the pins stay connected. *)
DeinitializePinned(c, k) ==
  /\ c \in users[k] /\ Return(c, k)
  /\ IF refcount[k] > 1 THEN UNCHANGED <<handle, slots, adcHandle, hardware, samples, mic>>
     ELSE /\ Clear(k) /\ irq' = [irq EXCEPT ![k] = FALSE] /\ powered' = [powered EXCEPT ![k] = FALSE]
          /\ handle' = [handle EXCEPT ![k] = FALSE]
          /\ saved' = [saved EXCEPT ![k] = FALSE]
          /\ slots' = IF k = "adc" THEN {} ELSE slots
          /\ adcHandle' = IF k = "adc" /\ handle[k] THEN "stale" ELSE adcHandle
          /\ queued' = IF k = "uart" THEN 0 ELSE queued
          /\ UNCHANGED pins

Deinitialize(c, k) ==
  /\ c \in users[k] /\ Return(c, k)
  /\ IF refcount[k] > 1 THEN UNCHANGED <<handle, slots, adcHandle, hardware, samples, mic>>
     ELSE /\ Clear(k) /\ irq' = [irq EXCEPT ![k] = FALSE] /\ powered' = [powered EXCEPT ![k] = FALSE]
          /\ pins' = [pins EXCEPT ![k] = @ \ Own(k)]
          /\ handle' = [handle EXCEPT ![k] = FALSE]
          /\ saved' = [saved EXCEPT ![k] = FALSE]
          /\ slots' = IF k = "adc" THEN {} ELSE slots
          /\ adcHandle' = IF k = "adc" /\ handle[k] THEN "stale" ELSE adcHandle
          /\ queued' = IF k = "uart" THEN 0 ELSE queued

-----------------------------------------------------------------------------
(* Sleeping and waking. A sleep is two steps, between which an interrupt   *)
(* can come: uart_sleep spins until nothing is left to send, turns the     *)
(* power off, and disables the interrupt last; adc_sleep and pdm_sleep     *)
(* disable the interrupt first.                                            *)

Unlisten(k) == irq' = [irq EXCEPT ![k] = FALSE]

PowerOff(k) ==
  /\ powered' = [powered EXCEPT ![k] = FALSE] /\ saved' = [saved EXCEPT ![k] = TRUE]
  /\ LosePower(k)

Powered == <<powered, saved, samples, mic>>

(* Mutant: all of them are turned off first, as the UART is. *)
SleepOffFirst(c, k) ==
  /\ c \in users[k] /\ sleeping' = k /\ (k = "uart" => queued = 0)
  /\ PowerOff(k) /\ UNCHANGED <<handle, refcount, slots, adcHandle, irq, pins, queued, history>>

Sleep(c, k) ==
  /\ c \in users[k] /\ sleeping' = k
  /\ IF k = "uart" THEN queued = 0 /\ PowerOff(k) /\ UNCHANGED irq
                   ELSE Unlisten(k) /\ UNCHANGED Powered
  /\ UNCHANGED <<handle, refcount, slots, adcHandle, pins, queued, history>>

SleepEnd(k) ==
  /\ sleeping = k /\ sleeping' = "none" /\ pins' = [pins EXCEPT ![k] = @ \ Own(k)]
  /\ IF k = "uart" THEN Unlisten(k) /\ UNCHANGED Powered ELSE PowerOff(k) /\ UNCHANGED irq
  /\ UNCHANGED <<handle, refcount, slots, adcHandle, queued, history>>

(* Waking fails without a handle, or a state to restore.                   *)
Enable(c, k) ==
  /\ c \in users[k] /\ handle[k] /\ saved[k]
  /\ powered' = [powered EXCEPT ![k] = TRUE] /\ saved' = [saved EXCEPT ![k] = FALSE]
  /\ pins' = [pins EXCEPT ![k] = @ \cup Own(k)] /\ irq' = [irq EXCEPT ![k] = TRUE]
  /\ UNCHANGED <<driver, queued, history, samples, mic>>

-----------------------------------------------------------------------------
(* uart_write takes what fits into the queue, which the hardware and the   *)
(* interrupt handler empty.                                                *)

(* Mutant: the HAL is told that the buffer to send has room for both.     *)
TxBufferSizeBoth == 2 * Buffer
TxBufferSize == Buffer
Room == TxBufferSize - queued

Write(c, n) ==
  /\ "uart" \in Kind /\ c \in users["uart"] /\ powered["uart"]
  /\ queued' = queued + (IF n <= Room THEN n ELSE Room)
  /\ UNCHANGED <<driver, powered, saved, irq, pins, history, samples, mic>>

Drain ==
  /\ "uart" \in Kind /\ queued > 0 /\ powered["uart"] /\ irq["uart"]
  /\ queued' = queued - 1
  /\ UNCHANGED <<driver, powered, saved, irq, pins, history, samples, mic>>

-----------------------------------------------------------------------------
(* The samples of the ADC. A trigger starts one scan of the slots, which   *)
(* queues a sample after the other; what does not fit into the queue is    *)
(* lost, and so is a trigger during a scan. The order of the slots is that *)
(* of the first borrower's pins; here any order is one.                    *)
AdcTrigger(c) ==
  /\ c \in users["adc"]
  /\ IF powered["adc"] /\ converter.left = {}
     THEN converter' = [converter EXCEPT !.left = converter.slots, !.scan = (@ + 1) % Scans]
     ELSE UNCHANGED converter
  /\ sampled' = NoCall /\ UNCHANGED <<driver, hardware, history, mic>>

AdcConvert ==
  \E p \in converter.left :
    /\ converter' = [converter EXCEPT
         !.left = @ \ {p},
         !.fifo = IF Len(@) < Depth THEN Append(@, [pin |-> p, scan |-> converter.scan]) ELSE @,
         !.skewed = @ \/ Len(converter.fifo) = Depth]
    /\ sampled' = NoCall /\ UNCHANGED <<driver, hardware, history, mic>>

(* adc_get_sample reads as many samples as pins are asked for, once there  *)
(* are as many as slots, and sorts them by pin; those of other pins it     *)
(* drops. A client asks for no more pins than there are slots, or the code *)
(* ends in a loop when the queue is empty.                                 *)

Enough == Len(converter.fifo) >= Cardinality(slots)

(* Mutant: the sample of the first slot is not looked for. *)
FilledButFirst(asked, read) ==
  [p \in {q \in asked : \E i \in DOMAIN read \ {1} : read[i].pin = q} |->
     read[CHOOSE i \in DOMAIN read : read[i].pin = p].scan]

Filled(asked, read) ==
  [p \in {q \in asked : \E i \in DOMAIN read : read[i].pin = q} |->
     read[CHOOSE i \in DOMAIN read : read[i].pin = p /\ \A j \in DOMAIN read :
            read[j].pin = p => j <= i].scan]

GetSample(c, asked) ==
  /\ c \in users["adc"] /\ Cardinality(asked) <= Cardinality(slots)
  /\ IF Enough
     THEN LET n == Cardinality(asked)  fifo == converter.fifo IN
          /\ sampled' = [asked |-> asked, whole |-> asked = slots /\ ~converter.skewed,
                         got |-> Filled(asked, SubSeq(fifo, 1, n))]
          /\ converter' = [converter EXCEPT !.fifo = SubSeq(fifo, n + 1, Len(fifo)),
                                          !.skewed = @ \/ asked # slots]
     ELSE sampled' = NoCall /\ UNCHANGED converter
  /\ UNCHANGED <<driver, hardware, history, mic>>

-----------------------------------------------------------------------------
(* The buffers of the microphone. pdm_data_get clears the flag, then       *)
(* starts a transfer, whose end the interrupt handler turns into the flag  *)
(* that isPDMDataReady reads. A client asks for the next buffer when it    *)
(* has seen the flag of the last.                                          *)

(* Mutant: the flag is not cleared. *)
DataGetFlagged(c) ==
  /\ c \in users["pdm"] /\ powered["pdm"] /\ ~mic.getting /\ ~mic.waiting
  /\ mic' = [mic EXCEPT !.getting = TRUE]
  /\ UNCHANGED <<driver, hardware, history, samples>>

DataGet(c) ==
  /\ c \in users["pdm"] /\ powered["pdm"] /\ ~mic.getting /\ ~mic.waiting
  /\ mic' = [mic EXCEPT !.ready = FALSE, !.getting = TRUE]
  /\ UNCHANGED <<driver, hardware, history, samples>>

DmaStart ==
  /\ mic.getting
  /\ mic' = [mic EXCEPT !.getting = FALSE, !.waiting = TRUE, !.dma = "running", !.filled = FALSE]
  /\ UNCHANGED <<driver, hardware, history, samples>>

DmaDone ==
  /\ mic.dma = "running" /\ mic' = [mic EXCEPT !.dma = "done", !.filled = TRUE]
  /\ UNCHANGED <<driver, hardware, history, samples>>

am_pdm0_isr ==
  /\ mic.dma = "done" /\ irq["pdm"] /\ mic' = [mic EXCEPT !.dma = "none", !.ready = TRUE]
  /\ UNCHANGED <<driver, hardware, history, samples>>

isPDMDataReady ==
  /\ mic.waiting /\ mic.ready /\ mic' = [mic EXCEPT !.waiting = FALSE]
  /\ UNCHANGED <<driver, hardware, history, samples>>

-----------------------------------------------------------------------------
(* The program makes one call at a time, and puts to sleep what is awake:  *)
(* a peripheral is borrowed asleep and woken before it is used. The        *)
(* hardware and the handlers go on during a call.                          *)
Free == sleeping = "none" /\ ~mic.getting

Call(c, k) ==
  \/ \E want \in IF k = "adc" THEN (SUBSET AdcPin) \ {{}} ELSE {{}} : GetInstance(c, k, want)
  \/ Deinitialize(c, k) \/ Enable(c, k)
  \/ powered[k] /\ Sleep(c, k)

Use(c, k) ==
  \/ k = "uart" /\ \E n \in 1 .. Buffer : Write(c, n)
  \/ k = "adc" /\ (AdcTrigger(c) \/ \E asked \in (SUBSET AdcPin) \ {{}} : GetSample(c, asked))
  \/ k = "pdm" /\ (DataGet(c) \/ isPDMDataReady)

KindNext(k) ==
  \/ Free /\ \E c \in Client : Call(c, k) \/ Use(c, k)
  \/ SleepEnd(k)
  \/ k = "uart" /\ Drain
  \/ k = "adc" /\ AdcConvert
  \/ k = "pdm" /\ (DmaStart \/ DmaDone \/ am_pdm0_isr)

Next == \E k \in Kind : KindNext(k)

Spec == Init /\ [][Next]_vars

-----------------------------------------------------------------------------
(* Properties.                                                             *)

(* Every variable stays in its range; the UART queues what it has room for.*)
TypeOK ==
  /\ handle \in [Kind -> BOOLEAN] /\ refcount \in [Kind -> Nat]
  /\ slots \subseteq AdcPin /\ adcHandle \in {"null", "live", "stale"}
  /\ powered \in [Kind -> BOOLEAN] /\ saved \in [Kind -> BOOLEAN]
  /\ irq \in [Kind -> BOOLEAN]
  /\ pins \in [Kind -> SUBSET (AdcPin \cup {"TX", "RX", "DATA", "CLK"})]
  /\ queued \in 0 .. Buffer
  /\ users \in [Kind -> SUBSET Client] /\ failed \in BOOLEAN
  /\ converter.left \subseteq converter.slots /\ Len(converter.fifo) <= Depth
  /\ sleeping \in Kind \cup {"none"}

(* A handler only runs for a peripheral whose handle it has and which is   *)
(* on: none runs after the last borrower returned it, while it sleeps, or  *)
(* with the handle of an ADC released before. uart_sleep alone lets one    *)
(* run with the power off, between uart.c:98 and 106, where adc_sleep and  *)
(* pdm_sleep have disabled theirs; it then finds nothing left to send.     *)
HandlersServed ==
  \A k \in Kind : irq[k] => /\ handle[k]
                            /\ k = "adc" => adcHandle = "live"
                            /\ powered[k] \/ (k = "uart" /\ sleeping = k /\ queued = 0)

(* The count is the number of borrowers, and what nobody borrows is off,   *)
(* also when initialising the ADC failed for some of them.                 *)
CountsExact ==
  \A k \in Kind : /\ refcount[k] = Cardinality(users[k])
                  /\ users[k] = {} => ~handle[k] /\ ~powered[k]

(* A peripheral that is off has no pin connected to it, once its sleep is  *)
(* over; an initialisation of the ADC that fails leaves the pins it was    *)
(* asked for connected.                                                    *)
PinsOffAsleep ==
  \A k \in Kind : ~powered[k] /\ sleeping # k /\ ~failed => pins[k] = {}

(* adc_get_sample that finds samples fills every pin, each with a sample   *)
(* of the same scan, when asked for the pins the ADC was set up with, and  *)
(* if no sample was lost for want of room and no call asked for fewer.     *)
SamplesOfPins ==
  sampled.whole => /\ DOMAIN sampled.got = sampled.asked
                   /\ \A p, q \in sampled.asked : sampled.got[p] = sampled.got[q]

(* When isPDMDataReady says so after pdm_data_get, the buffer is full, and *)
(* no transfer goes on that overwrites it.                                 *)
BufferWhole == mic.waiting /\ mic.ready => mic.filled /\ mic.dma = "none"
=============================================================================
