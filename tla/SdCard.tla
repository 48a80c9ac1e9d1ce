------------------------------- MODULE SdCard -------------------------------
(***************************************************************************)
(* src/src/sd_card.c: commands, block reads and block writes of an SD card *)
(* in SPI mode, exchange by exchange, against a card that answers late,    *)
(* refuses, is garbled on the wire or is pulled out. A loop that only      *)
(* reads bytes until the card answers is one step, its outcome decided by  *)
(* the number of bytes it reads. A block of 512 bytes is one value, and a  *)
(* byte one of the few values the driver tells apart.                      *)
(***************************************************************************)
EXTENDS Integers, Sequences

CONSTANTS
  CardBlocks,   \* the capacity of the card, in blocks
  MaxBlocks,    \* bound: blocks per call
  Word,         \* 2^32 in the code: block and size arithmetic wraps here
  CommandReads, \* bytes sd_card_command_result reads for R1 after the first: 7
  Timeout,      \* milliseconds to wait for a block: 100
  Conditions    \* the adverse conditions the driver is run under

(* A card may stream on when it is deselected in the middle of a transfer, *)
(* may leave its output low (without power), and may take one byte more to *)
(* respond than the driver listens; the uptime may be beyond 2^32 ms.      *)
Adversities == {"streams", "low", "slow", "late"}

ASSUME SdAssumption ==
  /\ CardBlocks \in Nat \ {0} /\ MaxBlocks \in Nat \ {0} /\ Word \in Nat \ {0}
  /\ CommandReads \in Nat \ {0} /\ Timeout \in Nat \ {0}
  /\ Conditions \subseteq SUBSET Adversities

Blocks == 0 .. CardBlocks - 1
Silence == 255         \* MISO idles high
StartToken == 254
Junk == -1             \* a block damaged on the wire, or never read

VARIABLES
  pc,       \* the next exchange of the driver
  call,     \* the call being served: operation, first block, blocks
  i,        \* blocks transferred so far
  buffer,   \* what a read has stored
  result,   \* what the last call returned
  elapsed,  \* milliseconds since the wait for a block began (capped)
  cs,       \* is the card selected (chip select low)
  card,     \* its state: "ready", "sending", "receiving", "gone" or "low"
  next,     \* the block it sends or receives next, and
  many,     \* whether it goes on after that one
  busy,     \* is it programming
  answer,   \* its response to the last command: [r1, delay]
  media,    \* what it stores
  adverse   \* the conditions of this run, from the start

driver == <<pc, call, i, buffer, result, elapsed, cs>>
device == <<card, next, many, busy, answer, media, adverse>>
vars == <<driver, device>>

NoCall == [op |-> "none", block |-> 0, n |-> 0]
Written(k) == CardBlocks + k    \* the k-th block of the data of a write call

Init ==
  /\ pc = "idle" /\ call = NoCall /\ i = 0 /\ buffer = <<>> /\ result = Silence
  /\ elapsed = 0 /\ cs = FALSE
  /\ card = "ready" /\ next = 0 /\ many = FALSE /\ busy = FALSE
  /\ answer = [r1 |-> Silence, delay |-> 1]
  /\ media = [b \in Blocks |-> b]
  /\ adverse \in Conditions

-----------------------------------------------------------------------------
(* The card (external): an SD card in SPI mode as sd_card.c expects it.    *)

(* It takes a command when it is ready, or when the command stops what it  *)
(* is doing; it refuses blocks it does not have, and may refuse any        *)
(* command (a CRC error, say). A card that is still streaming a read sends *)
(* data where the driver looks for a response.                             *)
MaxDelay == IF "slow" \in adverse THEN CommandReads + 1 ELSE CommandReads

CardTakes(op, block, n) ==
  \E delay \in 1 .. MaxDelay :
    \/ /\ card = "ready" /\ op \in {"read", "write"} /\ block \in Blocks
       /\ card' = IF op = "read" THEN "sending" ELSE "receiving"
       /\ next' = block /\ many' = (n # 1)
       /\ answer' = [r1 |-> 0, delay |-> delay]
    \/ /\ card = "ready"
       /\ answer' = [r1 |-> 4, delay |-> delay] /\ UNCHANGED <<card, next, many>>
    \/ /\ card = "ready" /\ op = "command"
       /\ answer' = [r1 |-> 0, delay |-> delay] /\ UNCHANGED <<card, next, many>>
    \/ /\ card = "sending" /\ op = "stop"
       /\ card' = "ready" /\ UNCHANGED <<next, many>>
       /\ answer' = [r1 |-> 0, delay |-> delay]
    \/ /\ card = "sending" /\ op # "stop"
       /\ answer' \in [r1 : {0, 4, Silence}, delay : {delay}]
       /\ UNCHANGED <<card, next, many>>
    \/ /\ card = "low"
       /\ answer' = [r1 |-> 0, delay |-> 1] /\ UNCHANGED <<card, next, many>>
    \/ /\ card \in {"receiving", "gone"}
       /\ answer' = [r1 |-> Silence, delay |-> delay]
       /\ UNCHANGED <<card, next, many>>

CardFinishes == busy /\ busy' = FALSE /\ UNCHANGED <<driver, card, next, many,
                                                    answer, media, adverse>>
CardFails ==
  /\ card \notin {"gone", "low"}
  /\ card' \in {"gone"} \cup (IF "low" \in adverse THEN {"low"} ELSE {})
  /\ busy' = FALSE
  /\ UNCHANGED <<driver, next, many, answer, media, adverse>>

Tick ==
  /\ pc = "token" /\ elapsed < Timeout
  /\ elapsed' = elapsed + 1
  /\ UNCHANGED <<pc, call, i, buffer, result, cs, device>>

-----------------------------------------------------------------------------
(* Shared pieces of the driver.                                            *)

(* Mutant: the address is given in bytes (two to a block, here). *)
BeginByteAddress(op, block, n) ==
  cs' = TRUE /\ CardTakes(op, (2 * block) % Word, n)

(* begin_transaction: the command goes out with chip select left low. *)
Begin(op, block, n) == cs' = TRUE /\ CardTakes(op, block, n)

(* Chip select goes high: spi_device_toggle, a clock for the card to finish. *)
Toggle ==
  /\ cs' = FALSE
  /\ card' = IF card \in {"sending", "receiving"} /\ "streams" \notin adverse
             THEN "ready" ELSE card

Return(r) == pc' = "idle" /\ result' = r

(* terminate: of sd_card_read_blocks and sd_card_write_blocks. *)
Terminate(r) ==
  /\ Return(r) /\ Toggle
  /\ UNCHANGED <<call, i, buffer, elapsed, next, many, busy, answer, media, adverse>>

(* The check of both functions, in wrapping arithmetic, and one block too  *)
(* lenient: block + blocks - 1 > sd_card->blocks.                          *)
OutOfRange(block, n) == (block + n - 1) % Word > CardBlocks

-----------------------------------------------------------------------------
(* sd_card_read_blocks, sd_card_write_blocks and sd_card_command.          *)

Start(op, block, n) ==
  /\ pc = "idle"
  /\ call' = [op |-> op, block |-> block, n |-> n]
  /\ i' = 0 /\ buffer' = [k \in 1 .. n |-> Junk] /\ elapsed' = 0
  /\ \/ /\ n = 0 \/ OutOfRange(block, n)
        /\ result' = (IF n = 0 THEN 0 ELSE 255)
        /\ UNCHANGED <<pc, cs, device>>
     \/ /\ n > 0 /\ ~OutOfRange(block, n)
        /\ pc' = "r1" /\ result' = Silence
        /\ Begin(op, block, n)
        /\ UNCHANGED <<busy, media, adverse>>

StartCommand ==
  /\ pc = "idle"
  /\ call' = [op |-> "command", block |-> 0, n |-> 0] /\ i' = 0 /\ buffer' = <<>>
  /\ elapsed' = 0
  /\ pc' = "command" /\ result' = Silence
  /\ Begin("command", 0, 0)
  /\ UNCHANGED <<busy, media, adverse>>

(* sd_card_command_result, also for the CMD12 that ends a read of several  *)
(* blocks: the first byte is discarded, and a response that is not among   *)
(* the next CommandReads is taken for silence, which returns at once, with *)
(* chip select still low.                                                  *)
Heard == answer.r1 # Silence /\ answer.delay <= CommandReads

CommandResult ==
  /\ pc = "command"
  /\ IF Heard THEN Return(answer.r1) /\ Toggle
              ELSE Return(Silence) /\ UNCHANGED <<cs, card>>
  /\ UNCHANGED <<call, i, buffer, elapsed, next, many, busy, answer, media, adverse>>

(* get_R1 reads up to 80 bytes, more than any card takes. *)
GetR1 ==
  /\ pc = "r1"
  /\ \/ answer.r1 # 0 /\ Terminate(answer.r1)
     \/ /\ answer.r1 = 0
        /\ pc' = IF call.op = "read" THEN "token" ELSE "send"
        /\ elapsed' = 0
        /\ UNCHANGED <<call, i, buffer, result, cs, device>>

(* One byte of the wait for a block: what the card has to say now.         *)
Bytes ==
  CASE card = "low" -> {0}
    [] card = "sending" -> IF next \in Blocks THEN {StartToken, Silence}
                                              ELSE {8, Silence}
    [] OTHER -> {Silence}

(* Mutant: the wait for a block has no limit. *)
TimeLeftAlways == TRUE

(* systick_jiffies() - start < 100, where start has kept only 32 bits of   *)
(* the time at which the wait began: late, the difference is 2^32 or more. *)
TimeLeft == "late" \notin adverse /\ elapsed < Timeout

PollToken ==
  /\ pc = "token"
  /\ \E byte \in Bytes :
       \/ /\ byte = StartToken /\ pc' = "data"
          /\ UNCHANGED <<call, i, buffer, result, elapsed, cs, device>>
       \/ /\ byte # StartToken /\ ~TimeLeft
          /\ Terminate(byte)
       \/ byte # StartToken /\ TimeLeft /\ UNCHANGED vars

(* Mutant: every block is stored at the start of the buffer. *)
StoreAtStart(data) == buffer' = [buffer EXCEPT ![1] = data]
Store(data) == buffer' = [buffer EXCEPT ![i + 1] = data]

(* Mutant: the card is never told to stop sending. *)
EndReadUnstopped ==
  /\ Return(0) /\ Toggle /\ UNCHANGED <<next, many, answer>>

(* After the last block: CMD12 if there were several, else nothing more. *)
EndRead ==
  \/ /\ call.n = 1 /\ Return(0) /\ cs' = FALSE
     /\ card' = IF card = "sending" /\ ~(many /\ "streams" \in adverse)
                THEN "ready" ELSE card
     /\ UNCHANGED <<next, many, answer>>
  \/ /\ call.n # 1 /\ pc' = "command" /\ UNCHANGED result
     /\ Begin("stop", 0, 0)

(* The block and its CRC: damage on the wire is noticed, but a line stuck  *)
(* low reads as a block of zeros, whose CRC is zero as well.               *)
ReadBlock ==
  /\ pc = "data"
  /\ \/ card # "low" /\ Terminate(255)
     \/ /\ card = "low" \/ (card = "sending" /\ next \in Blocks)
        /\ Store(IF card = "low" THEN Junk ELSE media[next])
        /\ i' = i + 1 /\ elapsed' = 0
        /\ IF i + 1 < call.n
           THEN /\ pc' = "token" /\ UNCHANGED <<result, cs, card, many, answer>>
                /\ next' = IF card = "low" THEN next ELSE next + 1
           ELSE EndRead
        /\ UNCHANGED <<call, busy, media, adverse>>

-----------------------------------------------------------------------------
(* A block goes out with its token and CRC, and the card answers: accepted *)
(* (and stored), refused (a CRC or write error), or not to be understood.  *)
(* A card that is still sending may send what looks like acceptance.       *)
SendBlock ==
  /\ pc = "send"
  /\ \/ /\ card = "receiving" /\ next \in Blocks
        /\ media' = [media EXCEPT ![next] = Written(i)]
        /\ next' = next + 1 /\ busy' = TRUE
        /\ card' = IF many THEN card ELSE "ready"
        /\ i' = i + 1 /\ pc' = "busy"
        /\ UNCHANGED <<call, buffer, result, elapsed, cs, many, answer, adverse>>
     \/ /\ card = "receiving"
        /\ IF call.n # 1
           THEN pc' = "stopFailed" /\ UNCHANGED <<result, cs, card>>
           ELSE Return(255) /\ Toggle
        /\ UNCHANGED <<call, i, buffer, elapsed, next, many, busy, answer, media, adverse>>
     \/ /\ card = "sending"
        /\ i' = i + 1 /\ pc' = "busy"
        /\ UNCHANGED <<call, buffer, result, elapsed, cs, device>>
     \/ Terminate(255)

(* Neither wait for a busy card has a limit. *)
StuckBusy == card = "low"
WaitOn == pc \in {"busy", "stopped", "failed"} /\ StuckBusy /\ UNCHANGED vars

(* Mutant: one block too many is sent. *)
WaitWrittenOneMore ==
  /\ pc = "busy" /\ ~busy /\ ~StuckBusy
  /\ \/ /\ i <= call.n /\ pc' = "send"
        /\ UNCHANGED <<call, i, buffer, result, elapsed, cs, device>>
     \/ i > call.n /\ Terminate(0)

(* Polling until the card is no longer busy, then the next block, the stop *)
(* token, or the end.                                                      *)
WaitWritten ==
  /\ pc = "busy" /\ ~busy /\ ~StuckBusy
  /\ \/ /\ i < call.n /\ pc' = "send"
        /\ UNCHANGED <<call, i, buffer, result, elapsed, cs, device>>
     \/ /\ i = call.n /\ call.n # 1 /\ pc' = "stopped"
        /\ card' = IF card = "receiving" THEN "ready" ELSE card
        /\ busy' = (card = "receiving")
        /\ UNCHANGED <<call, i, buffer, result, elapsed, cs, next, many, answer,
                       media, adverse>>
     \/ i = call.n /\ call.n = 1 /\ Terminate(0)

(* send_stop_and_wait after a refused block. *)
StopFailed ==
  /\ pc = "stopFailed"
  /\ pc' = "failed"
  /\ card' = IF card = "receiving" THEN "ready" ELSE card
  /\ busy' = (card = "receiving")
  /\ UNCHANGED <<call, i, buffer, result, elapsed, cs, next, many, answer, media,
                 adverse>>

WaitStopped ==
  /\ pc \in {"stopped", "failed"} /\ ~busy /\ ~StuckBusy
  /\ Terminate(IF pc = "stopped" THEN 0 ELSE 255)

-----------------------------------------------------------------------------
Driver ==
  \/ CommandResult \/ GetR1 \/ PollToken \/ ReadBlock
  \/ SendBlock \/ WaitWritten \/ WaitOn \/ StopFailed \/ WaitStopped

Next ==
  \/ \E op \in {"read", "write"}, block \in 0 .. Word - 1, n \in 0 .. MaxBlocks :
        Start(op, block, n)
  \/ StartCommand
  \/ Driver
  \/ CardFinishes \/ CardFails \/ Tick

(* The processor runs, the timer ticks and a card finishes programming. *)
Spec == /\ Init /\ [][Next]_vars
        /\ WF_vars(Driver) /\ WF_vars(Tick) /\ WF_vars(CardFinishes)

-----------------------------------------------------------------------------
(* Properties.                                                             *)

(* Every variable stays in its range. *)
TypeOK ==
  /\ pc \in {"idle", "command", "r1", "token", "data", "send", "busy",
             "stopped", "stopFailed", "failed"}
  /\ call \in [op : {"none", "read", "write", "command"},
               block : 0 .. Word - 1, n : 0 .. MaxBlocks]
  /\ i \in 0 .. MaxBlocks
  /\ buffer \in Seq(Int) /\ Len(buffer) <= MaxBlocks
  /\ result \in 0 .. 255
  /\ elapsed \in 0 .. Timeout
  /\ cs \in BOOLEAN /\ busy \in BOOLEAN /\ many \in BOOLEAN
  /\ card \in {"ready", "sending", "receiving", "gone", "low"}
  /\ next \in 0 .. CardBlocks
  /\ answer \in [r1 : {0, 4, Silence}, delay : 1 .. MaxDelay]
  /\ media \in [Blocks -> 0 .. CardBlocks + MaxBlocks - 1]

Obedient == adverse \cap {"streams", "low"} = {}

(* A read that returns 0 delivered the blocks it was asked for, all of     *)
(* them and in order, whatever was damaged, refused or late before. It     *)
(* takes a card that stops when it is deselected, since a read that fails  *)
(* sends no CMD12, and a line that is not stuck low, which reads as 0.     *)
ReadExact ==
  pc = "idle" /\ call.op = "read" /\ result = 0 /\ Obedient =>
    \A k \in 1 .. call.n :
      call.block + k - 1 \in Blocks /\ buffer[k] = media[call.block + k - 1]

(* A write that returns 0 had every block accepted by the card, in order.  *)
WriteComplete ==
  pc = "idle" /\ call.op = "write" /\ result = 0 /\ Obedient =>
    \A k \in 1 .. call.n :
      call.block + k - 1 \in Blocks /\ media[call.block + k - 1] = Written(k - 1)

(* A successful call of either kind did what it was asked to.              *)
TransfersExact == ReadExact /\ WriteComplete

(* The card's contents change only where the write call in progress says,  *)
(* block after block, under every adversity: no read, command or failed    *)
(* call alters anything.                                                   *)
WritesOnlyAsked ==
  [][media' # media =>
       /\ call.op = "write" /\ i' = i + 1
       /\ media' = [media EXCEPT ![call.block + i] = Written(i)]]_vars

(* A call that succeeds has ended its transfer: it leaves no card waiting  *)
(* for more data, or sending it, that only deselection would stop.         *)
TransferEnded ==
  [][pc # "idle" /\ pc' = "idle" /\ result' = 0 /\ Obedient =>
       ~(many /\ card \in {"sending", "receiving"})]_vars

(* Every call returns: no answer, busy card or timeout blocks it forever,  *)
(* unless the line is stuck low.                                           *)
CallsReturn == pc # "idle" /\ "low" \notin adverse ~> pc = "idle"

(* Between calls the card is not selected, so that the next call begins    *)
(* with a falling edge of chip select. A command without an answer returns *)
(* before it gets there.                                                   *)
Deselected == pc = "idle" => ~cs
=============================================================================
