------------------------------- MODULE SdInit -------------------------------
(***************************************************************************)
(* sd_card_init of src/src/sd_card.c, command by command, for the kinds of *)
(* card there are: version 1, version 2 of standard and of high capacity,  *)
(* and cards for another voltage. Cards are pulled out and put in again at *)
(* any time, and any answer may be damaged on the wire.                    *)
(***************************************************************************)
EXTENDS Integers

CONSTANT Cards  \* the cards that may be put in

(* v1: knows no CMD8; high: high capacity; volts: works at 2.7 to 3.6 V;   *)
(* size: its capacity in units of 1024 blocks; csize: the bits of its CSD  *)
(* where a card of high capacity has that number, less one. Capacities     *)
(* above the standard one came with version 2.                             *)
CardKinds == [v1 : BOOLEAN, high : BOOLEAN, volts : BOOLEAN, size : Nat, csize : Nat]
ASSUME SdInitAssumption ==
  /\ Cards \subseteq CardKinds
  /\ \A c \in Cards : c.high => ~c.v1 /\ c.size = c.csize + 1

NoCard == [v1 |-> FALSE, high |-> FALSE, volts |-> FALSE, size |-> 0, csize |-> 0]
NoByte == 255
Unset == -1            \* sd_card->blocks before anything is stored in it
NoAnswer == [r1 |-> NoByte, good |-> FALSE]

VARIABLES
  step,     \* the next command of the driver
  status,   \* what sd_card_init returned last
  blocks,   \* sd_card->blocks
  clock,    \* the clock of the SPI device, in Hz
  inserted, \* the card in the slot, and
  state     \* its state: "absent", "native" (not in SPI mode), "idle", "ready"

setupVars == <<step, status, blocks, clock, inserted, state>>
slot == <<inserted, state>>

SetupInit ==
  /\ step = "off" /\ status = NoByte /\ blocks = Unset /\ clock = 0
  /\ inserted = NoCard /\ state = "absent"

-----------------------------------------------------------------------------
(* The card (external).                                                    *)

Insert == /\ state = "absent" /\ state' = "native" /\ inserted' \in Cards
          /\ UNCHANGED <<step, status, blocks, clock>>
Remove == /\ state # "absent" /\ state' = "absent" /\ inserted' = NoCard
          /\ UNCHANGED <<step, status, blocks, clock>>

(* A card in SPI mode answers with R1 and, to a command that asks for it,  *)
(* with data that is as expected (good) or not. Damage, or a card that is  *)
(* not there, shows as silence.                                            *)
Answers(r1, good) ==
  {NoAnswer} \cup (IF state \in {"idle", "ready"} THEN {[r1 |-> r1, good |-> good]}
                                                  ELSE {})
InIdle == IF state = "idle" THEN 1 ELSE 0

-----------------------------------------------------------------------------
(* The driver.                                                             *)

Give(r) == step' = "off" /\ status' = r
Fail(r) == Give(r) /\ UNCHANGED <<blocks, clock, slot>>
Go(to) == step' = to /\ UNCHANGED <<status, blocks, clock, slot>>

(* Mutant: the clock of an earlier card is kept. *)
CallFast == step = "off" /\ step' = "cmd0" /\ clock' = (IF clock = 0 THEN 100000 ELSE clock)
            /\ UNCHANGED <<status, blocks, slot>>

(* The call, at 100 kHz and with 80 clocks to wake the card up, or without *)
(* a running system timer.                                                 *)
Call ==
  /\ step = "off"
  /\ \/ Fail(255)
     \/ /\ step' = "cmd0" /\ clock' = 100000 /\ UNCHANGED <<status, blocks, slot>>

(* CMD0 takes the card into SPI mode and into the idle state. *)
Reset ==
  /\ step = "cmd0"
  /\ \/ Fail(NoByte)
     \/ /\ state # "absent" /\ state' = "idle" /\ step' = "cmd8"
        /\ UNCHANGED <<status, blocks, clock, inserted>>

(* CMD8: version 1 cards refuse it. The voltage and the check pattern come *)
(* back; only an answer in which both are wrong is rejected.               *)
Rejected(volts, pattern) == ~pattern /\ ~volts

Interface ==
  /\ step = "cmd8"
  /\ \E a \in Answers(IF inserted.v1 THEN 5 ELSE 1, inserted.volts) :
       \E pattern \in BOOLEAN :
         \/ a.r1 = 5 /\ Go("ocr1")
         \/ a.r1 \notin {1, 5} /\ Fail(a.r1)
         \/ a.r1 = 1 /\ Rejected(a.good, pattern) /\ Fail(255)
         \/ a.r1 = 1 /\ ~Rejected(a.good, pattern) /\ Go("ocr2")

(* Mutant: the voltage range of the card is not looked at. *)
VoltageUnread ==
  /\ step \in {"ocr1", "ocr2"}
  /\ \E a \in Answers(InIdle, inserted.volts) :
       \/ a.r1 # 1 /\ Fail(a.r1)
       \/ a.r1 = 1 /\ Go(IF step = "ocr1" THEN "acmd1" ELSE "acmd2")

(* CMD58: the operating conditions must cover the whole of 2.7 to 3.6 V. *)
Voltage ==
  /\ step \in {"ocr1", "ocr2"}
  /\ \E a \in Answers(InIdle, inserted.volts) :
       \/ a.r1 # 1 /\ Fail(a.r1)
       \/ a.r1 = 1 /\ ~a.good /\ Fail(255)
       \/ a.r1 = 1 /\ a.good /\ Go(IF step = "ocr1" THEN "acmd1" ELSE "acmd2")

(* CMD55 and CMD41, repeated for as long as the card says it is idle; the  *)
(* answer to CMD55 is ignored. A version 1 card is done after that, its    *)
(* size never read.                                                        *)
Operate ==
  /\ step \in {"acmd1", "acmd2"}
  /\ \/ Fail(NoByte)
     \/ /\ state = "idle" /\ UNCHANGED setupVars
     \/ /\ state \in {"idle", "ready"}
        /\ state' = "ready" /\ UNCHANGED inserted
        /\ \/ step = "acmd1" /\ Give(0) /\ clock' = 25000000 /\ UNCHANGED blocks
           \/ step = "acmd2" /\ step' = "ccs" /\ UNCHANGED <<status, blocks, clock>>

(* CMD58 again: the card must have powered up; CCS is read and not used. *)
Powered ==
  /\ step = "ccs"
  /\ \E a \in Answers(InIdle, state = "ready") :
       \/ a.r1 # 0 /\ Fail(a.r1)
       \/ a.r1 = 0 /\ ~a.good /\ Fail(255)
       \/ a.r1 = 0 /\ a.good /\ Go("csd")

(* The bits of the CSD where a card of high capacity has its size. *)
Size(c) == (c.csize + 1) * 1024

(* CMD9 twice, the first answer unused: the CSD behind a start token, its  *)
(* CRC checked, and the size taken from it.                                *)
ReadCsd ==
  /\ step = "csd"
  /\ \E a \in Answers(InIdle, TRUE) :
       \/ a.r1 # 0 /\ Fail(a.r1)
       \/ a.r1 = 0 /\ Fail(255)
       \/ /\ a.r1 = 0
          /\ Give(0) /\ blocks' = Size(inserted) /\ UNCHANGED <<clock, slot>>

-----------------------------------------------------------------------------
SetupDriver == Reset \/ Interface \/ Voltage \/ Operate \/ Powered \/ ReadCsd
SetupNext == Call \/ SetupDriver \/ Insert \/ Remove

(* The processor runs, and a card asked often enough leaves the idle state.*)
SetupSpec == SetupInit /\ [][SetupNext]_setupVars /\ WF_setupVars(SetupDriver)

-----------------------------------------------------------------------------
(* Properties.                                                             *)

(* Every variable stays in its range. *)
SetupTypeOK ==
  /\ step \in {"off", "cmd0", "cmd8", "ocr1", "ocr2", "acmd1", "acmd2", "ccs", "csd"}
  /\ status \in {0, 1, 5, 255}
  /\ blocks \in Int /\ clock \in {0, 100000, 25000000}
  /\ inserted \in Cards \cup {NoCard} /\ state \in {"absent", "native", "idle", "ready"}

(* A call that reports success leaves a card that is ready, works at the   *)
(* voltage of the board: no card swapped in between is taken for one that  *)
(* went through the sequence. If it is one of high capacity, which the     *)
(* driver supports, its size is known.                                     *)
SuccessMeansReady ==
  [][step # "off" /\ step' = "off" /\ status' = 0 =>
       /\ state' = "ready" /\ inserted'.volts
       /\ inserted.high => blocks' = inserted.size * 1024]_setupVars

(* Until the card is ready it is clocked at 100 kHz. *)
SlowUntilReady == step # "off" /\ state \in {"native", "idle"} => clock = 100000

(* The call returns, whatever is put in or pulled out meanwhile. *)
InitReturns == step # "off" ~> step = "off"
=============================================================================
