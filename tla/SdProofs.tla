------------------------------ MODULE SdProofs ------------------------------
(***************************************************************************)
(* Proofs about the SD card. Of SdCard: what a call of the driver that     *)
(* succeeds has done, and what no call ever does to the contents of the    *)
(* card. Of SdInit: what sd_card_init knows of the card in the slot,       *)
(* although cards may be swapped between any two of its commands.          *)
(***************************************************************************)
EXTENDS MCSd, SequenceTheorems, TLAPS

SdTypes ==
  /\ call \in [op : {"none", "read", "write", "command"}, block : Nat, n : Nat]
  /\ i \in Nat /\ next \in Nat /\ media \in [Blocks -> Int]
  /\ call.op = "read" => buffer \in [1 .. call.n -> Int]
  /\ pc \in {"idle", "command", "r1", "token", "data", "send", "busy", "stopped",
             "stopFailed", "failed"}
  /\ card \in {"ready", "sending", "receiving", "gone", "low"}

(* What the program counter says about the call and its progress.          *)
Phase ==
  /\ pc = "r1" => call.op \in {"read", "write"} /\ i = 0 /\ call.n > 0
  /\ pc \in {"token", "data"} => call.op = "read" /\ i < call.n
  /\ pc = "command" => call.op = "command" \/ (call.op = "read" /\ i = call.n)
  /\ pc \in {"send", "busy", "stopped", "stopFailed", "failed"} => call.op = "write"
  /\ pc = "send" => i < call.n
  /\ pc = "busy" => i <= call.n
  /\ pc = "stopped" => i = call.n

(* Under every adversity a card that receives in the middle of a call does *)
(* so for that call, at the block that the driver has come to.             *)
Aimed ==
  /\ pc = "r1" /\ answer.r1 = 0 /\ card = "receiving" =>
       call.op = "write" /\ next = call.block
  /\ pc \in {"send", "busy"} /\ card = "receiving" => next = call.block + i
  /\ pc = "stopped" => card # "receiving"

(* An obedient card is found ready by each call, and in step with it.      *)
InStep ==
  /\ card # "low"
  /\ pc \in {"idle", "command"} => card \in {"ready", "gone"}
  /\ pc \in {"r1", "token", "data"} /\ call.op = "read" => card # "receiving"
  /\ call.op = "write" => card # "sending"
  /\ card = "sending" => next = call.block + i
  /\ pc # "idle" /\ card \in {"sending", "receiving"} => many = (call.n # 1)

Delivered ==
  \A k \in 1 .. i : /\ call.block + k - 1 \in Blocks
                    /\ buffer[k] = media[call.block + k - 1]
Stored ==
  \A k \in 1 .. i : /\ call.block + k - 1 \in Blocks
                    /\ media[call.block + k - 1] = Written(k - 1)

Progress ==
  /\ call.op = "read" /\ pc # "idle" => Delivered
  /\ call.op = "write" /\ pc # "idle" => Stored

SdInv ==
  /\ SdTypes /\ Phase /\ Aimed
  /\ Obedient => InStep /\ Progress
  /\ TransfersExact

USE SdAssumption

LEMMA SdInitial == Init => SdInv
<1> SUFFICES ASSUME Init PROVE SdInv
  OBVIOUS
<1>1. SdTypes
  BY DEF Init, SdTypes, NoCall, Blocks
<1>2. Phase /\ Aimed /\ InStep /\ Progress /\ TransfersExact
  BY DEF Init, Phase, Aimed, InStep, Progress, NoCall, TransfersExact, ReadExact, WriteComplete
<1> QED BY <1>1, <1>2 DEF SdInv

LEMMA SdStutter == SdInv /\ UNCHANGED vars => SdInv'
BY DEF vars, driver, device, SdInv, SdTypes, Phase, Aimed, InStep, Progress, Delivered, Stored,
       TransfersExact, ReadExact, WriteComplete, Obedient

(* What a card may do with a command.                                      *)
LEMMA Taken ==
  ASSUME NEW op, NEW block, NEW n, CardTakes(op, block, n)
  PROVE  \/ /\ card = "ready" /\ op \in {"read", "write"}
            /\ card' = IF op = "read" THEN "sending" ELSE "receiving"
            /\ next' = block /\ many' = (n # 1)
         \/ card = "sending" /\ op = "stop" /\ card' = "ready" /\ next' = next
         \/ /\ card' = card /\ next' = next /\ many' = many /\ (card = "sending" => op # "stop")
            /\ card = "receiving" => answer'.r1 # 0
BY DEF CardTakes, Silence

(* The end of a call: what it has done holds if it succeeded, and deselec- *)
(* tion leaves an obedient card ready.                                     *)
LEMMA Ended ==
  ASSUME SdInv, NEW r, Return(r), UNCHANGED <<call, i, next, media, adverse, buffer>>,
         card' = card \/ card' = "ready",
         Obedient => card' \in {"ready", "gone"},
         r = 0 /\ Obedient => \/ call.op = "read" /\ Delivered /\ i = call.n
                              \/ call.op = "write" /\ Stored /\ i = call.n
                              \/ call.op = "command"
  PROVE  SdInv'
<1>1. SdTypes' /\ Phase' /\ Aimed'
  BY DEF Return, SdInv, SdTypes, Phase, Aimed
<1>2. Obedient' => Obedient /\ InStep'
  BY DEF Return, Obedient, InStep
<1>3. Progress'
  BY DEF Return, Progress
<1>4. TransfersExact'
  BY DEF Return, TransfersExact, ReadExact, WriteComplete, Delivered, Stored, Obedient
<1> QED BY <1>1, <1>2, <1>3, <1>4 DEF SdInv

LEMMA Toggled ==
  ASSUME SdInv, Toggle
  PROVE  /\ card' = card \/ card' = "ready"
         /\ Obedient => card' \in {"ready", "gone"}
BY DEF SdInv, SdTypes, Toggle, Obedient, InStep

LEMMA TerminateStep ==
  ASSUME SdInv, NEW r, Terminate(r),
         r = 0 /\ Obedient => call.op = "write" /\ Stored /\ i = call.n
  PROVE  SdInv'
BY Toggled, Ended DEF Terminate

-----------------------------------------------------------------------------
(* A call begins: what came before left an obedient card ready.            *)
LEMMA StartStep ==
  ASSUME SdInv, NEW op \in {"read", "write"}, NEW block \in 0 .. Word - 1,
         NEW n \in 0 .. MaxBlocks, Start(op, block, n)
  PROVE  SdInv'
<1>1. /\ pc = "idle" /\ i' = 0 /\ block \in Nat /\ n \in Nat
      /\ call' = [op |-> op, block |-> block, n |-> n]
      /\ buffer' = [k \in 1 .. n |-> Junk] /\ UNCHANGED <<media, adverse>>
  BY DEF Start, device
<1>2. call' \in [op : {"none", "read", "write", "command"}, block : Nat, n : Nat]
  BY <1>1
<1>3. buffer' \in [1 .. call'.n -> Int]
  BY <1>1 DEF Junk
<1>4. Delivered' /\ Stored'
  BY <1>1 DEF Delivered, Stored
<1>5. CASE (n = 0 \/ OutOfRange(block, n)) /\ result' = (IF n = 0 THEN 0 ELSE 255)
           /\ UNCHANGED <<pc, cs, device>>
  <2>1. SdTypes' /\ Phase' /\ Aimed'
    BY <1>1, <1>2, <1>3, <1>5 DEF SdInv, SdTypes, Phase, Aimed, device
  <2>2. Obedient' => InStep' /\ Progress'
    BY <1>1, <1>4, <1>5 DEF SdInv, InStep, Progress, Obedient, device
  <2>3. n = 0 \/ result' # 0
    BY <1>5
  <2>4. TransfersExact'
    BY <1>1, <2>3 DEF TransfersExact, ReadExact, WriteComplete
  <2> QED BY <2>1, <2>2, <2>4 DEF SdInv
<1>6. CASE n > 0 /\ pc' = "r1" /\ CardTakes(op, block, n)
  <2>1. \/ /\ card = "ready" /\ card' = IF op = "read" THEN "sending" ELSE "receiving"
           /\ next' = block /\ many' = (n # 1)
        \/ card' = card /\ next' = next /\ many' = many /\ (card = "receiving" => answer'.r1 # 0)
    BY <1>6, Taken
  <2>2. SdTypes'
    BY <1>1, <1>2, <1>3, <1>6, <2>1 DEF SdInv, SdTypes
  <2>3. Phase' /\ Aimed'
    BY <1>1, <1>6, <2>1 DEF Phase, Aimed
  <2>4. Obedient' => InStep' /\ Progress'
    BY <1>1, <1>4, <1>6, <2>1 DEF SdInv, InStep, Progress, Obedient
  <2>5. TransfersExact'
    BY <1>6 DEF TransfersExact, ReadExact, WriteComplete
  <2> QED BY <2>2, <2>3, <2>4, <2>5 DEF SdInv
<1> QED BY <1>5, <1>6 DEF Start, Begin

LEMMA StartCommandStep == ASSUME SdInv, StartCommand PROVE SdInv'
<1>1. /\ pc = "idle" /\ i' = 0 /\ pc' = "command"
      /\ call' = [op |-> "command", block |-> 0, n |-> 0]
      /\ UNCHANGED <<media, adverse>> /\ CardTakes("command", 0, 0)
  BY DEF StartCommand, Begin
<1>2. card' = card /\ next' = next /\ many' = many
  BY <1>1, Taken
<1>3. SdTypes' /\ Phase' /\ Aimed'
  BY <1>1, <1>2 DEF SdInv, SdTypes, Phase, Aimed
<1>4. Obedient' => InStep' /\ Progress'
  BY <1>1, <1>2 DEF SdInv, InStep, Progress, Obedient
<1>5. TransfersExact'
  BY <1>1 DEF TransfersExact, ReadExact, WriteComplete
<1> QED BY <1>3, <1>4, <1>5 DEF SdInv

(* A command that is answered ends with deselection; one that is not, and  *)
(* is not successful, with the card ready or gone as it was.               *)
LEMMA CommandResultStep == ASSUME SdInv, CommandResult PROVE SdInv'
<1>1. /\ pc = "command" /\ UNCHANGED <<call, i, next, media, adverse, buffer>>
      /\ \/ Return(answer.r1) /\ Toggle
         \/ Return(Silence) /\ card' = card
  BY DEF CommandResult
<1>2. Obedient => InStep /\ Progress
  BY DEF SdInv
<1>3. Obedient => \/ call.op = "read" /\ Delivered /\ i = call.n
                  \/ call.op = "command"
  BY <1>1, <1>2 DEF SdInv, Phase, Progress
<1>4. CASE Return(answer.r1) /\ Toggle
  BY <1>1, <1>3, <1>4, Toggled, Ended
<1>5. CASE Return(Silence) /\ card' = card
  <2>1. Silence # 0 /\ (Obedient => card' \in {"ready", "gone"})
    BY <1>1, <1>2, <1>5 DEF Silence, InStep
  <2> QED BY <1>1, <1>3, <1>5, <2>1, Ended
<1> QED BY <1>1, <1>4, <1>5

LEMMA GetR1Step == ASSUME SdInv, GetR1 PROVE SdInv'
<1>1. CASE answer.r1 # 0 /\ Terminate(answer.r1)
  BY <1>1, TerminateStep
<1>2. CASE /\ answer.r1 = 0 /\ pc' = IF call.op = "read" THEN "token" ELSE "send"
           /\ UNCHANGED <<call, i, buffer, result, cs, device>>
  <2>1. pc = "r1" /\ UNCHANGED <<call, i, buffer, card, next, many, media, adverse>>
    BY <1>2 DEF GetR1, device
  <2>2. SdTypes' /\ Phase'
    BY <1>2, <2>1 DEF SdInv, SdTypes, Phase
  <2>3. Aimed'
    BY <1>2, <2>1 DEF SdInv, SdTypes, Phase, Aimed
  <2>4. Obedient' => InStep' /\ Progress'
    BY <1>2, <2>1 DEF SdInv, Phase, InStep, Progress, Delivered, Stored, Obedient
  <2>5. TransfersExact'
    BY <1>2 DEF TransfersExact, ReadExact, WriteComplete
  <2> QED BY <2>2, <2>3, <2>4, <2>5 DEF SdInv
<1> QED BY <1>1, <1>2 DEF GetR1

LEMMA PollTokenStep == ASSUME SdInv, PollToken PROVE SdInv'
<1>1. PICK byte \in Bytes :
        \/ /\ byte = StartToken /\ pc' = "data"
           /\ UNCHANGED <<call, i, buffer, result, elapsed, cs, device>>
        \/ byte # StartToken /\ Terminate(byte)
        \/ UNCHANGED vars
  BY DEF PollToken
<1>2. CASE pc' = "data" /\ UNCHANGED <<call, i, buffer, result, elapsed, cs, device>>
  <2>1. pc = "token" /\ UNCHANGED <<call, i, buffer, card, next, many, media, adverse>>
    BY <1>2 DEF PollToken, device
  <2>2. SdTypes' /\ Phase' /\ Aimed'
    BY <1>2, <2>1 DEF SdInv, SdTypes, Phase, Aimed
  <2>3. Obedient' => InStep' /\ Progress'
    BY <1>2, <2>1 DEF SdInv, InStep, Progress, Delivered, Stored, Obedient
  <2>4. TransfersExact'
    BY <1>2 DEF TransfersExact, ReadExact, WriteComplete
  <2> QED BY <2>2, <2>3, <2>4 DEF SdInv
<1>3. CASE Terminate(byte)
  <2>1. Obedient => byte # 0
    BY DEF SdInv, InStep, Bytes, StartToken, Silence
  <2> QED BY <1>3, <2>1, TerminateStep
<1> QED BY <1>1, <1>2, <1>3, SdStutter

(* A block that arrives is the one asked for next, and goes to its place.  *)
LEMMA ReadBlockStep == ASSUME SdInv, ReadBlock PROVE SdInv'
<1>1. CASE Terminate(255)
  BY <1>1, TerminateStep
<1>2. CASE /\ card = "low" \/ (card = "sending" /\ next \in Blocks)
           /\ Store(IF card = "low" THEN Junk ELSE media[next])
           /\ i' = i + 1
           /\ IF i + 1 < call.n
              THEN /\ pc' = "token" /\ UNCHANGED <<result, cs, card, many, answer>>
                   /\ next' = IF card = "low" THEN next ELSE next + 1
              ELSE EndRead
           /\ UNCHANGED <<call, busy, media, adverse>>
  <2> DEFINE data == IF card = "low" THEN Junk ELSE media[next]
  <2>1. /\ pc = "data" /\ call.op = "read" /\ i \in Nat /\ i < call.n
        /\ call.n \in Nat /\ call.block \in Nat /\ next \in Nat
        /\ buffer \in [1 .. call.n -> Int] /\ media \in [Blocks -> Int]
    BY DEF ReadBlock, SdInv, SdTypes, Phase
  <2>2. data \in Int
    BY <1>2, <2>1 DEF Junk
  <2>3. buffer' = [buffer EXCEPT ![i + 1] = data] /\ i + 1 \in 1 .. call.n
    BY <1>2, <2>1 DEF Store
  <2>4. buffer' \in [1 .. call.n -> Int]
    BY <2>1, <2>2, <2>3
  <2>5. Obedient => /\ card = "sending" /\ next \in Blocks /\ next = call.block + i
                    /\ data = media[next]
    BY <1>2, <2>1 DEF SdInv, InStep
  <2>6. Obedient => Delivered'
    <3> SUFFICES ASSUME Obedient, NEW k \in 1 .. i'
                 PROVE  /\ call.block + k - 1 \in Blocks
                        /\ buffer'[k] = media[call.block + k - 1]
      BY <1>2 DEF Delivered
    <3>1. CASE k = i + 1
      <4>1. call.block + k - 1 = next
        BY <2>1, <2>5, <3>1
      <4>2. buffer'[k] = data
        BY <2>1, <2>3, <3>1
      <4> QED BY <2>5, <4>1, <4>2
    <3>2. CASE k # i + 1
      <4>1. k \in 1 .. i /\ k \in 1 .. call.n
        BY <1>2, <2>1, <3>2
      <4>2. buffer'[k] = buffer[k]
        BY <2>1, <2>3, <3>2, <4>1
      <4> QED BY <2>1, <4>1, <4>2 DEF SdInv, Progress, Delivered
    <3> QED BY <3>1, <3>2
  <2>7. Obedient' => Obedient
    BY <1>2 DEF Obedient
  <2>8. CASE /\ i + 1 < call.n /\ pc' = "token" /\ card' = card /\ many' = many
             /\ next' = IF card = "low" THEN next ELSE next + 1
    <3>1. SdTypes' /\ Phase' /\ Aimed'
      BY <1>2, <2>1, <2>4, <2>8 DEF SdInv, SdTypes, Phase, Aimed
    <3>2. Obedient' => InStep' /\ Progress'
      <4>1. Obedient => many = (call.n # 1)
        BY <2>1, <2>5 DEF SdInv, InStep
      <4>2. Obedient' => InStep'
        BY <1>2, <2>1, <2>5, <2>7, <2>8, <4>1 DEF InStep
      <4> QED BY <1>2, <2>1, <2>6, <2>7, <4>2 DEF Progress
    <3>3. TransfersExact'
      BY <2>8 DEF TransfersExact, ReadExact, WriteComplete
    <3> QED BY <3>1, <3>2, <3>3 DEF SdInv
  <2>9. CASE /\ i + 1 >= call.n /\ call.n # 1 /\ pc' = "command"
             /\ CardTakes("stop", 0, 0)
    <3>1. \/ card = "sending" /\ card' = "ready" /\ next' = next
          \/ card # "sending" /\ card' = card /\ next' = next
      BY <2>9, Taken
    <3>2. i' = call.n
      BY <1>2, <2>1, <2>9
    <3>3. SdTypes' /\ Phase' /\ Aimed'
      BY <1>2, <2>1, <2>4, <2>9, <3>1, <3>2 DEF SdInv, SdTypes, Phase, Aimed
    <3>4. Obedient' => InStep' /\ Progress'
      BY <1>2, <2>1, <2>5, <2>6, <2>7, <2>9, <3>1 DEF SdInv, InStep, Progress
    <3>5. TransfersExact'
      BY <2>9 DEF TransfersExact, ReadExact, WriteComplete
    <3> QED BY <3>3, <3>4, <3>5 DEF SdInv
  <2>10. CASE /\ i + 1 >= call.n /\ call.n = 1 /\ Return(0) /\ next' = next
              /\ card' = IF card = "sending" /\ ~(many /\ "streams" \in adverse)
                         THEN "ready" ELSE card
    <3>1. i' = call.n /\ pc' = "idle"
      BY <1>2, <2>1, <2>10 DEF Return
    <3>2. Obedient => card' = "ready"
      BY <2>5, <2>10 DEF Obedient
    <3>3. SdTypes' /\ Phase' /\ Aimed'
      BY <1>2, <2>1, <2>4, <2>10, <3>1 DEF SdInv, SdTypes, Phase, Aimed
    <3>4. Obedient' => InStep' /\ Progress'
      BY <2>7, <3>1, <3>2 DEF InStep, Progress
    <3>5. TransfersExact'
      BY <1>2, <2>1, <2>6, <2>7, <3>1 DEF TransfersExact, ReadExact, WriteComplete, Delivered
    <3> QED BY <3>3, <3>4, <3>5 DEF SdInv
  <2> QED BY <1>2, <2>1, <2>8, <2>9, <2>10 DEF EndRead, Begin
<1> QED BY <1>1, <1>2 DEF ReadBlock

-----------------------------------------------------------------------------
(* A block that the card accepts lands where the call has come to.         *)
Accepted ==
  /\ pc = "send" /\ card = "receiving" /\ next \in Blocks
  /\ media' = [media EXCEPT ![next] = Written(i)]
  /\ next' = next + 1 /\ busy' = TRUE
  /\ card' = IF many THEN card ELSE "ready"
  /\ i' = i + 1 /\ pc' = "busy"
  /\ UNCHANGED <<call, buffer, result, elapsed, cs, many, answer, adverse>>

LEMMA AcceptedStep == ASSUME SdInv, Accepted PROVE SdInv'
<1>1. /\ call.op = "write" /\ i \in Nat /\ i < call.n /\ call.n \in Nat /\ call.block \in Nat
      /\ next \in Nat /\ next = call.block + i /\ media \in [Blocks -> Int]
  BY DEF Accepted, SdInv, SdTypes, Phase, Aimed
<1>2. media' \in [Blocks -> Int] /\ media'[next] = Written(i)
  BY <1>1 DEF Accepted, Written
<1>3. Obedient => Stored'
  <2> SUFFICES ASSUME Obedient, NEW k \in 1 .. i'
               PROVE  /\ call.block + k - 1 \in Blocks
                      /\ media'[call.block + k - 1] = Written(k - 1)
    BY DEF Accepted, Stored, Written
  <2>1. CASE k = i + 1
    <3>1. call.block + k - 1 = next /\ k - 1 = i
      BY <1>1, <2>1
    <3> QED BY <1>2, <3>1 DEF Accepted
  <2>2. CASE k # i + 1
    <3>1. k \in 1 .. i /\ call.block + k - 1 # next
      BY <1>1, <2>2 DEF Accepted
    <3>2. /\ call.block + k - 1 \in Blocks
          /\ media[call.block + k - 1] = Written(k - 1)
      BY <1>1, <3>1 DEF Accepted, SdInv, Progress, Stored
    <3> QED BY <1>1, <3>1, <3>2 DEF Accepted
  <2> QED BY <2>1, <2>2
<1>4. SdTypes' /\ Phase' /\ Aimed'
  BY <1>1, <1>2 DEF Accepted, SdInv, SdTypes, Phase, Aimed
<1>5. Obedient' => Obedient /\ InStep' /\ Progress'
  BY <1>1, <1>3 DEF Accepted, SdInv, InStep, Progress, Obedient
<1>6. TransfersExact'
  BY DEF Accepted, TransfersExact, ReadExact, WriteComplete
<1> QED BY <1>4, <1>5, <1>6 DEF SdInv

(* The steps of a write that only move on, and may end the card's transfer.*)
LEMMA WriteOn ==
  ASSUME SdInv, pc \in {"send", "busy", "stopFailed"},
         pc' \in {"stopFailed", "failed"} \/ (pc = "busy" /\ pc' = "send" /\ i < call.n)
                                         \/ (pc = "busy" /\ pc' = "stopped" /\ i = call.n),
         card' = card \/ (card = "receiving" /\ card' = "ready"),
         pc' = "stopped" => card' # "receiving",
         UNCHANGED <<call, i, buffer, next, many, media, adverse>>
  PROVE  SdInv'
<1>1. SdTypes' /\ Phase' /\ Aimed'
  BY DEF SdInv, SdTypes, Phase, Aimed
<1>2. Obedient' => InStep' /\ Progress'
  BY DEF SdInv, InStep, Phase, Progress, Stored, Obedient
<1>3. TransfersExact'
  BY DEF TransfersExact, ReadExact, WriteComplete
<1> QED BY <1>1, <1>2, <1>3 DEF SdInv

LEMMA SendBlockStep == ASSUME SdInv, SendBlock PROVE SdInv'
<1>1. CASE Accepted
  BY <1>1, AcceptedStep
<1>2. CASE /\ pc' = "stopFailed" /\ card' = card
           /\ UNCHANGED <<call, i, buffer, next, many, media, adverse>>
  BY <1>2, WriteOn DEF SendBlock
<1>3. CASE Return(255) /\ Toggle /\ UNCHANGED <<call, i, buffer, elapsed, next, media, adverse>>
  BY <1>3, Toggled, Ended
<1>4. CASE /\ card = "sending" /\ i' = i + 1 /\ pc' = "busy"
           /\ UNCHANGED <<call, buffer, result, elapsed, cs, device>>
  <2>1. pc = "send" /\ call.op = "write"
    BY DEF SendBlock, SdInv, Phase
  <2>2. SdTypes' /\ Phase' /\ Aimed'
    BY <1>4, <2>1 DEF SdInv, SdTypes, Phase, Aimed, device
  <2>3. ~Obedient'
    BY <1>4, <2>1 DEF SdInv, InStep, Obedient, device
  <2>4. TransfersExact'
    BY <1>4 DEF TransfersExact, ReadExact, WriteComplete
  <2> QED BY <2>2, <2>3, <2>4 DEF SdInv
<1>5. CASE Terminate(255)
  BY <1>5, TerminateStep
<1> QED BY <1>1, <1>2, <1>3, <1>4, <1>5 DEF SendBlock, Accepted

LEMMA WaitWrittenStep == ASSUME SdInv, WaitWritten PROVE SdInv'
<1>1. /\ pc = "busy"
      /\ \/ /\ i < call.n /\ pc' = "send" /\ card' = card
            /\ UNCHANGED <<call, i, buffer, next, many, media, adverse>>
         \/ /\ i = call.n /\ pc' = "stopped"
            /\ card' = IF card = "receiving" THEN "ready" ELSE card
            /\ UNCHANGED <<call, i, buffer, next, many, media, adverse>>
         \/ i = call.n /\ Terminate(0)
  BY DEF WaitWritten, device
<1>2. Obedient => call.op = "write" /\ Stored
  BY <1>1 DEF SdInv, Phase, Progress
<1>3. CASE i = call.n /\ Terminate(0)
  BY <1>2, <1>3, TerminateStep
<1> QED BY <1>1, <1>3, WriteOn

LEMMA StopFailedStep == ASSUME SdInv, StopFailed PROVE SdInv'
BY WriteOn DEF StopFailed

LEMMA WaitStoppedStep == ASSUME SdInv, WaitStopped PROVE SdInv'
<1>1. pc \in {"stopped", "failed"} /\ Terminate(IF pc = "stopped" THEN 0 ELSE 255)
  BY DEF WaitStopped
<1>2. pc = "stopped" /\ Obedient => call.op = "write" /\ Stored /\ i = call.n
  BY DEF SdInv, Phase, Progress
<1> QED BY <1>1, <1>2, TerminateStep

LEMMA DriverStep == ASSUME SdInv, Driver PROVE SdInv'
<1>1. CASE WaitOn
  BY <1>1, SdStutter DEF WaitOn
<1> QED BY <1>1, CommandResultStep, GetR1Step, PollTokenStep, ReadBlockStep, SendBlockStep,
           WaitWrittenStep, StopFailedStep, WaitStoppedStep DEF Driver

(* The card ends its programming, or is gone; time passes.                 *)
LEMMA CardStep ==
  ASSUME SdInv, CardFinishes \/ CardFails \/ Tick
  PROVE  SdInv'
<1>1. /\ UNCHANGED <<pc, call, i, buffer, result, next, many, media, answer, adverse>>
      /\ card' = card \/ card' = "gone" \/ (card' = "low" /\ ~Obedient)
  BY DEF CardFinishes, CardFails, Tick, driver, device, Obedient
<1>2. SdTypes' /\ Phase' /\ Aimed'
  BY <1>1 DEF SdInv, SdTypes, Phase, Aimed
<1>3. Obedient' => Obedient
  BY <1>1 DEF Obedient
<1>4. Obedient' => InStep' /\ Progress'
  BY <1>1, <1>3 DEF SdInv, InStep, Progress, Delivered, Stored
<1>5. TransfersExact'
  BY <1>1, <1>3 DEF SdInv, TransfersExact, ReadExact, WriteComplete
<1> QED BY <1>2, <1>4, <1>5 DEF SdInv

LEMMA SdNext == SdInv /\ [Next]_vars => SdInv'
BY SdStutter, StartStep, StartCommandStep, DriverStep, CardStep DEF Next

LEMMA SdInvariance == Spec => []SdInv
BY SdInitial, SdNext, PTL DEF Spec

(* A read or a write that succeeds delivered or stored every block it was  *)
(* asked for, on a card that stops when deselected and a line not stuck.   *)
THEOREM TransfersAreExact == Spec => []TransfersExact
<1>1. SdInv => TransfersExact
  BY DEF SdInv
<1> QED BY <1>1, SdInvariance, PTL

(* The contents of the card change only block after block of the write in  *)
(* progress, whatever the card and the wire do.                            *)
THEOREM NoStrayWrite == Spec => WritesOnlyAsked
<1> DEFINE Asked == media' # media =>
                      /\ call.op = "write" /\ i' = i + 1
                      /\ media' = [media EXCEPT ![call.block + i] = Written(i)]
<1>1. SdInv /\ Next => Asked
  <2> SUFFICES ASSUME SdInv, Next, media' # media PROVE Asked
    OBVIOUS
  <2>1. Accepted
    BY DEF Next, Start, StartCommand, Driver, CommandResult, GetR1, PollToken, ReadBlock,
           SendBlock, WaitWritten, WaitOn, StopFailed, WaitStopped, Terminate, CardFinishes,
           CardFails, Tick, Accepted, device, vars
  <2> QED BY <2>1 DEF Accepted, SdInv, Phase, Aimed
<1>2. SdInv /\ [Next]_vars => [Asked]_vars
  BY <1>1
<1> QED BY <1>2, SdInvariance, PTL DEF Spec, WritesOnlyAsked

(* A call that succeeds has ended the card's transfer before it deselects  *)
(* an obedient card.                                                       *)
THEOREM TransfersEnd == Spec => TransferEnded
<1> DEFINE Ending == pc # "idle" /\ pc' = "idle" /\ result' = 0 /\ Obedient =>
                       ~(many /\ card \in {"sending", "receiving"})
<1>1. SdInv /\ Next => Ending
  <2> SUFFICES ASSUME SdInv, Next, pc # "idle", pc' = "idle", result' = 0, Obedient,
                      card \in {"sending", "receiving"}
               PROVE  ~many
    OBVIOUS
  <2>1. InStep /\ Phase /\ Aimed
    BY DEF SdInv
  <2>2. pc \notin {"command", "stopped"} /\ (many => call.n # 1)
    BY <2>1 DEF InStep, Phase, Aimed
  <2>3. CASE ReadBlock
    <3>1. pc' = "token" \/ EndRead \/ Terminate(255)
      BY <2>3 DEF ReadBlock
    <3>2. EndRead
      BY <3>1 DEF Terminate, Return
    <3> QED BY <2>2, <3>2 DEF EndRead
  <2>4. CASE WaitWritten
    BY <2>2, <2>4 DEF WaitWritten
  <2>5. CASE PollToken
    BY <2>1, <2>5 DEF PollToken, Terminate, Return, Bytes, InStep, Silence, StartToken, vars, driver
  <2>6. CASE GetR1 \/ SendBlock \/ WaitOn \/ StopFailed \/ WaitStopped
    BY <2>2, <2>6 DEF GetR1, SendBlock, WaitOn, StopFailed, WaitStopped, Terminate, Return,
                      vars, driver
  <2>7. CASE CardFinishes \/ CardFails \/ Tick
    BY <2>7 DEF CardFinishes, CardFails, Tick, driver
  <2> QED BY <2>2, <2>3, <2>4, <2>5, <2>6, <2>7 DEF Next, Driver, Start, StartCommand, CommandResult
<1>2. SdInv /\ [Next]_vars => [Ending]_vars
  BY <1>1
<1> QED BY <1>2, SdInvariance, PTL DEF Spec, TransferEnded

(* How far Deselected holds: between calls the card is selected only after *)
(* a command whose answer, if it came, was not heard.                      *)
SelectedUnheard == pc = "idle" /\ cs => ~Heard

(* A call leaves the card selected only if its command was not answered in *)
(* the time the driver listens.                                            *)
THEOREM DeselectedIfHeard == Spec => []SelectedUnheard
<1>1. Init => SelectedUnheard
  BY DEF Init, SelectedUnheard
<1>2. SelectedUnheard /\ [Next]_vars => SelectedUnheard'
  <2> SUFFICES ASSUME SelectedUnheard, [Next]_vars PROVE SelectedUnheard'
    OBVIOUS
  <2> USE DEF SelectedUnheard
  <2>1. CASE UNCHANGED <<pc, cs, answer>>
    BY <2>1 DEF Heard
  <2>2. ASSUME NEW r, Terminate(r) PROVE SelectedUnheard'
    BY <2>2 DEF Terminate, Toggle
  <2>3. CASE \E op \in {"read", "write"}, block \in 0 .. Word - 1, n \in 0 .. MaxBlocks :
               Start(op, block, n)
    BY <2>1, <2>3 DEF Start, device
  <2>4. CASE StartCommand
    BY <2>4 DEF StartCommand
  <2>5. CASE CommandResult
    BY <2>5 DEF CommandResult, Return, Toggle, Heard
  <2>6. CASE GetR1
    BY <2>2, <2>6 DEF GetR1
  <2>7. CASE PollToken
    BY <2>1, <2>2, <2>7 DEF PollToken, vars, driver, device
  <2>8. CASE ReadBlock
    <3>1. CASE Terminate(255)
      BY <2>2, <3>1
    <3>2. CASE pc' = "token" \/ pc' = "command" \/ cs' = FALSE
      BY <3>2
    <3> QED BY <2>8, <3>1, <3>2 DEF ReadBlock, EndRead
  <2>9. CASE SendBlock
    <3>1. CASE Terminate(255)
      BY <2>2, <3>1
    <3>2. CASE pc' = "busy" \/ pc' = "stopFailed" \/ cs' = FALSE
      BY <3>2
    <3> QED BY <2>9, <3>1, <3>2 DEF SendBlock, Toggle
  <2>10. CASE WaitWritten
    <3>1. CASE Terminate(0)
      BY <2>2, <3>1
    <3>2. CASE pc' = "send" \/ pc' = "stopped"
      BY <3>2
    <3> QED BY <2>10, <3>1, <3>2 DEF WaitWritten
  <2>11. CASE WaitOn \/ UNCHANGED vars
    BY <2>1, <2>11 DEF WaitOn, vars, driver, device
  <2>12. CASE StopFailed
    BY <2>12 DEF StopFailed
  <2>13. CASE WaitStopped
    BY <2>2, <2>13 DEF WaitStopped
  <2>14. CASE CardFinishes \/ CardFails \/ Tick
    BY <2>1, <2>14 DEF CardFinishes, CardFails, Tick, driver, device
  <2> QED BY <2>3, <2>4, <2>5, <2>6, <2>7, <2>8, <2>9, <2>10, <2>11, <2>12, <2>13, <2>14
          DEF Next, Driver
<1> QED BY <1>1, <1>2, PTL DEF Spec

-----------------------------------------------------------------------------
(* Types. A sequence of n elements, one of them replaced, is one again.    *)
LEMMA Filled ==
  ASSUME NEW n \in Nat, NEW s \in [1 .. n -> Int]
  PROVE  s \in Seq(Int) /\ Len(s) = n
OBVIOUS

(* What a card does with a command stays among its states and blocks.      *)
LEMMA TakenTypes ==
  ASSUME TypeOK, NEW op, NEW block, NEW n, CardTakes(op, block, n), adverse' = adverse
  PROVE  /\ card' \in {"ready", "sending", "receiving", "gone", "low"}
         /\ next' \in 0 .. CardBlocks /\ many' \in BOOLEAN
         /\ answer' \in [r1 : {0, 4, Silence}, delay : 1 .. MaxDelay']
<1>1. MaxDelay' = MaxDelay /\ MaxDelay \in Nat /\ MaxDelay >= 1
  BY DEF MaxDelay
<1>2. PICK delay \in 1 .. MaxDelay :
        answer' \in [r1 : {0, 4, Silence}, delay : {delay}] \/ answer' = [r1 |-> 0, delay |-> 1]
  BY DEF CardTakes
<1>3. answer' \in [r1 : {0, 4, Silence}, delay : 1 .. MaxDelay]
  BY <1>1, <1>2
<1>4. /\ card' \in {"ready", "sending", "receiving", "gone", "low"}
      /\ next' \in 0 .. CardBlocks
  BY DEF CardTakes, TypeOK, Blocks
<1>5. many' \in BOOLEAN
  <2>1. (many' = (n # 1)) \/ many' = many
    BY DEF CardTakes
  <2> QED BY <2>1 DEF TypeOK
<1> QED BY <1>1, <1>3, <1>4, <1>5

(* A step that leaves the call, the data and the answer alone.             *)
LEMMA TypesKept ==
  ASSUME TypeOK, UNCHANGED <<call, i, buffer, next, many, answer, media, adverse>>,
         pc' \in {"idle", "command", "r1", "token", "data", "send", "busy",
                  "stopped", "stopFailed", "failed"},
         result' \in 0 .. 255, elapsed' \in 0 .. Timeout, cs' \in BOOLEAN, busy' \in BOOLEAN,
         card' \in {"ready", "sending", "receiving", "gone", "low"}
  PROVE  TypeOK'
BY DEF TypeOK, MaxDelay

LEMMA ToggleTypes ==
  ASSUME TypeOK, Toggle
  PROVE  cs' \in BOOLEAN /\ card' \in {"ready", "sending", "receiving", "gone", "low"}
BY DEF TypeOK, Toggle

LEMMA TerminateTypes ==
  ASSUME TypeOK, NEW r \in 0 .. 255, Terminate(r)
  PROVE  TypeOK'
<1>1. /\ UNCHANGED <<call, i, buffer, next, many, answer, media, adverse>>
      /\ pc' = "idle" /\ result' = r /\ elapsed' = elapsed /\ busy' = busy
  BY DEF Terminate, Return
<1> QED BY <1>1, ToggleTypes, TypesKept DEF Terminate, TypeOK

LEMMA StartTypes ==
  ASSUME TypeOK, NEW op \in {"read", "write"}, NEW block \in 0 .. Word - 1,
         NEW n \in 0 .. MaxBlocks, Start(op, block, n)
  PROVE  TypeOK'
<1>1. /\ call' = [op |-> op, block |-> block, n |-> n]
      /\ i' = 0 /\ buffer' = [k \in 1 .. n |-> Junk] /\ elapsed' = 0
      /\ UNCHANGED <<busy, media, adverse>>
  BY DEF Start, device
<1>2. call' \in [op : {"none", "read", "write", "command"}, block : 0 .. Word - 1, n : 0 .. MaxBlocks]
  BY <1>1
<1>3. buffer' \in Seq(Int) /\ Len(buffer') = n
  <2>1. [k \in 1 .. n |-> Junk] \in [1 .. n -> Int] /\ n \in Nat
    BY DEF Junk
  <2> QED BY <1>1, <2>1, Filled
<1>4. /\ pc' \in {"idle", "r1"} /\ result' \in {0, 255}
      /\ cs' \in BOOLEAN /\ card' \in {"ready", "sending", "receiving", "gone", "low"}
      /\ next' \in 0 .. CardBlocks /\ many' \in BOOLEAN
      /\ answer' \in [r1 : {0, 4, Silence}, delay : 1 .. MaxDelay']
  <2>1. CASE UNCHANGED <<pc, cs, device>> /\ result' = (IF n = 0 THEN 0 ELSE 255)
    BY <2>1 DEF Start, TypeOK, device, MaxDelay
  <2>2. CASE pc' = "r1" /\ result' = Silence /\ cs' = TRUE /\ CardTakes(op, block, n)
    BY <1>1, <2>2, TakenTypes DEF Silence
  <2> QED BY <2>1, <2>2 DEF Start, Begin
<1> QED BY <1>1, <1>2, <1>3, <1>4 DEF TypeOK

LEMMA StartCommandTypes == ASSUME TypeOK, StartCommand PROVE TypeOK'
<1>1. /\ call' = [op |-> "command", block |-> 0, n |-> 0]
      /\ i' = 0 /\ buffer' = <<>> /\ elapsed' = 0 /\ pc' = "command" /\ result' = 255
      /\ cs' = TRUE /\ CardTakes("command", 0, 0) /\ UNCHANGED <<busy, media, adverse>>
  BY DEF StartCommand, Begin, Silence
<1>2. call' \in [op : {"none", "read", "write", "command"}, block : 0 .. Word - 1, n : 0 .. MaxBlocks]
  BY <1>1
<1>3. /\ card' \in {"ready", "sending", "receiving", "gone", "low"}
      /\ next' \in 0 .. CardBlocks /\ many' \in BOOLEAN
      /\ answer' \in [r1 : {0, 4, Silence}, delay : 1 .. MaxDelay']
  BY <1>1, TakenTypes
<1> QED BY <1>1, <1>2, <1>3 DEF TypeOK

(* The block that is read lands in the buffer of the call.                 *)
LEMMA ReadBlockTypes == ASSUME SdInv, TypeOK, ReadBlock PROVE TypeOK'
<1>1. CASE card # "low" /\ Terminate(255)
  BY <1>1, TerminateTypes
<1>2. CASE /\ card = "low" \/ (card = "sending" /\ next \in Blocks)
           /\ Store(IF card = "low" THEN Junk ELSE media[next])
           /\ i' = i + 1 /\ elapsed' = 0
           /\ IF i + 1 < call.n
              THEN /\ pc' = "token" /\ UNCHANGED <<result, cs, card, many, answer>>
                   /\ next' = IF card = "low" THEN next ELSE next + 1
              ELSE EndRead
           /\ UNCHANGED <<call, busy, media, adverse>>
  <2> DEFINE data == IF card = "low" THEN Junk ELSE media[next]
  <2>1. /\ i \in Nat /\ i < call.n /\ call.n \in 0 .. MaxBlocks
        /\ buffer \in [1 .. call.n -> Int] /\ media \in [Blocks -> Int]
    BY DEF ReadBlock, SdInv, SdTypes, Phase, TypeOK
  <2>2. data \in Int
    BY <1>2, <2>1 DEF Junk
  <2>3. buffer' = [buffer EXCEPT ![i + 1] = data] /\ i + 1 \in 1 .. call.n
    BY <1>2, <2>1 DEF Store
  <2>4. buffer' \in [1 .. call.n -> Int]
    BY <2>1, <2>2, <2>3
  <2>5. buffer' \in Seq(Int) /\ Len(buffer') = call.n
    <3> HIDE DEF data
    <3> QED BY <2>1, <2>4, Filled
  <2>6. i' \in 0 .. MaxBlocks
    BY <1>2, <2>1
  <2>7. /\ pc' \in {"token", "idle", "command"} /\ result' \in 0 .. 255 /\ cs' \in BOOLEAN
        /\ card' \in {"ready", "sending", "receiving", "gone", "low"}
        /\ next' \in 0 .. CardBlocks /\ many' \in BOOLEAN
        /\ answer' \in [r1 : {0, 4, Silence}, delay : 1 .. MaxDelay']
    <3>1. CASE /\ pc' = "token" /\ UNCHANGED <<result, cs, card, many, answer, adverse>>
               /\ next' = IF card = "low" THEN next ELSE next + 1
      BY <1>2, <3>1 DEF TypeOK, MaxDelay, Blocks
    <3>2. CASE /\ pc' = "idle" /\ result' = 0 /\ cs' = FALSE
               /\ card' = IF card = "sending" /\ ~(many /\ "streams" \in adverse)
                          THEN "ready" ELSE card
               /\ UNCHANGED <<next, many, answer, adverse>>
      <4>1. cs' \in BOOLEAN /\ many' \in BOOLEAN /\ next' \in 0 .. CardBlocks
        BY <3>2 DEF TypeOK
      <4>2. card' \in {"ready", "sending", "receiving", "gone", "low"}
        BY <3>2 DEF TypeOK
      <4>3. answer' \in [r1 : {0, 4, Silence}, delay : 1 .. MaxDelay']
        BY <3>2 DEF TypeOK, MaxDelay
      <4> QED BY <3>2, <4>1, <4>2, <4>3
    <3>3. CASE /\ pc' = "command" /\ UNCHANGED <<result, adverse>> /\ cs' = TRUE
               /\ CardTakes("stop", 0, 0)
      BY <3>3, TakenTypes DEF TypeOK
    <3> QED BY <1>2, <3>1, <3>2, <3>3 DEF EndRead, Return, Begin
  <2> QED BY <1>2, <2>1, <2>5, <2>6, <2>7 DEF TypeOK
<1> QED BY <1>1, <1>2 DEF ReadBlock

(* A block that is written is one of the card and of the call.             *)
LEMMA SendBlockTypes == ASSUME SdInv, TypeOK, SendBlock PROVE TypeOK'
<1>1. CASE Accepted
  <2>1. i \in Nat /\ i < call.n /\ call.n \in 0 .. MaxBlocks /\ i + 1 \in 0 .. MaxBlocks
    BY <1>1 DEF Accepted, SdInv, SdTypes, Phase, TypeOK
  <2>2. Written(i) \in 0 .. CardBlocks + MaxBlocks - 1
    BY <2>1 DEF Written
  <2>3. media' \in [Blocks -> 0 .. CardBlocks + MaxBlocks - 1]
    BY <1>1, <2>2 DEF Accepted, TypeOK
  <2>4. next' \in 0 .. CardBlocks /\ i' \in 0 .. MaxBlocks
    BY <1>1, <2>1 DEF Accepted, Blocks
  <2>5. card' \in {"ready", "sending", "receiving", "gone", "low"}
    BY <1>1 DEF Accepted
  <2> QED BY <1>1, <2>3, <2>4, <2>5 DEF Accepted, TypeOK, MaxDelay
<1>2. CASE /\ pc' = "stopFailed" /\ UNCHANGED <<result, cs, card>>
           /\ UNCHANGED <<call, i, buffer, elapsed, next, many, busy, answer, media, adverse>>
  BY <1>2, TypesKept DEF TypeOK
<1>3. CASE /\ Return(255) /\ Toggle
           /\ UNCHANGED <<call, i, buffer, elapsed, next, many, busy, answer, media, adverse>>
  BY <1>3, TerminateTypes DEF Terminate
<1>4. CASE /\ card = "sending" /\ i' = i + 1 /\ pc' = "busy"
           /\ UNCHANGED <<call, buffer, result, elapsed, cs, device>>
  <2>1. i + 1 \in 0 .. MaxBlocks
    BY DEF SendBlock, SdInv, SdTypes, Phase, TypeOK
  <2> QED BY <1>4, <2>1 DEF TypeOK, device, MaxDelay
<1>5. CASE Terminate(255)
  BY <1>5, TerminateTypes
<1> QED BY <1>1, <1>2, <1>3, <1>4, <1>5 DEF SendBlock, Accepted

(* The other steps of the driver leave the call and its data alone.        *)
LEMMA DriverTypes == ASSUME SdInv, TypeOK, Driver PROVE TypeOK'
<1>1. CASE CommandResult
  <2>1. answer.r1 \in 0 .. 255 /\ Silence \in 0 .. 255
    BY DEF TypeOK, Silence
  <2>2. CASE Return(answer.r1) /\ Toggle
    BY <1>1, <2>1, <2>2, TerminateTypes DEF CommandResult, Terminate
  <2>3. CASE Return(Silence) /\ UNCHANGED <<cs, card>>
    BY <1>1, <2>1, <2>3, TypesKept DEF CommandResult, Return, TypeOK
  <2> QED BY <1>1, <2>2, <2>3 DEF CommandResult
<1>2. CASE GetR1
  <2>1. answer.r1 \in 0 .. 255
    BY DEF TypeOK, Silence
  <2>2. CASE Terminate(answer.r1)
    BY <2>1, <2>2, TerminateTypes
  <2>3. CASE /\ pc' = (IF call.op = "read" THEN "token" ELSE "send") /\ elapsed' = 0
             /\ UNCHANGED <<call, i, buffer, result, cs, device>>
    BY <2>3, TypesKept DEF TypeOK, device
  <2> QED BY <1>2, <2>2, <2>3 DEF GetR1
<1>3. CASE PollToken
  <2>1. PICK byte \in Bytes : \/ /\ pc' = "data"
                                 /\ UNCHANGED <<call, i, buffer, result, elapsed, cs, device>>
                              \/ Terminate(byte)
                              \/ UNCHANGED vars
    BY <1>3 DEF PollToken
  <2>2. byte \in 0 .. 255
    BY DEF Bytes, StartToken, Silence
  <2>3. CASE pc' = "data" /\ UNCHANGED <<call, i, buffer, result, elapsed, cs, device>>
    BY <2>3, TypesKept DEF TypeOK, device
  <2>4. CASE UNCHANGED vars
    BY <2>4, TypesKept DEF TypeOK, vars, driver, device
  <2> QED BY <2>1, <2>2, <2>3, <2>4, TerminateTypes
<1>4. CASE WaitWritten
  <2>1. \/ pc' = "send" /\ UNCHANGED <<call, i, buffer, result, elapsed, cs, device>>
        \/ /\ pc' = "stopped" /\ card' = (IF card = "receiving" THEN "ready" ELSE card)
           /\ busy' = (card = "receiving")
           /\ UNCHANGED <<call, i, buffer, result, elapsed, cs, next, many, answer, media, adverse>>
        \/ Terminate(0)
    BY <1>4 DEF WaitWritten
  <2>2. CASE pc' = "send" /\ UNCHANGED <<call, i, buffer, result, elapsed, cs, device>>
    BY <2>2, TypesKept DEF TypeOK, device
  <2>3. CASE /\ pc' = "stopped" /\ card' = (IF card = "receiving" THEN "ready" ELSE card)
             /\ busy' = (card = "receiving")
             /\ UNCHANGED <<call, i, buffer, result, elapsed, cs, next, many, answer, media,
                            adverse>>
    BY <2>3, TypesKept DEF TypeOK
  <2> QED BY <2>1, <2>2, <2>3, TerminateTypes
<1>5. CASE StopFailed
  BY <1>5, TypesKept DEF StopFailed, TypeOK
<1>6. CASE WaitStopped
  BY <1>6, TerminateTypes DEF WaitStopped
<1>7. CASE WaitOn
  BY <1>7, TypesKept DEF WaitOn, TypeOK, vars, driver, device
<1> QED BY <1>1, <1>2, <1>3, <1>4, <1>5, <1>6, <1>7, ReadBlockTypes, SendBlockTypes DEF Driver

LEMMA TypesNext == SdInv /\ TypeOK /\ [Next]_vars => TypeOK'
<1> SUFFICES ASSUME SdInv, TypeOK, [Next]_vars PROVE TypeOK'
  OBVIOUS
<1>1. CASE UNCHANGED vars
  BY <1>1, TypesKept DEF TypeOK, vars, driver, device
<1>2. CASE CardFinishes \/ CardFails \/ Tick
  <2>1. /\ UNCHANGED <<pc, call, i, buffer, result, cs, next, many, answer, media, adverse>>
        /\ card' \in {card, "gone", "low"} /\ busy' \in {busy, FALSE}
        /\ elapsed' = elapsed \/ (elapsed < Timeout /\ elapsed' = elapsed + 1)
    BY <1>2 DEF CardFinishes, CardFails, Tick, driver, device
  <2>2. /\ pc' \in {"idle", "command", "r1", "token", "data", "send", "busy",
                  "stopped", "stopFailed", "failed"}
        /\ result' \in 0 .. 255 /\ cs' \in BOOLEAN /\ busy' \in BOOLEAN
    BY <2>1 DEF TypeOK
  <2>3. elapsed' \in 0 .. Timeout
    BY <2>1 DEF TypeOK
  <2>4. card' \in {"ready", "sending", "receiving", "gone", "low"}
    BY <2>1 DEF TypeOK
  <2> QED BY <2>1, <2>2, <2>3, <2>4, TypesKept
<1> QED BY <1>1, <1>2, StartTypes, StartCommandTypes, DriverTypes DEF Next

LEMMA TypesInit == Init => TypeOK
<1> SUFFICES ASSUME Init PROVE TypeOK
  OBVIOUS
<1>1. call \in [op : {"none", "read", "write", "command"}, block : 0 .. Word - 1, n : 0 .. MaxBlocks]
  BY DEF Init, NoCall
<1>2. answer \in [r1 : {0, 4, Silence}, delay : 1 .. MaxDelay]
  BY DEF Init, MaxDelay
<1>3. media \in [Blocks -> 0 .. CardBlocks + MaxBlocks - 1]
  BY DEF Init, Blocks
<1>4. buffer \in Seq(Int) /\ Len(buffer) <= MaxBlocks
  BY DEF Init
<1>5. /\ pc = "idle" /\ i \in 0 .. MaxBlocks /\ result \in 0 .. 255 /\ elapsed \in 0 .. Timeout
      /\ cs = FALSE /\ busy = FALSE /\ many = FALSE /\ card = "ready" /\ next \in 0 .. CardBlocks
  BY DEF Init, Silence
<1> QED BY <1>1, <1>2, <1>3, <1>4, <1>5 DEF TypeOK

-----------------------------------------------------------------------------
(***************************************************************************)
(* sd_card_init.                                                           *)
(***************************************************************************)
Steps == {"off", "cmd0", "cmd8", "ocr1", "ocr2", "acmd1", "acmd2", "ccs", "csd"}
SetupTypes ==
  /\ step \in Steps /\ state \in {"absent", "native", "idle", "ready"}
  /\ state # "absent" => inserted \in Cards

(* The strengthening: a card that answers in the middle of the sequence is *)
(* the one that CMD0 reset, since another would still be in its native     *)
(* mode. So what earlier commands found out about it holds.                *)
Answering == state \in {"idle", "ready"}
Slow == step # "off" => clock = 100000
NotReadyYet == step \in {"cmd8", "ocr1", "ocr2"} => state # "ready"
VoltsKnown == step \in {"acmd1", "acmd2", "ccs", "csd"} /\ Answering => inserted.volts
VersionKnown == step \in {"ocr1", "acmd1"} /\ Answering => inserted.v1
SetupInv == SetupTypes /\ Slow /\ NotReadyYet /\ VoltsKnown /\ VersionKnown

USE SdInitAssumption DEF CardKinds

LEMMA SetupInitial == SetupInit => SetupInv
BY DEF SetupInit, SetupInv, SetupTypes, Steps, Slow, NotReadyYet, VoltsKnown, VersionKnown

LEMMA SetupStutter == SetupInv /\ UNCHANGED setupVars => SetupInv'
BY DEF setupVars, SetupInv, SetupTypes, Steps, Answering, Slow, NotReadyYet, VoltsKnown, VersionKnown

(* What an answer says: a card that gives one is in SPI mode.              *)
LEMMA AnswerKnown ==
  ASSUME NEW r1, NEW good, NEW a \in Answers(r1, good)
  PROVE  \/ a.r1 = 255
         \/ Answering /\ a.r1 = r1 /\ a.good = good
BY DEF Answers, NoAnswer, NoByte, Answering

(* A call that ends without success, the card untouched.                   *)
LEMMA FailKeeps == ASSUME SetupInv, NEW r, Fail(r) PROVE SetupInv'
BY DEF Fail, Give, slot, SetupInv, SetupTypes, Steps, Answering, Slow, NotReadyYet, VoltsKnown,
       VersionKnown

SuccessReady ==
  step # "off" /\ step' = "off" /\ status' = 0 =>
    /\ state' = "ready" /\ inserted'.volts
    /\ inserted.high => blocks' = inserted.size * 1024

(* One step keeps the invariant and only reports success of a ready card.  *)
LEMMA SetupStep == SetupInv /\ SetupNext => SetupInv' /\ SuccessReady
<1> SUFFICES ASSUME SetupInv, SetupNext PROVE SetupInv' /\ SuccessReady
  OBVIOUS
<1> USE DEF SuccessReady, Steps, Answering
<1>f. ASSUME NEW r, Fail(r), r # 0 PROVE SetupInv' /\ SuccessReady
  BY <1>f, FailKeeps DEF Fail, Give
<1>1. CASE Call
  <2>1. CASE Fail(255)
    BY <2>1, <1>f
  <2>2. CASE step = "off" /\ step' = "cmd0" /\ clock' = 100000 /\ UNCHANGED <<status, blocks, slot>>
    BY <2>2 DEF slot, SetupInv, SetupTypes, Slow, NotReadyYet, VoltsKnown, VersionKnown
  <2> QED BY <1>1, <2>1, <2>2 DEF Call
<1>2. CASE Reset
  <2>1. CASE Fail(NoByte)
    BY <2>1, <1>f DEF NoByte
  <2>2. CASE /\ step = "cmd0" /\ state # "absent" /\ state' = "idle" /\ step' = "cmd8"
             /\ UNCHANGED <<status, blocks, clock, inserted>>
    BY <2>2 DEF SetupInv, SetupTypes, Slow, NotReadyYet, VoltsKnown, VersionKnown
  <2> QED BY <1>2, <2>1, <2>2 DEF Reset
<1>3. CASE Interface
  <2>1. PICK a \in Answers(IF inserted.v1 THEN 5 ELSE 1, inserted.volts), pattern \in BOOLEAN :
          /\ step = "cmd8"
          /\ \/ a.r1 = 5 /\ Go("ocr1")
             \/ a.r1 \notin {1, 5} /\ Fail(a.r1)
             \/ a.r1 = 1 /\ Rejected(a.good, pattern) /\ Fail(255)
             \/ a.r1 = 1 /\ ~Rejected(a.good, pattern) /\ Go("ocr2")
    BY <1>3 DEF Interface
  <2>2. \/ a.r1 = 255
        \/ Answering /\ a.r1 = IF inserted.v1 THEN 5 ELSE 1
    BY AnswerKnown
  <2>3. CASE a.r1 = 5 /\ Go("ocr1")
    <3>1. inserted.v1
      BY <2>2, <2>3
    <3> QED BY <2>1, <2>3, <3>1 DEF Go, slot, SetupInv, SetupTypes, Slow, NotReadyYet, VoltsKnown,
                                    VersionKnown
  <2>4. CASE a.r1 \notin {1, 5} /\ Fail(a.r1)
    BY <2>2, <2>4, <1>f
  <2>5. CASE Fail(255)
    BY <2>5, <1>f
  <2>6. CASE Go("ocr2")
    BY <2>1, <2>6 DEF Go, slot, SetupInv, SetupTypes, Slow, NotReadyYet, VoltsKnown, VersionKnown
  <2> QED BY <2>1, <2>3, <2>4, <2>5, <2>6
<1>4. CASE Voltage
  <2>1. PICK a \in Answers(InIdle, inserted.volts) :
          /\ step \in {"ocr1", "ocr2"}
          /\ \/ a.r1 # 1 /\ Fail(a.r1)
             \/ a.r1 = 1 /\ ~a.good /\ Fail(255)
             \/ a.r1 = 1 /\ a.good /\ Go(IF step = "ocr1" THEN "acmd1" ELSE "acmd2")
    BY <1>4 DEF Voltage
  <2>2. a.r1 = 255 \/ (Answering /\ a.r1 = InIdle /\ a.good = inserted.volts)
    BY AnswerKnown
  <2>3. a.r1 # 0
    BY <2>1, <2>2 DEF InIdle, SetupInv, NotReadyYet
  <2>4. CASE Fail(a.r1) \/ Fail(255)
    BY <2>3, <2>4, <1>f
  <2>5. CASE a.r1 = 1 /\ a.good /\ Go(IF step = "ocr1" THEN "acmd1" ELSE "acmd2")
    <3>1. inserted.volts
      <4>1. a # NoAnswer
        BY <2>5 DEF NoAnswer, NoByte
      <4>2. a = [r1 |-> InIdle, good |-> inserted.volts]
        BY <4>1 DEF Answers
      <4>3. a.good = inserted.volts
        BY <4>2
      <4> QED BY <2>5, <4>3, Zenon
    <3> QED BY <2>1, <2>5, <3>1 DEF Go, slot, SetupInv, SetupTypes, Slow, NotReadyYet, VoltsKnown,
                                    VersionKnown
  <2> QED BY <2>1, <2>4, <2>5
<1>5. CASE Operate
  <2>1. step \in {"acmd1", "acmd2"}
    BY <1>5 DEF Operate
  <2>2. CASE Fail(NoByte)
    BY <2>2, <1>f DEF NoByte
  <2>3. CASE UNCHANGED setupVars
    <3>1. SetupInv'
      BY <2>3, SetupStutter
    <3>2. step' = step
      BY <2>3 DEF setupVars
    <3> QED BY <2>1, <3>1, <3>2
  <2>4. CASE /\ state \in {"idle", "ready"} /\ state' = "ready" /\ UNCHANGED inserted
             /\ step = "acmd1" /\ Give(0) /\ clock' = 25000000 /\ UNCHANGED blocks
    <3>1. inserted \in Cards /\ inserted.volts /\ inserted.v1
      BY <2>4 DEF SetupInv, SetupTypes, VoltsKnown, VersionKnown
    <3> QED BY <2>4, <3>1 DEF Give, SetupInv, SetupTypes, Slow, NotReadyYet, VoltsKnown, VersionKnown
  <2>5. CASE /\ state \in {"idle", "ready"} /\ state' = "ready" /\ UNCHANGED inserted
             /\ step = "acmd2" /\ step' = "ccs" /\ UNCHANGED <<status, blocks, clock>>
    BY <2>5 DEF SetupInv, SetupTypes, Slow, NotReadyYet, VoltsKnown, VersionKnown
  <2> QED BY <1>5, <2>2, <2>3, <2>4, <2>5 DEF Operate
<1>6. CASE Powered
  <2>1. PICK a \in Answers(InIdle, state = "ready") :
          /\ step = "ccs"
          /\ \/ a.r1 # 0 /\ Fail(a.r1)
             \/ a.r1 = 0 /\ Fail(255)
             \/ a.r1 = 0 /\ Go("csd")
    BY <1>6 DEF Powered
  <2>2. CASE (a.r1 # 0 /\ Fail(a.r1)) \/ Fail(255)
    BY <2>2, <1>f
  <2>3. CASE Go("csd")
    BY <2>1, <2>3 DEF Go, slot, SetupInv, SetupTypes, Slow, NotReadyYet, VoltsKnown, VersionKnown
  <2> QED BY <2>1, <2>2, <2>3
<1>7. CASE ReadCsd
  <2>1. PICK a \in Answers(InIdle, TRUE) :
          /\ step = "csd"
          /\ \/ a.r1 # 0 /\ Fail(a.r1)
             \/ a.r1 = 0 /\ Fail(255)
             \/ a.r1 = 0 /\ Give(0) /\ blocks' = Size(inserted) /\ UNCHANGED <<clock, slot>>
    BY <1>7 DEF ReadCsd
  <2>2. CASE (a.r1 # 0 /\ Fail(a.r1)) \/ Fail(255)
    BY <2>2, <1>f
  <2>3. CASE a.r1 = 0 /\ Give(0) /\ blocks' = Size(inserted) /\ UNCHANGED <<clock, slot>>
    <3>0. a.r1 = 255 \/ (Answering /\ a.r1 = InIdle)
      BY DEF Answers, NoAnswer, NoByte
    <3>1. Answering /\ InIdle = 0
      BY <2>3, <3>0
    <3>2. state = "ready" /\ inserted \in Cards /\ inserted.volts
      BY <2>1, <3>1 DEF InIdle, SetupInv, SetupTypes, VoltsKnown
    <3>3. inserted.high => Size(inserted) = inserted.size * 1024
      BY <3>2 DEF Size
    <3> QED BY <2>3, <3>2, <3>3
            DEF Give, slot, SetupInv, SetupTypes, Slow, NotReadyYet, VoltsKnown, VersionKnown
  <2> QED BY <2>1, <2>2, <2>3
<1>8. CASE Insert \/ Remove
  BY <1>8 DEF Insert, Remove, SetupInv, SetupTypes, Slow, NotReadyYet, VoltsKnown, VersionKnown
<1> QED BY <1>1, <1>2, <1>3, <1>4, <1>5, <1>6, <1>7, <1>8 DEF SetupNext, SetupDriver

LEMMA SetupInvariance == SetupSpec => []SetupInv
BY SetupInitial, SetupStutter, SetupStep, PTL DEF SetupSpec

(* Until a card is ready it is clocked at 100 kHz, whichever card replaces *)
(* it in the middle of the sequence.                                       *)
THEOREM SlowBeforeReady == SetupSpec => []SlowUntilReady
<1>1. SetupInv => SlowUntilReady
  BY DEF SetupInv, Slow, SlowUntilReady
<1> QED BY <1>1, SetupInvariance, PTL

(* sd_card_init only reports success when the card in the slot is ready    *)
(* and works at the voltage of the board, and with the size of a card of   *)
(* high capacity.                                                          *)
THEOREM SuccessIsReady == SetupSpec => SuccessMeansReady
<1>1. SetupInv /\ [SetupNext]_setupVars => [SuccessReady]_setupVars
  BY SetupStep
<1>2. SetupInv /\ [SetupNext]_setupVars =>
        [step # "off" /\ step' = "off" /\ status' = 0 =>
           /\ state' = "ready" /\ inserted'.volts
           /\ inserted.high => blocks' = inserted.size * 1024]_setupVars
  BY <1>1 DEF SuccessReady
<1> QED BY <1>2, SetupInvariance, PTL DEF SetupSpec, SuccessMeansReady

-----------------------------------------------------------------------------
(* sd_card_init stays in its types, too.                                   *)
LEMMA SetupTypesNext == SetupInv /\ SetupTypeOK /\ [SetupNext]_setupVars => SetupTypeOK'
<1> SUFFICES ASSUME SetupInv, SetupTypeOK, [SetupNext]_setupVars PROVE SetupTypeOK'
  OBVIOUS
<1> USE DEF SetupTypeOK
<1>f. ASSUME NEW r \in {0, 1, 5, 255}, Fail(r) PROVE SetupTypeOK'
  BY <1>f DEF Fail, Give, slot
<1>a. ASSUME NEW r1 \in {0, 1, 5}, NEW good, NEW a \in Answers(r1, good)
      PROVE  a.r1 \in {0, 1, 5, 255}
  BY <1>a DEF Answers, NoAnswer, NoByte
<1>g. ASSUME NEW to \in {"ocr1", "ocr2", "acmd1", "acmd2", "csd"}, Go(to) PROVE SetupTypeOK'
  BY <1>g DEF Go, slot
<1>i. InIdle \in {0, 1, 5}
  BY DEF InIdle
<1>1. CASE Call
  BY <1>1, <1>f DEF Call, slot
<1>2. CASE Reset
  BY <1>2, <1>f DEF Reset, NoByte
<1>3. CASE Interface
  <2>1. PICK a \in Answers(IF inserted.v1 THEN 5 ELSE 1, inserted.volts) :
          Fail(a.r1) \/ Fail(255) \/ Go("ocr1") \/ Go("ocr2")
    BY <1>3 DEF Interface
  <2>2. a.r1 \in {0, 1, 5, 255}
    BY <1>a
  <2> QED BY <2>1, <2>2, <1>f, <1>g
<1>4. CASE Voltage
  <2>1. PICK a \in Answers(InIdle, inserted.volts) :
          Fail(a.r1) \/ Fail(255) \/ Go(IF step = "ocr1" THEN "acmd1" ELSE "acmd2")
    BY <1>4 DEF Voltage
  <2>2. a.r1 \in {0, 1, 5, 255}
    BY <1>a, <1>i
  <2> QED BY <2>1, <2>2, <1>f, <1>g
<1>5. CASE Operate
  <2>1. \/ Fail(NoByte) \/ UNCHANGED setupVars
        \/ /\ state' = "ready" /\ UNCHANGED inserted /\ blocks' = blocks
           /\ \/ Give(0) /\ clock' = 25000000
              \/ step' = "ccs" /\ UNCHANGED <<status, clock>>
    BY <1>5 DEF Operate
  <2> QED BY <2>1, <1>f DEF NoByte, Give, setupVars
<1>6. CASE Powered
  <2>1. PICK a \in Answers(InIdle, state = "ready") : Fail(a.r1) \/ Fail(255) \/ Go("csd")
    BY <1>6 DEF Powered
  <2>2. a.r1 \in {0, 1, 5, 255}
    BY <1>a, <1>i
  <2> QED BY <2>1, <2>2, <1>f, <1>g
<1>7. CASE ReadCsd
  <2> HIDE DEF SetupTypeOK
  <2>1. PICK a \in Answers(InIdle, TRUE) :
          \/ a.r1 # 0 /\ Fail(a.r1)
          \/ a.r1 = 0 /\ Fail(255)
          \/ a.r1 = 0 /\ Give(0) /\ blocks' = Size(inserted) /\ UNCHANGED <<clock, slot>>
    BY <1>7 DEF ReadCsd
  <2>2. a.r1 \in {0, 1, 5, 255}
    BY <1>i DEF Answers, NoAnswer, NoByte
  <2>3. Size(inserted) \in Int
    <3>1. inserted.csize \in Nat
      BY DEF NoCard, SetupTypeOK
    <3> QED BY <3>1 DEF Size
  <2> QED BY <2>1, <2>2, <2>3, <1>f DEF Give, slot, SetupTypeOK
<1>8. CASE Insert \/ Remove
  BY <1>8 DEF Insert, Remove
<1>9. CASE UNCHANGED setupVars
  BY <1>9 DEF setupVars
<1> QED BY <1>1, <1>2, <1>3, <1>4, <1>5, <1>6, <1>7, <1>8, <1>9 DEF SetupNext, SetupDriver

(* Both parts of the driver stay in their types: no block number, count or *)
(* status out of range is ever reached, by any sequence of calls, cards    *)
(* and failures.                                                           *)
THEOREM SdTypesCorrect == MCSpec => []AllTypeOK
<1> DEFINE Inv == SdInv /\ SetupInv /\ AllTypeOK
<1>1. MCInit => Inv
  <2>1. SetupInit => SetupTypeOK
    BY DEF SetupInit, SetupTypeOK, NoByte, Unset
  <2> QED BY <2>1, SdInitial, SetupInitial, TypesInit DEF MCInit, AllTypeOK
<1>2. Inv /\ [MCNext]_<<part, vars, setupVars>> => Inv'
  <2> SUFFICES ASSUME Inv, [MCNext]_<<part, vars, setupVars>> PROVE Inv'
    OBVIOUS
  <2>1. [Next]_vars /\ [SetupNext]_setupVars
    BY DEF MCNext
  <2> QED BY <2>1, SdNext, TypesNext, SetupStep, SetupStutter, SetupTypesNext DEF AllTypeOK
<1> QED BY <1>1, <1>2, PTL DEF MCSpec
=============================================================================
