-------------------------------- MODULE MCSd --------------------------------
(***************************************************************************)
(* The SD card: a behaviour is one of its initialization or one of its     *)
(* commands, reads and writes.                                             *)
(*                                                                         *)
(* SdCard on a card of two blocks, with calls of up to two blocks, and 4   *)
(* for 2^32, so that block numbers beyond the card and wrapping sums are   *)
(* among the calls. Two milliseconds stand for the 100 of the wait for a   *)
(* block, two bytes for the 7 of the wait for a response. The driver runs  *)
(* under no adversity, under each, and under the first three together.     *)
(*                                                                         *)
(* SdInit with cards of every kind: two of high capacity, one of them for  *)
(* another voltage; one of standard capacity, in whose CSD the bits read   *)
(* hold something else; and two of version 1.                              *)
(***************************************************************************)
EXTENDS SdCard, SdInit

VARIABLE part

MCConditions == {{}, {"streams"}, {"low"}, {"slow"}, {"late"},
                 {"streams", "low", "slow"}}

Card(v1, high, volts, size, csize) ==
  [v1 |-> v1, high |-> high, volts |-> volts, size |-> size, csize |-> csize]

MCCards == {Card(FALSE, TRUE, TRUE, 4, 3), Card(FALSE, TRUE, FALSE, 2, 1),
            Card(FALSE, FALSE, TRUE, 1, 7), Card(TRUE, FALSE, TRUE, 1, 5),
            Card(TRUE, FALSE, FALSE, 2, 5)}

(* Of the initialization, one run of the other variables is enough.        *)
MCInit == /\ Init /\ SetupInit
          /\ part \in {"init", "transfer"} /\ (part = "init" => adverse = {})

MCNext ==
  /\ UNCHANGED part
  /\ \/ part = "init" /\ SetupNext /\ UNCHANGED vars
     \/ part = "transfer" /\ Next /\ UNCHANGED setupVars

MCSpec ==
  /\ MCInit /\ [][MCNext]_<<part, vars, setupVars>>
  /\ WF_vars(Driver) /\ WF_vars(Tick) /\ WF_vars(CardFinishes) /\ WF_setupVars(SetupDriver)

AllTypeOK == TypeOK /\ SetupTypeOK

(* Whatever the card does, a call of the driver returns: sd_card_init when *)
(* cards are swapped during it, the others unless the line is stuck low.   *)
EveryCallReturns == CallsReturn /\ InitReturns
=============================================================================
