------------------------------ MODULE MCRadio ------------------------------
(***************************************************************************)
(* The radio: a behaviour is one of its packets, or one of its settings.   *)
(*                                                                         *)
(* Lora with a FIFO of four bytes, packets shorter than, as long as and    *)
(* longer than the half that sends, and buffers that hold less and more.   *)
(*                                                                         *)
(* LoraConfig with the smallest and the largest legal argument of every    *)
(* setting, one between, and ones that are illegal or do not fit.          *)
(***************************************************************************)
EXTENDS Lora, LoraConfig

VARIABLE part

MCPackets == {<<>>, <<1>>, <<2, 1>>, <<1, 2, 1>>}

MCBandwidths == {0, 7, 15, 18}
MCRates == {0, 1, 7, 9, 128}
MCFactors == {5, 6, 7, 12, 13}
MCGains == {1, 6}
MCLevels == {-5, -4, -1, 0, 2, 15, 17, 18}

MCInit == Init /\ CfgInit /\ part \in {"packets", "settings"}

MCNext ==
  /\ UNCHANGED part
  /\ \/ part = "packets" /\ Next /\ UNCHANGED cfgVars
     \/ part = "settings" /\ CfgNext /\ UNCHANGED vars

(* Without another interrupt, and with one again and again.                *)
MCSpec == MCInit /\ [][MCNext]_<<part, vars, cfgVars>> /\ Fairness
MCSpecTimer == MCSpec /\ WF_vars(Other)
=============================================================================
