------------------------------ MODULE LoraConfig ------------------------------
(***************************************************************************)
(* src/src/lora.c: the settings of the radio. Every setting is a field of  *)
(* an 8-bit register that the driver reads, changes and writes back; some  *)
(* registers hold several fields, some settings span several registers.    *)
(***************************************************************************)
EXTENDS Registers

CONSTANTS
  Bandwidths, Rates, Factors, Gains, \* the arguments tried: of the bandwidth, the
  Levels                             \* coding rate, the spreading factor, the LNA
                                     \* gain and the transmit level (in dBm)
ASSUME LoraConfigAssumption ==
  /\ Bandwidths \subseteq 0 .. 255 /\ Rates \subseteq 0 .. 255
  /\ Factors \subseteq 0 .. 255 /\ Gains \subseteq 1 .. 6 /\ Levels \subseteq -128 .. 127

Names == {"OPMODE", "MODEM_CONFIG1", "MODEM_CONFIG2", "LNA", "PA_CONFIG",
          "DETECT_OPTIMIZE", "DETECTION_THRESHOLD"}

VARIABLES
  reg,     \* the registers of the radio
  asked    \* what was asked for last, and accepted, of each setting; spoilt: a
           \* coding rate reached into the bandwidth since that was set
cfgVars == <<reg, asked>>

Modes == [sleep |-> 0, standby |-> 1, tx |-> 3, rx |-> 5]

Change(name, lsb, width, v) == [reg EXCEPT ![name] = With(@, lsb, width, v)]

(* After lora_init: LoRa mode, high frequency, asleep; the bandwidth, the  *)
(* coding rate and the spreading factor are those the radio starts with.   *)
CfgInit ==
  /\ reg = [n \in Names |->
       CASE n = "OPMODE" -> 128 [] n = "MODEM_CONFIG1" -> 114
         [] n = "MODEM_CONFIG2" -> 112 [] n = "LNA" -> 35 [] n = "PA_CONFIG" -> 160
         [] n = "DETECT_OPTIMIZE" -> 195 [] OTHER -> 10]
  /\ asked = [bandwidth |-> 7, spoilt |-> FALSE, rate |-> 1, factor |-> 7, gain |-> 1, boost |-> TRUE,
              low |-> FALSE, mode |-> "sleep", dBm |-> 2, high |-> TRUE]

-----------------------------------------------------------------------------
(* lora_set_bandwidth and lora_set_coding_rate. Neither looks at its       *)
(* argument. The bandwidth is the top of its register, so that what does   *)
(* not fit is shifted out; a coding rate is ORed in shifted, and what does *)
(* not fit in its three bits goes into the bandwidth.                      *)
SetBandwidth(b) ==
  /\ reg' = Change("MODEM_CONFIG1", 4, 4, b)
  /\ asked' = [asked EXCEPT !.bandwidth = b, !.spoilt = FALSE]

Over(r) == (r \div 8) % 16

WithRate(byte, r) == With(With(byte, 1, 3, r), 4, 4, BitOr(Field(byte, 4, 4), Over(r)))

RateAsked(r) == [asked EXCEPT !.rate = r, !.spoilt = @ \/ Over(r) # 0]

(* Mutant: the mask keeps one bit too few. *)
SetCodingRateWide(r) ==
  reg' = Change("MODEM_CONFIG1", 1, 4, r) /\ asked' = RateAsked(r)
SetCodingRate(r) ==
  /\ reg' = [reg EXCEPT !["MODEM_CONFIG1"] = WithRate(@, r)]
  /\ asked' = RateAsked(r)

(* lora_set_spreading_factor.                                              *)

(* Mutant: the detection registers keep what spreading factor 6 needs. *)
SetSpreadingFactorKept(f) ==
  /\ f \in 6 .. 12 /\ asked' = [asked EXCEPT !.factor = f]
  /\ reg' = [Change("MODEM_CONFIG2", 4, 4, f) EXCEPT
               !["DETECT_OPTIMIZE"] = IF f = 6 THEN 197 ELSE @,
               !["DETECTION_THRESHOLD"] = IF f = 6 THEN 12 ELSE @]

SetSpreadingFactor(f) ==
  \/ f \notin 6 .. 12 /\ UNCHANGED cfgVars
  \/ /\ f \in 6 .. 12 /\ asked' = [asked EXCEPT !.factor = f]
     /\ reg' = [Change("MODEM_CONFIG2", 4, 4, f) EXCEPT
                  !["DETECT_OPTIMIZE"] = IF f = 6 THEN 197 ELSE 195,
                  !["DETECTION_THRESHOLD"] = IF f = 6 THEN 12 ELSE 10]

(* lora_set_lna: the gain replaces the top three bits, the current the two *)
(* lowest.                                                                 *)
SetLna(gain, boost) ==
  /\ reg' = [reg EXCEPT !["LNA"] =
               With(With(@, 0, 2, IF boost THEN 3 ELSE 0), 5, 3, gain)]
  /\ asked' = [asked EXCEPT !.gain = gain, !.boost = boost]

(* lora_set_frequency, of which only the choice of the band shares a       *)
(* register with other settings.                                           *)
SetFrequency(low) ==
  /\ reg' = Change("OPMODE", 3, 1, IF low THEN 1 ELSE 0)
  /\ asked' = [asked EXCEPT !.low = low]

(* lora_set_transmit_level: the largest power, then the power below it.    *)
Power(dBm, high) ==
  IF high THEN [max |-> 10, output |-> dBm - 2]
  ELSE IF dBm < 0 THEN [max |-> 0, output |-> dBm + 4] ELSE [max |-> 7, output |-> dBm]

PaConfig(dBm, high) ==
  (IF high THEN 128 ELSE 0) + (Power(dBm, high).max % 4) * 16 + (Power(dBm, high).output % 16)

SetTransmitLevel(dBm, high) ==
  LET valid == IF high THEN dBm \in 2 .. 17 ELSE dBm \in -4 .. 15 IN
  \/ ~valid /\ UNCHANGED cfgVars
  \/ /\ valid /\ asked' = [asked EXCEPT !.dBm = dBm, !.high = high]
     /\ reg' = [reg EXCEPT !["PA_CONFIG"] = PaConfig(dBm, high)]

(* change_mode; lora_receive_mode and lora_transmit_mode also ask for an   *)
(* explicit header.                                                        *)
ChangeMode(m) ==
  /\ reg' = [Change("OPMODE", 0, 3, Modes[m]) EXCEPT !["MODEM_CONFIG1"] =
               IF m \in {"rx", "tx"} THEN With(@, 0, 1, 0) ELSE @]
  /\ asked' = [asked EXCEPT !.mode = m]

CfgNext ==
  \/ \E b \in Bandwidths : SetBandwidth(b)
  \/ \E r \in Rates : SetCodingRate(r)
  \/ \E f \in Factors : SetSpreadingFactor(f)
  \/ \E g \in Gains, boost \in BOOLEAN : SetLna(g, boost)
  \/ \E low \in BOOLEAN : SetFrequency(low)
  \/ \E dBm \in Levels, high \in BOOLEAN : SetTransmitLevel(dBm, high)
  \/ \E m \in DOMAIN Modes : ChangeMode(m)

CfgSpec == CfgInit /\ [][CfgNext]_cfgVars

-----------------------------------------------------------------------------
(* Properties.                                                             *)

(* The settings that share registers do not disturb each other: each is    *)
(* still, whatever was set since, what was asked for, as far as it fits;   *)
(* and the radio stays in LoRa mode. One argument does disturb: a coding   *)
(* rate above 7 (lora.c:418-419) leaves the rate as asked for, modulo 8,   *)
(* but can add bits to the bandwidth, until that is set again.             *)
FieldsIndependent ==
  /\ reg \in [Names -> 0 .. 255]
  /\ LET bandwidth == Field(reg["MODEM_CONFIG1"], 4, 4)
     IN  /\ bandwidth # asked.bandwidth % 16 => asked.spoilt
         /\ Includes(bandwidth, asked.bandwidth % 16)
  /\ asked.rate % 8 = Field(reg["MODEM_CONFIG1"], 1, 3)
  /\ asked.factor = Field(reg["MODEM_CONFIG2"], 4, 4)
  /\ asked.gain = Field(reg["LNA"], 5, 3) /\ asked.boost = (Field(reg["LNA"], 0, 2) = 3)
  /\ asked.low = (Field(reg["OPMODE"], 3, 1) = 1)
  /\ Modes[asked.mode] = Field(reg["OPMODE"], 0, 3)
  /\ Field(reg["OPMODE"], 7, 1) = 1

(* The detection registers are those of spreading factor 6 exactly when    *)
(* this is the factor, also after a rejected one.                          *)
DetectionFollowsFactor ==
  /\ (reg["DETECT_OPTIMIZE"] = 197) = (Field(reg["MODEM_CONFIG2"], 4, 4) = 6)
  /\ (reg["DETECTION_THRESHOLD"] = 12) = (Field(reg["MODEM_CONFIG2"], 4, 4) = 6)

(* The power the radio sends with, in tenths of a dBm (external).          *)
OutputPower ==
  LET pa == reg["PA_CONFIG"]
      below == 10 * (15 - Field(pa, 0, 4))
  IN IF Field(pa, 7, 1) = 1 THEN 170 - below ELSE 108 + 6 * Field(pa, 4, 3) - below

(* The power is the one asked for with the amplifier, and 0.2 dB below it  *)
(* for less than 0 dBm without. From 0 dBm on the largest power is not the *)
(* 15 dBm that lora.c:126 computes with: of its 7 the register takes two   *)
(* bits, and the radio sends with 2.4 dB less than what was asked for.     *)
PowerAsAsked ==
  OutputPower - 10 * asked.dBm =
    IF asked.high THEN 0 ELSE IF asked.dBm < 0 THEN -2 ELSE -24

(* The header stays explicit whatever was set, so also with spreading      *)
(* factor 6, for which lora.c:266-269 demands an implicit one and          *)
(* lora.h:209-211 says the driver changes to it.                           *)
HeaderExplicit == Field(reg["MODEM_CONFIG1"], 0, 1) = 0

(* What spans several registers, or a range with an offset, is consistent  *)
(* after any calls, those that are refused included: the detection with    *)
(* the spreading factor, the power with the level; the header follows      *)
(* neither.                                                                *)
SettingsConsistent == DetectionFollowsFactor /\ PowerAsAsked /\ HeaderExplicit
=============================================================================
