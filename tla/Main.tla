-------------------------------- MODULE Main --------------------------------
(***************************************************************************)
(* The main program, src/src/main.c: it borrows the UART and the ADC, then *)
(* triggers the ADC, reports what it measured over the radio, and sleeps   *)
(* until an interrupt. The peripherals are those of Peripheral, with the   *)
(* program as their one client; pin 16 is that of channel 0.               *)
(***************************************************************************)
EXTENDS Peripheral

VARIABLES
  at,         \* the call the program is about to make, or "asleep"
  lora_power  \* is the radio powered

mainVars == <<vars, at, lora_power>>

measured == {Channel0}

MainInit == Init /\ at = "uart" /\ lora_power = FALSE

Go(from, to) == at = from /\ at' = to

TakeUart == Go("uart", "adc") /\ UNCHANGED lora_power
            /\ \E c \in Client : GetInstance(c, "uart", {})

TakeAdc == Go("adc", "trigger") /\ UNCHANGED lora_power
           /\ \E c \in Client : GetInstance(c, "adc", measured)

Trigger == Go("trigger", "sample") /\ UNCHANGED lora_power
           /\ \E c \in Client : AdcTrigger(c)

(* The radio is powered when there is a sample. *)
Sample ==
  /\ Go("sample", IF Enough THEN "join" ELSE "sleep") /\ lora_power' = Enough
  /\ \E c \in Client : GetSample(c, measured)

(* lora_init is called until it succeeds. *)
Join == /\ at = "join" /\ at' \in {"join", "report"} /\ UNCHANGED <<vars, lora_power>>

Report == Go("report", "sleep") /\ lora_power' = FALSE /\ UNCHANGED vars

DeepSleep == Go("sleep", "asleep") /\ UNCHANGED <<vars, lora_power>>

(* Each conversion interrupts, which ends the sleep if there is one, and   *)
(* only counts if the interrupt of the ADC is enabled.                     *)
Convert ==
  /\ "adc" \in Kind /\ AdcConvert /\ UNCHANGED lora_power
  /\ at' = IF at = "asleep" /\ irq["adc"] THEN "trigger" ELSE at

Program == TakeUart \/ TakeAdc \/ Trigger \/ Sample \/ Join \/ Report \/ DeepSleep

MainNext == Program \/ Convert

(* The program runs while it is awake, the converter converts, and the     *)
(* radio answers lora_init at some time.                                   *)
MainSpec ==
  MainInit /\ [][MainNext]_mainVars
  /\ WF_mainVars(Program) /\ WF_mainVars(Convert) /\ SF_mainVars(Join /\ at' = "report")

(* The program reports again and again: "Print the battery voltage and     *)
(* temperature for each interrupt", and "Sleep here until the next ADC     *)
(* interrupt comes along" (main.c:145, 197).                               *)
Reports == []<>(at = "report")
=============================================================================
