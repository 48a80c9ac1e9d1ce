------------------------------- MODULE Sensors -------------------------------
(***************************************************************************)
(* src/src/bme280.c: the sensor of temperature, pressure and humidity. The *)
(* chip converts on demand, beside the processor, while the driver polls   *)
(* its status; a register that says whether humidity is converted counts   *)
(* only from the next write of the control register. The processor can     *)
(* restart at any step, with or without the sensor losing power.           *)
(***************************************************************************)
EXTENDS Integers

VARIABLES
  humidity,  \* chip: is converting humidity asked for (register 0xF2)
  converts,  \* chip: the quantities the next conversion includes
  measuring, \* chip: is a conversion running
  data,      \* chip: quantity -> what its data register holds
  phase,     \* what the driver does next
  sample     \* history: what bme280_get_sample has just returned

sensorVars == <<humidity, converts, measuring, data, phase, sample>>

Quantity == {"temperature", "pressure", "humidity"}

(* A data register holds the value of no conversion, of one begun before   *)
(* the latest call of bme280_get_sample, or of the one this call began.    *)
Age == {"none", "old", "new"}
Blank == [q \in Quantity |-> "none"]
Nothing == <<>>

SensorInit ==
  /\ humidity = FALSE /\ converts = {} /\ measuring = FALSE /\ data = Blank
  /\ phase = "boot" /\ sample = Nothing

-----------------------------------------------------------------------------
(* A write of the control register 0xF4, here always with temperature and  *)
(* pressure, makes the setting of the humidity count.                      *)
WriteControl(forced) ==
  /\ converts' = Quantity \ (IF humidity THEN {} ELSE {"humidity"})
  /\ measuring' = (measuring \/ forced)

(* bme280_init: the calibration is read, which changes nothing, then the   *)
(* humidity is asked for, then the control register written, to sleep.     *)

(* Mutant: the humidity is not asked for. *)
SetHumidityNot ==
  /\ phase = "boot" /\ phase' = "control"
  /\ UNCHANGED <<humidity, converts, measuring, data, sample>>

SetHumidity ==
  /\ phase = "boot" /\ phase' = "control" /\ humidity' = TRUE
  /\ UNCHANGED <<converts, measuring, data, sample>>

SetControl ==
  /\ phase = "control" /\ phase' = "ready" /\ WriteControl(FALSE)
  /\ UNCHANGED <<humidity, data, sample>>

(* bme280_get_sample: force a conversion, poll the status until it is 0,   *)
(* read the three values in one transaction.                               *)
Trigger ==
  /\ phase = "ready" /\ phase' = "poll" /\ WriteControl(TRUE)
  /\ data' = [q \in Quantity |-> IF data[q] = "new" THEN "old" ELSE data[q]]
  /\ sample' = Nothing /\ UNCHANGED humidity

(* Mutant: the status is not waited for. *)
PollOnce ==
  /\ phase = "poll" /\ phase' = "read"
  /\ UNCHANGED <<humidity, converts, measuring, data, sample>>

(* Mutant: the polarity of the status is taken the other way around. *)
PollInverted ==
  /\ phase = "poll" /\ measuring /\ phase' = "read"
  /\ UNCHANGED <<humidity, converts, measuring, data, sample>>

Poll ==
  /\ phase = "poll" /\ ~measuring /\ phase' = "read"
  /\ UNCHANGED <<humidity, converts, measuring, data, sample>>

ReadSample ==
  /\ phase = "read" /\ phase' = "ready" /\ sample' = data
  /\ UNCHANGED <<humidity, converts, measuring, data>>

-----------------------------------------------------------------------------
(* The chip. A quantity left out reads as no conversion.                   *)
Converted == [q \in Quantity |-> IF q \in converts THEN "new" ELSE "none"]

Convert ==
  /\ measuring /\ measuring' = FALSE /\ data' = Converted
  /\ UNCHANGED <<humidity, converts, phase, sample>>

(* A restart takes the processor longer than a conversion the sensor.      *)
Reset ==
  /\ measuring' = FALSE /\ data' = IF measuring THEN Converted ELSE data
  /\ UNCHANGED <<humidity, converts>>

PowerCycle == humidity' = FALSE /\ converts' = {} /\ measuring' = FALSE /\ data' = Blank

RestartSensors ==
  /\ phase # "boot" /\ phase' = "boot" /\ sample' = Nothing
  /\ (Reset \/ PowerCycle)

SensorNext ==
  \/ SetHumidity \/ SetControl \/ Trigger \/ Poll \/ ReadSample
  \/ Convert \/ RestartSensors

SensorFairness == WF_sensorVars(Convert) /\ WF_sensorVars(Poll \/ ReadSample)
SensorSpec == SensorInit /\ [][SensorNext]_sensorVars /\ SensorFairness

-----------------------------------------------------------------------------
(* Properties.                                                             *)

(* Every variable stays in its range.                                      *)
SensorTypeOK ==
  /\ humidity \in BOOLEAN /\ converts \subseteq Quantity /\ measuring \in BOOLEAN
  /\ data \in [Quantity -> Age]
  /\ (sample = Nothing \/ sample \in [Quantity -> Age])
  /\ phase \in {"boot", "control", "ready", "poll", "read"}

(* bme280_get_sample returns the three values of one conversion, one that  *)
(* began after it was called, whatever a call broken off by a restart left *)
(* in the sensor.                                                          *)
SampleFresh == sample # Nothing => \A q \in Quantity : sample[q] = "new"

(* A call that has begun returns, or the processor restarts.               *)
SampleReturned == phase = "poll" ~> phase \in {"ready", "boot"}
=============================================================================
