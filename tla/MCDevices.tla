------------------------------ MODULE MCDevices ------------------------------
(***************************************************************************)
(* The devices that share nothing but the processor: the real time clock,  *)
(* the sensor and the peripherals the firmware borrows. A behaviour is one *)
(* of one of them; of the clock, one of its two groups of registers.       *)
(***************************************************************************)
EXTENDS Peripheral, Rtc, Sensors

VARIABLE part

AllKinds == {"uart", "adc", "pdm"}
AllOutcomes == {"ok", "none", "half"}

(* The clock over the turn of a year, then a leap day.                     *)
MCCalendar == <<
  [usec |-> 987654, sec |-> 59, min |-> 59, hour |-> 23, mday |-> 31, mon |-> 11,
   year |-> 119, wday |-> 2],
  [usec |-> 0, sec |-> 0, min |-> 0, hour |-> 0, mday |-> 1, mon |-> 0,
   year |-> 120, wday |-> 3],
  [usec |-> 120000, sec |-> 8, min |-> 34, hour |-> 19, mday |-> 29, mon |-> 1,
   year |-> 120, wday |-> 6]>>

(* None, a period for each of the timer's units, and beyond 256 s one less *)
(* than five minutes, one less than 256 minutes and one more.              *)
MCPeriods == {0, 200, 257, 5 * 4096, 290 * 4096, 400 * 4096, 16000 * 4096}
MCRepeats == {-1, 0, 7}

MCInit ==
  /\ Init /\ RtcInit /\ SensorInit
  /\ part \in Kind \cup {"clock", "control", "sensor"}

MCNext ==
  /\ UNCHANGED part
  /\ \/ part \in Kind /\ KindNext(part) /\ UNCHANGED <<rtcVars, sensorVars>>
     \/ part = "clock" /\ ClockNext /\ UNCHANGED <<vars, sensorVars>>
     \/ part = "control" /\ ControlNext /\ UNCHANGED <<vars, sensorVars>>
     \/ part = "sensor" /\ SensorNext /\ UNCHANGED <<vars, rtcVars>>

MCSpec ==
  MCInit /\ [][MCNext]_<<part, vars, rtcVars, sensorVars>> /\ SensorFairness
AllTypeOK == TypeOK /\ RtcTypeOK /\ SensorTypeOK
=============================================================================
