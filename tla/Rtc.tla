--------------------------------- MODULE Rtc ---------------------------------
(***************************************************************************)
(* src/src/am1815.c: the real time clock, a chip with a battery of its own *)
(* on the SPI bus. A call of the driver is a sequence of transactions, and *)
(* most calls read a register, change a field and write it back; meanwhile *)
(* the clock and its countdown timer run on, and a restart of the          *)
(* processor can leave any call half done. One transaction is one step.    *)
(***************************************************************************)
EXTENDS Registers, Sequences

CONSTANTS
  Calendar,  \* the instants the clock goes through, as the dates of gmtime_r
  Periods,   \* the periods asked of the timer, in 1/4096 s
  Repeats,   \* the arguments of am1815_repeat_alarm
  Pulses     \* the pulses of the alarm's interrupt, of 0 .. 3

(* Dates of gmtime_r, of the years 2000 to 2099 that two digits stand for. *)
Million == 1000000
Date == [usec : 0 .. Million - 1, sec : 0 .. 60, min : 0 .. 59, hour : 0 .. 23,
         mday : 1 .. 31, mon : 0 .. 11, year : 100 .. 199, wday : 0 .. 6]

VARIABLES
  chip,       \* the registers of the clock
  job,        \* the call under way: what for, its argument, its next step, what it read
  returned,   \* history: the call that has just returned, and its result
  shown,      \* history: the instant the clock has to show
  alarmed,    \* history: the instant last asked for as the alarm
  programmed  \* history: frequency and initial value last asked of the timer

rtcVars == <<chip, job, returned, shown, alarmed, programmed>>

Address == (0 .. 14) \cup {17, 18, 24, 25, 26, 31, 32}
OUT == 17  INTMASK == 18  TIMER_CONTROL == 24  TIMER == 25  TIMER_INITIAL == 26
KEY == 31  TRICKLE == 32
Instant == 1 .. Len(Calendar)
Idle == [op |-> "none", arg |-> 0, step |-> 0, buf |-> <<>>]
Silent == [op |-> "none", arg |-> 0, result |-> <<>>]

-----------------------------------------------------------------------------
(* Dates and registers. Each register of a date holds two decimal digits   *)
(* in its lowest bits; what is above belongs to nobody and is kept.        *)

(* Mutant: the tens are shifted as in plain binary. *)
ToBcdPlain(value) == value
ToBcd(value) == (value % 10) + 16 * ((value \div 10) % 10)
FromBcd(bcd) == (bcd % 16) + 10 * (bcd \div 16)

(* Mutant: the mask of the hours also covers the bit above. *)
TimeWidthWide == <<8, 7, 7, 7, 6, 5, 8, 3>>
TimeWidth == <<8, 7, 7, 6, 6, 5, 8, 3>>
AlarmWidth == <<8, 7, 7, 6, 6, 5, 3>>

TimeValues(d) == <<d.usec \div 10000, d.sec, d.min, d.hour, d.mday, d.mon + 1,
                   (d.year + 1900) % 100, d.wday>>
AlarmValues(d) == <<d.usec \div 10000, d.sec, d.min, d.hour, d.mday, d.mon + 1, d.wday>>

(* Instants differ by a hundredth of a second at least, all the chip shows.*)
ASSUME RtcAssumption ==
  /\ Calendar \in Seq(Date) /\ Len(Calendar) > 0
  /\ \A i, j \in 1 .. Len(Calendar) :
       TimeValues(Calendar[i]) = TimeValues(Calendar[j]) => i = j
  /\ Periods \subseteq Nat /\ Repeats \subseteq Int /\ Pulses \subseteq 0 .. 3

Merge(bytes, width, values) ==
  [i \in DOMAIN bytes |-> With(bytes[i], 0, width[i], ToBcd(values[i]))]

Low(i, data) == FromBcd(Field(data[i], 0, TimeWidth[i]))

(* What am1815_read_time and am1815_read_alarm hand to mktime; the alarm   *)
(* has no year.                                                            *)
TimeOf(data) ==
  [usec |-> Low(1, data) * 10000, sec |-> Low(2, data), min |-> Low(3, data),
   hour |-> Low(4, data), mday |-> Low(5, data), mon |-> Low(6, data) - 1,
   year |-> Low(7, data) + 100, wday |-> Low(8, data)]

(* mktime (external) turns 29 February 1900, which never was, into 1 March.*)
AlarmOf(data) ==
  LET leap == Low(6, data) = 2 /\ Low(5, data) = 29 IN
  [usec |-> Low(1, data) * 10000, sec |-> Low(2, data), min |-> Low(3, data),
   hour |-> Low(4, data), mday |-> IF leap THEN 1 ELSE Low(5, data),
   mon |-> IF leap THEN 2 ELSE Low(6, data) - 1]

-----------------------------------------------------------------------------
(* Transactions, and the course of a call.                                 *)
ReadBulk(addr, size) == [i \in 1 .. size |-> chip[addr + i - 1]]
WriteBulk(addr, data) ==
  chip' = [a \in Address |-> IF a - addr + 1 \in DOMAIN data THEN data[a - addr + 1]
                             ELSE chip[a]]
(* The chip (external) takes a setting of the charger after the key only.  *)
WriteRegister(addr, data) ==
  chip' = IF addr # TRICKLE THEN [chip EXCEPT ![addr] = data]
          ELSE IF chip[KEY] = 157 THEN [chip EXCEPT ![TRICKLE] = data, ![KEY] = 0] ELSE chip

Answer(op, arg, result) ==
  job' = Idle /\ returned' = [op |-> op, arg |-> arg, result |-> result]
Begin(op, arg, buf) ==
  /\ job' = [op |-> op, arg |-> arg, step |-> 1, buf |-> buf]
  /\ returned' = Silent
At(op, step) == job.op = op /\ job.step = step
Proceed(buf) ==
  job' = [job EXCEPT !.step = @ + 1, !.buf = buf] /\ returned' = Silent
Finish(result) == Answer(job.op, job.arg, result)
NoneAsked == UNCHANGED <<shown, alarmed, programmed>>

(* How the chip (external) holds an instant, also at the start, where every*)
(* bit that belongs to nobody is set.                                      *)
DigitWidth == <<8, 7, 7, 6, 6, 5, 8, 3>>
Digits(i) == [n \in 1 .. 8 |-> LET v == TimeValues(Calendar[i])[n] IN
                               16 * (v \div 10) + (v % 10)]

RtcInit ==
  /\ chip = [a \in Address |->
       IF a < 8 THEN With(255, 0, DigitWidth[a + 1], Digits(1)[a + 1])
       ELSE IF a < 14 THEN With(255, 0, DigitWidth[a - 7], Digits(1)[a - 7])
       ELSE IF a = 14 THEN With(255, 0, 3, Digits(1)[8])
       ELSE CASE a = OUT -> 60 [] a = INTMASK -> 224 [] a = TIMER_CONTROL -> 35 [] OTHER -> 0]
  /\ job = Idle /\ returned = Silent
  /\ shown = 1 /\ alarmed = 1 /\ programmed = <<3, 0>>

-----------------------------------------------------------------------------
(* The time and the alarm.                                                 *)
ReadTime ==
  /\ job = Idle /\ Answer("read_time", 0, <<TimeOf(ReadBulk(0, 8))>>)
  /\ UNCHANGED chip /\ NoneAsked

WriteTime(t) ==
  \/ job = Idle /\ Begin("write_time", t, ReadBulk(0, 8)) /\ UNCHANGED chip /\ NoneAsked
  \/ /\ At("write_time", 1) /\ t = job.arg /\ Finish(<<>>)
     /\ WriteBulk(0, Merge(job.buf, TimeWidth, TimeValues(Calendar[t])))
     /\ shown' = t /\ UNCHANGED <<alarmed, programmed>>

ReadAlarm ==
  /\ job = Idle /\ Answer("read_alarm", 0, <<AlarmOf(ReadBulk(8, 7))>>)
  /\ UNCHANGED chip /\ NoneAsked

WriteAlarm(t) ==
  \/ job = Idle /\ Begin("write_alarm", t, ReadBulk(8, 7)) /\ UNCHANGED chip /\ NoneAsked
  \/ /\ At("write_alarm", 1) /\ t = job.arg /\ Finish(<<>>)
     /\ WriteBulk(8, Merge(job.buf, AlarmWidth, AlarmValues(Calendar[t])))
     /\ alarmed' = t /\ UNCHANGED <<shown, programmed>>

RepeatAlarm(n) ==
  \/ /\ job = Idle /\ UNCHANGED chip /\ NoneAsked
     /\ IF n < 0 \/ n > 7 THEN Answer("repeat", n, <<FALSE>>)
        ELSE Begin("repeat", n, ReadBulk(TIMER_CONTROL, 1))
  \/ /\ At("repeat", 1) /\ n = job.arg /\ Finish(<<TRUE>>) /\ NoneAsked
     /\ WriteRegister(TIMER_CONTROL, With(job.buf[1], 2, 3, n))

-----------------------------------------------------------------------------
(* The countdown timer. It counts units of 1/4096 s, 1/64 s, 1 s or 1 min  *)
(* down from its initial value; its period is one unit longer than that.   *)
Second == 4096
Minute == 60 * Second

find_timer(p) ==
  IF p <= 256 THEN p
  ELSE IF p <= 4 * Second THEN p - (p % 64)
  ELSE IF p <= 256 * Second THEN p - (p % Second)
  ELSE IF p <= 256 * Minute THEN p - (p % Minute)
  ELSE 256 * Minute

(* Frequency and initial value. In minutes the code multiplies by 1 / 60,  *)
(* which is 0, and in seconds it counts those of the period as given, of   *)
(* which the register takes the low byte.                                  *)
Program(p) ==
  LET final == find_timer(p) IN
  IF final <= 256 THEN <<0, final - 1>>
  ELSE IF final <= 4 * Second THEN <<1, final \div 64 - 1>>
  ELSE IF final <= 256 * Second THEN <<2, (p \div Second - 1) % 256>>
  ELSE <<3, 255>>

(* Mutant: the timer is not stopped before it is changed. *)
StoppedRunning(control) == control
Stopped(control) == With(control, 7, 1, 0)

WriteTimer(p) ==
  \/ /\ job = Idle /\ UNCHANGED chip /\ NoneAsked
     /\ IF find_timer(p) = 0 THEN Answer("write_timer", p, <<0>>)
        ELSE Begin("write_timer", p, ReadBulk(TIMER_CONTROL, 1))
  \/ /\ p = job.arg /\ NoneAsked /\ Proceed(job.buf)
     /\ \/ At("write_timer", 1) /\ WriteRegister(TIMER_CONTROL, Stopped(job.buf[1]))
        \/ At("write_timer", 2) /\ WriteRegister(TIMER, Program(p)[2])
        \/ At("write_timer", 3) /\ WriteRegister(TIMER_INITIAL, Program(p)[2])
  \/ /\ At("write_timer", 4) /\ p = job.arg /\ Finish(<<find_timer(p)>>)
     /\ WriteRegister(TIMER_CONTROL, 160 + 4 * Field(job.buf[1], 2, 3) + Program(p)[1])
     /\ programmed' = Program(p) /\ UNCHANGED <<shown, alarmed>>

ReadTimer ==
  /\ job = Idle /\ Answer("read_timer", 0, ReadBulk(TIMER, 1))
  /\ UNCHANGED chip /\ NoneAsked

-----------------------------------------------------------------------------
(* The interrupt of the alarm and its pin, and the charger of the battery. *)
EnableAlarmInterrupt(pulse) ==
  /\ NoneAsked
  /\ \/ job = Idle /\ Begin("enable", pulse, ReadBulk(INTMASK, 1)) /\ UNCHANGED chip
     \/ /\ At("enable", 1) /\ pulse = job.arg /\ Proceed(<<>>)
        /\ WriteRegister(INTMASK, With(With(job.buf[1], 5, 2, pulse), 2, 1, 1))
     \/ At("enable", 2) /\ pulse = job.arg /\ Proceed(ReadBulk(OUT, 1)) /\ UNCHANGED chip
     \/ /\ At("enable", 3) /\ pulse = job.arg /\ Finish(<<>>)
        /\ WriteRegister(OUT, With(job.buf[1], 0, 2, 3))

DisableAlarmInterrupt ==
  /\ NoneAsked
  /\ \/ job = Idle /\ Begin("disable", 0, ReadBulk(INTMASK, 1)) /\ UNCHANGED chip
     \/ /\ At("disable", 1) /\ Finish(<<>>)
        /\ WriteRegister(INTMASK, With(job.buf[1], 2, 1, 0))

Trickle(setting) ==                       \* 165: charge, 0: do not
  /\ NoneAsked
  /\ \/ job = Idle /\ Begin("trickle", setting, <<>>) /\ WriteRegister(KEY, 157)
     \/ /\ At("trickle", 1) /\ setting = job.arg /\ Finish(<<>>)
        /\ WriteRegister(TRICKLE, setting)

-----------------------------------------------------------------------------
(* The chip, and the processor that loses power or is reset.               *)
Tick ==
  \E i \in Instant \ {Len(Calendar)} :
    /\ \A n \in 1 .. 8 : Field(chip[n - 1], 0, DigitWidth[n]) = Digits(i)[n]
    /\ chip' = [a \in Address |->
         IF a < 8 THEN With(chip[a], 0, DigitWidth[a + 1], Digits(i + 1)[a + 1]) ELSE chip[a]]
    /\ shown' = shown + 1 /\ returned' = Silent /\ UNCHANGED <<job, alarmed, programmed>>

Running == Field(chip[TIMER_CONTROL], 7, 1) = 1

(* Counting down, to the end at once; then it begins anew.                 *)
Countdown ==
  /\ Running /\ chip[TIMER_INITIAL] > 0
  /\ chip' = [chip EXCEPT ![TIMER] = IF @ > 0 THEN 0 ELSE chip[TIMER_INITIAL]]
  /\ returned' = Silent /\ UNCHANGED <<job, shown, alarmed, programmed>>

Restart == job # Idle /\ job' = Idle /\ returned' = Silent /\ UNCHANGED chip /\ NoneAsked

(* The clock and the rest of the chip share no register.                   *)
ClockNext ==
  \/ ReadTime \/ ReadAlarm
  \/ \E t \in Instant : WriteTime(t) \/ WriteAlarm(t)
  \/ Tick \/ Restart

ControlNext ==
  \/ ReadTimer \/ DisableAlarmInterrupt
  \/ \E n \in Repeats : RepeatAlarm(n)
  \/ \E p \in Periods : WriteTimer(p)
  \/ \E pulse \in Pulses : EnableAlarmInterrupt(pulse)
  \/ \E setting \in {0, 165} : Trickle(setting)
  \/ Countdown \/ Restart

RtcNext == ClockNext \/ ControlNext

RtcSpec == RtcInit /\ [][RtcNext]_rtcVars

-----------------------------------------------------------------------------
(* Properties.                                                             *)

(* The registers are bytes, the histories are in their ranges.             *)
RtcTypeOK ==
  /\ chip \in [Address -> 0 .. 255] /\ job.step \in 0 .. 4
  /\ shown \in Instant /\ alarmed \in Instant
  /\ programmed \in (0 .. 3) \X (0 .. 255)

(* The fields a call may change: register, lowest bit, width.              *)
Touches(op) ==
  CASE op = "write_time" -> {<<n - 1, 0, DigitWidth[n]>> : n \in 1 .. 8}
    [] op = "write_alarm" -> {<<n + 7, 0, DigitWidth[n]>> : n \in 1 .. 6} \cup {<<14, 0, 3>>}
    [] op = "repeat" -> {<<TIMER_CONTROL, 2, 3>>}
    [] op = "write_timer" -> {<<TIMER_CONTROL, 5, 3>>, <<TIMER_CONTROL, 0, 2>>,
                              <<TIMER, 0, 8>>, <<TIMER_INITIAL, 0, 8>>}
    [] op = "enable" -> {<<INTMASK, 5, 2>>, <<INTMASK, 2, 1>>, <<OUT, 0, 2>>}
    [] op = "disable" -> {<<INTMASK, 2, 1>>}
    [] op = "trickle" -> {<<KEY, 0, 8>>, <<TRICKLE, 0, 8>>}
    [] OTHER -> {}

Differ(a, bit) == Field(chip[a], bit, 1) # Field(chip'[a], bit, 1)
Caller == IF job = Idle THEN job'.op ELSE job.op

(* A call changes the fields it is about and nothing else, whatever ran or *)
(* broke off before it: setting the timer keeps the repetition of the      *)
(* alarm in the same register and the reverse, setting the time keeps the  *)
(* bits that the chip leaves to its user. A call that returns at once      *)
(* changes nothing: also not the timer when the period asked for is none   *)
(* it has, so that one that runs goes on (am1815.c:200-203).               *)
FieldsKept ==
  [][job' # job \/ returned' # Silent =>
       \A a \in Address, bit \in 0 .. 7 :
         Differ(a, bit) =>
           \E f \in Touches(Caller) : f[1] = a /\ bit \in f[2] .. f[2] + f[3] - 1]_rtcVars

(* The timer, when it runs, runs with frequency and initial value of one   *)
(* call, whichever calls were broken off by a restart since.               *)
TimerNeverMixed ==
  Running => /\ <<Field(chip[TIMER_CONTROL], 0, 2), chip[TIMER_INITIAL]>> = programmed
             /\ chip[TIMER] <= chip[TIMER_INITIAL]

(* The longest period, up to 256 s, that the timer has and that is no      *)
(* longer than the one asked for; 0 if there is none.                      *)
Smaller(a, b) == IF a < b THEN a ELSE b
Longest(p) ==
  LET periods == {u * Smaller(256, p \div u) : u \in {1, 64, Second}} IN
  CHOOSE m \in periods : \A q \in periods : q <= m

Unit == <<1, 64, Second, Minute>>
PeriodSet == (chip[TIMER_INITIAL] + 1) * Unit[Field(chip[TIMER_CONTROL], 0, 2) + 1]

Cut(d) == [d EXCEPT !.usec = (@ \div 10000) * 10000]

(* What becomes of an alarm that is read back: its date without the year,  *)
(* and 1 March when it was set for 29 February (am1815.c:82-94).        *)
AlarmBack(d) ==
  LET leap == d.mon = 1 /\ d.mday = 29 IN
  [usec |-> d.usec, sec |-> d.sec, min |-> d.min, hour |-> d.hour,
   mday |-> IF leap THEN 1 ELSE d.mday, mon |-> IF leap THEN 2 ELSE d.mon]

(* The period that the call answers, and the one it leaves the timer with. *)
(* They are the same up to 256 s. Beyond, the answer is in whole minutes;  *)
(* the timer has the seconds beyond 256 if less than five minutes were     *)
(* asked for (am1815.c:226), else 256 minutes (am1815.c:231).              *)
Answered(p) ==
  IF p <= 256 * Second THEN Longest(p) ELSE Minute * Smaller(256, p \div Minute)
Held(p) ==
  LET whole == p \div Second IN
  IF p <= 256 * Second THEN Longest(p)
  ELSE IF whole = 256 THEN 256 * Second
  ELSE IF whole < 300 THEN (whole - 256) * Second ELSE 256 * Minute

(* What the chip holds when a call returns is what the call was for: the   *)
(* time read is the time set, moved on since, and the alarm read the alarm *)
(* set, to the hundredth, one on 29 February as the code reads it back;    *)
(* the alarm's interrupt, its repetition and the charger are as set. The   *)
(* timer has the longest period up to the one asked for, and the call says *)
(* which, as far as 256 s; beyond it has the one told above. For a period  *)
(* it cannot have the call answers 0, and FieldsKept says what becomes of  *)
(* the timer: nothing, where am1815.h:151-152 has it disabled.             *)
AsAsked ==
  LET op == returned.op  arg == returned.arg  result == returned.result IN
  /\ op = "read_time" => result = <<Cut(Calendar[shown])>>
  /\ op = "write_time" => TimeOf(ReadBulk(0, 8)) = Cut(Calendar[arg])
  /\ op = "read_alarm" => result = <<AlarmBack(Cut(Calendar[alarmed]))>>
  /\ op = "write_timer" =>
       /\ result = <<Answered(arg)>>
       /\ Answered(arg) > 0 => Running /\ PeriodSet = Held(arg)
  /\ op = "repeat" => /\ result = <<arg \in 0 .. 7>>
                      /\ arg \in 0 .. 7 => Field(chip[TIMER_CONTROL], 2, 3) = arg
  /\ op = "enable" => /\ Field(chip[INTMASK], 2, 1) = 1 /\ Field(chip[INTMASK], 5, 2) = arg
                      /\ Field(chip[OUT], 0, 2) = 3
  /\ op = "disable" => Field(chip[INTMASK], 2, 1) = 0
  /\ op = "trickle" => chip[TRICKLE] = arg
=============================================================================
