---------------------------- MODULE DeviceProofs ----------------------------
(***************************************************************************)
(* Proofs about the devices that the run of MCDevices puts side by side:   *)
(* the real time clock keeps what every call is for, whatever breaks the   *)
(* calls off; bme280_get_sample returns three fresh values; and the types  *)
(* of all the devices together. The peripherals the firmware borrows have  *)
(* their proofs in PeripheralProofs.                                       *)
(***************************************************************************)
EXTENDS MCDevices, PeripheralProofs, TLAPS

-----------------------------------------------------------------------------
(* The real time clock: registers and digits.                              *)
RByte == 0 .. 255

(* Writing the lowest w bits of a byte, as the digits of a date are: the   *)
(* byte holds the value there and is what it was above.                    *)
LEMMA WithLow ==
  ASSUME NEW b \in RByte, NEW w \in {2, 3, 5, 6, 7, 8}, NEW v \in Int
  PROVE  /\ With(b, 0, w, v) \in RByte
         /\ Field(With(b, 0, w, v), 0, w) = v % Bit(w)
         /\ With(b, 0, w, v) \div Bit(w) = b \div Bit(w)
<1>1. CASE w = 2
  BY <1>1 DEF With, Field, Bit, RByte
<1>2. CASE w = 3
  BY <1>2 DEF With, Field, Bit, RByte
<1>3. CASE w = 5
  BY <1>3 DEF With, Field, Bit, RByte
<1>4. CASE w = 6
  BY <1>4 DEF With, Field, Bit, RByte
<1>5. CASE w = 7
  BY <1>5 DEF With, Field, Bit, RByte
<1>6. CASE w = 8
  BY <1>6 DEF With, Field, Bit, RByte
<1> QED BY <1>1, <1>2, <1>3, <1>4, <1>5, <1>6

(* Bytes that agree above bit w agree on each bit there.                   *)
LEMMA HighBits ==
  ASSUME NEW b \in RByte, NEW c \in RByte, NEW w \in {2, 3, 5, 6, 7, 8},
         b \div Bit(w) = c \div Bit(w), NEW bit \in w .. 7
  PROVE  Field(b, bit, 1) = Field(c, bit, 1)
<1>0. \A a \in RByte : /\ a \div 8 = (a \div 4) \div 2 /\ a \div 16 = (a \div 8) \div 2
                       /\ a \div 32 = (a \div 16) \div 2 /\ a \div 64 = (a \div 32) \div 2
                       /\ a \div 128 = (a \div 64) \div 2
  BY DEF RByte
<1>2. /\ w = 2 => b \div 4 = c \div 4
      /\ w = 3 => b \div 8 = c \div 8
      /\ w = 5 => b \div 32 = c \div 32
      /\ w = 6 => b \div 64 = c \div 64
      /\ w = 7 => b \div 128 = c \div 128
  BY DEF Bit
<1>3. /\ w = 2 => b \div 8 = c \div 8
      /\ w \in {2, 3} => b \div 16 = c \div 16
      /\ w \in {2, 3} => b \div 32 = c \div 32
      /\ w \in {2, 3, 5} => b \div 64 = c \div 64
      /\ w \in {2, 3, 5, 6} => b \div 128 = c \div 128
  BY <1>0, <1>2
<1>4. CASE bit = 2
  BY <1>2, <1>4 DEF Field, Bit
<1>5. CASE bit = 3
  BY <1>2, <1>3, <1>5 DEF Field, Bit
<1>6. CASE bit = 4
  BY <1>3, <1>6 DEF Field, Bit
<1>7. CASE bit = 5
  BY <1>2, <1>3, <1>7 DEF Field, Bit
<1>8. CASE bit = 6
  BY <1>2, <1>3, <1>8 DEF Field, Bit
<1>9. CASE bit = 7
  BY <1>2, <1>3, <1>9 DEF Field, Bit
<1> QED BY <1>4, <1>5, <1>6, <1>7, <1>8, <1>9

(* The bits 2 to 4 of the control register of the timer: how the alarm is  *)
(* repeated.                                                               *)
LEMMA WithRepeat ==
  ASSUME NEW b \in RByte, NEW v \in Int
  PROVE  /\ With(b, 2, 3, v) \in RByte
         /\ Field(With(b, 2, 3, v), 2, 3) = v % 8
         /\ Field(With(b, 2, 3, v), 0, 2) = Field(b, 0, 2)
         /\ Field(With(b, 2, 3, v), 7, 1) = Field(b, 7, 1)
         /\ \A bit \in {0, 1, 5, 6, 7} : Field(With(b, 2, 3, v), bit, 1) = Field(b, bit, 1)
BY DEF With, Field, Bit, RByte

(* Stopping the timer clears bit 7 of that register only.                  *)
LEMMA StoppedOnly ==
  ASSUME NEW b \in RByte
  PROVE  /\ Stopped(b) \in RByte
         /\ Field(Stopped(b), 7, 1) = 0
         /\ \A bit \in 0 .. 6 : Field(Stopped(b), bit, 1) = Field(b, bit, 1)
BY DEF Stopped, With, Field, Bit, RByte

(* The byte that starts the timer: enabled, repeating, its own frequency,  *)
(* and the repetition of the alarm as it was.                              *)
LEMMA ControlOf ==
  ASSUME NEW b \in RByte, NEW f \in 0 .. 3
  PROVE  LET c == 160 + 4 * Field(b, 2, 3) + f IN
         /\ c \in RByte /\ Field(c, 7, 1) = 1 /\ Field(c, 0, 2) = f
         /\ \A bit \in 2 .. 4 : Field(c, bit, 1) = Field(b, bit, 1)
<1> DEFINE g == Field(b, 2, 3)
           c == 160 + 4 * g + f
<1>1. g = (b \div 4) % 8 /\ g \in 0 .. 7
  BY DEF Field, Bit, RByte
<1>2. /\ Field(b, 2, 1) = g % 2 /\ Field(b, 3, 1) = (g \div 2) % 2
      /\ Field(b, 4, 1) = (g \div 4) % 2
  <2> HIDE DEF g
  <2> QED BY <1>1 DEF Field, Bit, RByte
<1>3. /\ c \in RByte /\ Field(c, 7, 1) = 1 /\ Field(c, 0, 2) = f
      /\ Field(c, 2, 1) = g % 2 /\ Field(c, 3, 1) = (g \div 2) % 2
      /\ Field(c, 4, 1) = (g \div 4) % 2
  <2> HIDE DEF g
  <2> QED BY <1>1 DEF Field, Bit, RByte
<1> HIDE DEF g
<1>4. \A bit \in 2 .. 4 : Field(c, bit, 1) = Field(b, bit, 1)
  <2> SUFFICES ASSUME NEW bit \in 2 .. 4 PROVE Field(c, bit, 1) = Field(b, bit, 1)
    OBVIOUS
  <2>1. bit = 2 \/ bit = 3 \/ bit = 4
    OBVIOUS
  <2> HIDE DEF c
  <2> QED BY <1>2, <1>3, <2>1
<1> QED BY <1>3, <1>4 DEF g

(* The pulse of the alarm's interrupt, bits 5 and 6 of its register.       *)
LEMMA WithEnable ==
  ASSUME NEW b \in RByte, NEW v \in Int
  PROVE  /\ With(b, 5, 2, v) \in RByte
         /\ Field(With(b, 5, 2, v), 5, 2) = v % 4
         /\ \A bit \in {0, 1, 2, 3, 4, 7} : Field(With(b, 5, 2, v), bit, 1) = Field(b, bit, 1)
BY DEF With, Field, Bit, RByte

(* Bit 2 of that register lets the alarm's interrupt through.              *)
LEMMA WithAlarm ==
  ASSUME NEW b \in RByte, NEW v \in 0 .. 1
  PROVE  /\ With(b, 2, 1, v) \in RByte
         /\ Field(With(b, 2, 1, v), 2, 1) = v
         /\ Field(With(b, 2, 1, v), 5, 2) = Field(b, 5, 2)
         /\ \A bit \in {0, 1, 3, 4, 5, 6, 7} : Field(With(b, 2, 1, v), bit, 1) = Field(b, bit, 1)
<1>1. /\ With(b, 2, 1, v) \in RByte
      /\ Field(With(b, 2, 1, v), 2, 1) = v
      /\ Field(With(b, 2, 1, v), 5, 2) = Field(b, 5, 2)
  BY DEF With, Field, Bit, RByte
<1>2. \A bit \in {0, 1} : Field(With(b, 2, 1, v), bit, 1) = Field(b, bit, 1)
  BY DEF With, Field, Bit, RByte
<1>3. \A bit \in {3, 4} : Field(With(b, 2, 1, v), bit, 1) = Field(b, bit, 1)
  BY DEF With, Field, Bit, RByte
<1>4. \A bit \in {5, 6, 7} : Field(With(b, 2, 1, v), bit, 1) = Field(b, bit, 1)
  BY DEF With, Field, Bit, RByte
<1> QED BY <1>1, <1>2, <1>3, <1>4

(* What division and remainder are.                                        *)
LEMMA DivMod ==
  ASSUME NEW x \in Int, NEW n \in Nat \ {0}
  PROVE  /\ x \div n \in Int /\ x % n \in Int /\ 0 <= x % n /\ x % n < n
         /\ x = n * (x \div n) + (x % n)
<1>1. x = n * (x \div n) + (x % n)
  OBVIOUS
<1>2. x % n \in Int /\ 0 <= x % n /\ x % n < n
  OBVIOUS
<1>3. x \div n \in Int
  OBVIOUS
<1> QED BY <1>1, <1>2, <1>3

(* A value of two decimal digits, to and from its digits.                  *)
LEMMA DigitsOf ==
  ASSUME NEW v \in 0 .. 99
  PROVE  /\ ToBcd(v) = 16 * (v \div 10) + (v % 10)
         /\ FromBcd(16 * (v \div 10) + (v % 10)) = v
         /\ ToBcd(v) \in 0 .. 153
         /\ v <= 60 => ToBcd(v) <= 96
         /\ v <= 31 => ToBcd(v) <= 49
         /\ v <= 12 => ToBcd(v) <= 18
         /\ v <= 6 => ToBcd(v) <= 6
BY DEF ToBcd, FromBcd

(* The calendar consists of dates.                                         *)
LEMMA DateOf ==
  ASSUME NEW i \in Instant
  PROVE  Calendar[i] \in Date
BY RtcAssumption DEF Instant

(* The fields of a date, and nothing else in it.                           *)
LEMMA DateFields ==
  ASSUME NEW d \in Date
  PROVE  /\ d.usec \in Int /\ 0 <= d.usec /\ d.usec < Million
         /\ d.sec \in 0 .. 60 /\ d.min \in 0 .. 59
         /\ d.hour \in 0 .. 23 /\ d.mday \in 1 .. 31 /\ d.mon \in 0 .. 11
         /\ d.year \in 100 .. 199 /\ d.wday \in 0 .. 6
         /\ d = [usec |-> d.usec, sec |-> d.sec, min |-> d.min, hour |-> d.hour, mday |-> d.mday,
                 mon |-> d.mon, year |-> d.year, wday |-> d.wday]
<1>1. Million \in Int
  BY SMT DEF Million
<1>2. /\ d.usec \in 0 .. Million - 1 /\ d.sec \in 0 .. 60 /\ d.min \in 0 .. 59
      /\ d.hour \in 0 .. 23 /\ d.mday \in 1 .. 31 /\ d.mon \in 0 .. 11
      /\ d.year \in 100 .. 199 /\ d.wday \in 0 .. 6
  BY DEF Date
<1>3. d = [usec |-> d.usec, sec |-> d.sec, min |-> d.min, hour |-> d.hour, mday |-> d.mday,
           mon |-> d.mon, year |-> d.year, wday |-> d.wday]
  BY DEF Date
<1>4. d.usec \in Int /\ 0 <= d.usec /\ d.usec < Million
  <2> DEFINE k == d.usec
  <2>1. k \in 0 .. Million - 1
    BY <1>2
  <2> HIDE DEF k
  <2>2. k \in Int /\ 0 <= k /\ k < Million
    BY <1>1, <2>1
  <2> QED BY <2>2 DEF k
<1> QED BY <1>2, <1>3, <1>4

(* What the clock holds of a date fits two digits and gives it back.       *)
LEMMA TimeRanges ==
  ASSUME NEW d \in Date
  PROVE  /\ d.usec \div 10000 \in 0 .. 99 /\ d.mon + 1 \in 1 .. 12
         /\ (d.year + 1900) % 100 \in 0 .. 99
         /\ ((d.year + 1900) % 100) + 100 = d.year
<1>1. d.usec \in Int /\ 0 <= d.usec /\ d.usec < 1000000 /\ d.year \in 100 .. 199 /\ d.mon \in 0 .. 11
  BY DateFields, SMT DEF Million
<1> DEFINE q == d.usec \div 10000
           r == d.usec % 10000
           y == (d.year + 1900) \div 100
           z == (d.year + 1900) % 100
<1>2. q \in Int /\ r \in Int /\ 0 <= r /\ r <= 9999 /\ d.usec = 10000 * q + r
  <2> DEFINE e == d.usec
  <2>1. e \in Int /\ 10000 \in Nat \ {0}
    BY <1>1, SMT
  <2> HIDE DEF e
  <2>2. e \div 10000 \in Int /\ e % 10000 \in Int /\ 0 <= e % 10000 /\ e % 10000 < 10000
        /\ e = 10000 * (e \div 10000) + (e % 10000)
    BY <2>1, DivMod, SMT
  <2> QED BY <2>2, SMT DEF e
<1>3. y \in Int /\ z \in 0 .. 99 /\ d.year + 1900 = 100 * y + z
  BY <1>1, DivMod, SMT
<1> HIDE DEF q, r, y, z
<1>4. q \in 0 .. 99
  BY <1>1, <1>2, SMT
<1>5. y = 20 /\ z + 100 = d.year
  BY <1>1, <1>3, SMT
<1>6. d.mon + 1 \in 1 .. 12
  BY <1>1, SMT
<1> QED BY <1>3, <1>4, <1>5, <1>6, SMT DEF q, z

(* The digits of an instant fit their registers.                           *)
LEMMA Fits ==
  ASSUME NEW i \in Instant, NEW n \in 1 .. 8
  PROVE  LET v == TimeValues(Calendar[i])[n] IN
         /\ v \in 0 .. 99 /\ Digits(i)[n] = ToBcd(v) /\ FromBcd(Digits(i)[n]) = v
         /\ Digits(i)[n] \in 0 .. Bit(TimeWidth[n]) - 1
<1> DEFINE d == Calendar[i]
           v == TimeValues(d)[n]
<1>1. d \in Date
  BY DateOf
<1>2. /\ v \in 0 .. 99
      /\ n \in {2, 3} => v <= 60
      /\ n = 4 => v <= 31
      /\ n = 5 => v <= 31
      /\ n = 6 => v <= 12
      /\ n = 8 => v <= 6
  <2> HIDE DEF d
  <2> QED BY <1>1, TimeRanges, DateFields DEF TimeValues
<1>3. Digits(i)[n] = 16 * (v \div 10) + (v % 10)
  BY DEF Digits
<1> HIDE DEF v
<1>4. Digits(i)[n] = ToBcd(v) /\ FromBcd(Digits(i)[n]) = v
  BY <1>2, <1>3, DigitsOf
<1>5. /\ n \in {1, 7} => Bit(TimeWidth[n]) = 256
      /\ n \in {2, 3} => Bit(TimeWidth[n]) = 128
      /\ n \in {4, 5} => Bit(TimeWidth[n]) = 64
      /\ n = 6 => Bit(TimeWidth[n]) = 32
      /\ n = 8 => Bit(TimeWidth[n]) = 8
  BY DEF Bit, TimeWidth
<1>6. ToBcd(v) \in 0 .. Bit(TimeWidth[n]) - 1
  BY <1>2, <1>5, DigitsOf
<1> QED BY <1>2, <1>4, <1>6 DEF v

(* The driver and the chip agree on where a field is.                      *)
LEMMA Widths ==
  /\ \A n \in 1 .. 8 : TimeWidth[n] \in {2, 3, 5, 6, 7, 8} /\ DigitWidth[n] = TimeWidth[n]
  /\ \A n \in 1 .. 6 : AlarmWidth[n] = TimeWidth[n]
  /\ AlarmWidth[7] = TimeWidth[8]
BY DEF TimeWidth, DigitWidth, AlarmWidth

(* Masking what fits already.                                              *)
LEMMA SmallMod ==
  ASSUME NEW w \in {2, 3, 5, 6, 7, 8}, NEW u \in 0 .. Bit(w) - 1
  PROVE  u % Bit(w) = u
<1>1. Bit(w) \in {4, 8, 32, 64, 128, 256}
  BY DEF Bit
<1>2. \A m \in {4, 8, 32, 64, 128, 256} : \A x \in 0 .. m - 1 : x % m = x
  OBVIOUS
<1> QED BY <1>1, <1>2

(* The digits of an instant, put into a register.                          *)
LEMMA Put ==
  ASSUME NEW i \in Instant, NEW n \in 1 .. 8, NEW b \in RByte
  PROVE  LET c == With(b, 0, TimeWidth[n], Digits(i)[n]) IN
         /\ c \in RByte
         /\ Field(c, 0, TimeWidth[n]) = Digits(i)[n]
         /\ c \div Bit(TimeWidth[n]) = b \div Bit(TimeWidth[n])
<1>1. TimeWidth[n] \in {2, 3, 5, 6, 7, 8}
  BY Widths
<1>2. Digits(i)[n] \in 0 .. Bit(TimeWidth[n]) - 1 /\ Bit(TimeWidth[n]) \in Int
  BY Fits, <1>1 DEF Bit
<1>3. Digits(i)[n] \in Int
  BY <1>2
<1>4. Digits(i)[n] % Bit(TimeWidth[n]) = Digits(i)[n]
  BY <1>1, <1>2, SmallMod
<1> QED BY <1>1, <1>3, <1>4, WithLow

(* What am1815_read_time makes of the digits of an instant.                *)
LEMMA TimeRead ==
  ASSUME NEW i \in Instant, NEW regs,
         \A n \in 1 .. 8 : Field(regs[n], 0, TimeWidth[n]) = Digits(i)[n]
  PROVE  TimeOf(regs) = Cut(Calendar[i])
<1> DEFINE d == Calendar[i]
<1>1. d \in Date
  BY DateOf
<1>2. \A n \in 1 .. 8 : Low(n, regs) = TimeValues(d)[n]
  BY Fits DEF Low
<1> HIDE DEF d
<1>3. /\ Low(1, regs) = d.usec \div 10000 /\ Low(2, regs) = d.sec /\ Low(3, regs) = d.min
      /\ Low(4, regs) = d.hour /\ Low(5, regs) = d.mday /\ Low(6, regs) = d.mon + 1
      /\ Low(7, regs) = (d.year + 1900) % 100 /\ Low(8, regs) = d.wday
  BY <1>2 DEF TimeValues
<1>4. Low(6, regs) - 1 = d.mon /\ Low(7, regs) + 100 = d.year
  BY <1>1, <1>3, TimeRanges, DateFields
<1>5. TimeOf(regs) = [usec |-> (d.usec \div 10000) * 10000, sec |-> d.sec, min |-> d.min,
                      hour |-> d.hour, mday |-> d.mday, mon |-> d.mon, year |-> d.year,
                      wday |-> d.wday]
  BY <1>3, <1>4 DEF TimeOf
<1>6. Cut(d) = [usec |-> (d.usec \div 10000) * 10000, sec |-> d.sec, min |-> d.min,
                hour |-> d.hour, mday |-> d.mday, mon |-> d.mon, year |-> d.year,
                wday |-> d.wday]
  BY <1>1, DateFields DEF Cut
<1> QED BY <1>5, <1>6 DEF d

(* What am1815_read_alarm makes of them.                                   *)
LEMMA AlarmRead ==
  ASSUME NEW i \in Instant, NEW regs,
         \A n \in 1 .. 6 : Field(regs[n], 0, TimeWidth[n]) = Digits(i)[n]
  PROVE  AlarmOf(regs) = AlarmBack(Cut(Calendar[i]))
<1> DEFINE d == Calendar[i]
           leap == d.mon = 1 /\ d.mday = 29
<1>1. d \in Date
  BY DateOf
<1>2. \A n \in 1 .. 6 : Low(n, regs) = TimeValues(d)[n]
  BY Fits DEF Low
<1> HIDE DEF d
<1>3. /\ Low(1, regs) = d.usec \div 10000 /\ Low(2, regs) = d.sec /\ Low(3, regs) = d.min
      /\ Low(4, regs) = d.hour /\ Low(5, regs) = d.mday /\ Low(6, regs) = d.mon + 1
  BY <1>2 DEF TimeValues
<1>4. Low(6, regs) - 1 = d.mon /\ (Low(6, regs) = 2 <=> d.mon = 1)
  BY <1>1, <1>3, DateFields
<1>5. AlarmOf(regs) = [usec |-> (d.usec \div 10000) * 10000, sec |-> d.sec, min |-> d.min,
                       hour |-> d.hour, mday |-> IF leap THEN 1 ELSE d.mday,
                       mon |-> IF leap THEN 2 ELSE d.mon]
  BY <1>1, <1>3, <1>4 DEF AlarmOf
<1>6. Cut(d) = [usec |-> (d.usec \div 10000) * 10000, sec |-> d.sec, min |-> d.min,
                hour |-> d.hour, mday |-> d.mday, mon |-> d.mon, year |-> d.year,
                wday |-> d.wday]
  BY <1>1, DateFields DEF Cut
<1>7. AlarmBack(Cut(d)) = [usec |-> (d.usec \div 10000) * 10000, sec |-> d.sec, min |-> d.min,
                           hour |-> d.hour, mday |-> IF leap THEN 1 ELSE d.mday,
                           mon |-> IF leap THEN 2 ELSE d.mon]
  BY <1>6 DEF AlarmBack
<1> QED BY <1>5, <1>7 DEF d

(* The rounding of the code gives the longest period there is.             *)
LEMMA FoundLongest ==
  ASSUME NEW p \in Nat, p <= 256 * Second
  PROVE  Longest(p) = find_timer(p)
<1> DEFINE x == p \div 64
           y == p \div 4096
           a == Smaller(256, p)
           b == 64 * Smaller(256, x)
           c == 4096 * Smaller(256, y)
           f == find_timer(p)
<1> USE DEF Second
<1>1. /\ p \in Int /\ p >= 0 /\ p <= 1048576
      /\ x \in Int /\ p % 64 \in 0 .. 63 /\ p = 64 * x + (p % 64)
      /\ y \in Int /\ p % 4096 \in Int /\ 0 <= p % 4096 /\ p % 4096 <= 4095 /\ p = 4096 * y + (p % 4096)
  BY DivMod, SMT
<1>2. f = IF p <= 256 THEN p ELSE IF p <= 16384 THEN p - (p % 64) ELSE p - (p % 4096)
  <2> HIDE DEF x, y
  <2> QED BY <1>1, SMT DEF find_timer
<1>3. {u * Smaller(256, p \div u) : u \in {1, 64, Second}} = {a, b, c}
  <2>1. p \div 1 = p
    BY <1>1, SMT
  <2>2. a \in Int /\ 1 * a = a
    BY <1>1, SMT DEF Smaller
  <2>3. {u * Smaller(256, p \div u) : u \in {1, 64, 4096}}
        = {1 * Smaller(256, p \div 1), 64 * Smaller(256, p \div 64), 4096 * Smaller(256, p \div 4096)}
    BY SMT
  <2> QED BY <2>1, <2>2, <2>3, SMT
<1>4. /\ a = IF 256 < p THEN 256 ELSE p
      /\ b = IF 256 < x THEN 16384 ELSE 64 * x
      /\ c = IF 256 < y THEN 1048576 ELSE 4096 * y
  <2> HIDE DEF x, y
  <2> QED BY <1>1, SMT DEF Smaller
<1> DEFINE v == p % 64
           w == p % 4096
<1> HIDE DEF a, b, c, f, x, y
<1>5. v \in 0 .. 63 /\ p = 64 * x + v /\ w \in Int /\ 0 <= w /\ w <= 4095 /\ p = 4096 * y + w
  BY <1>1, SMT
<1>6. f = IF p <= 256 THEN p ELSE IF p <= 16384 THEN p - v ELSE p - w
  BY <1>2, SMT
<1> HIDE DEF v, w
<1>7. f \in {a, b, c} /\ a \in Int /\ b \in Int /\ c \in Int /\ a <= f /\ b <= f /\ c <= f
  BY <1>1, <1>4, <1>5, <1>6, SMT
<1>8. f = CHOOSE m \in {a, b, c} : \A q \in {a, b, c} : q <= m
  <2>1. \A m \in {a, b, c} : (\A q \in {a, b, c} : q <= m) => m = f
    BY <1>7, SMT
  <2>2. f \in {a, b, c} /\ \A q \in {a, b, c} : q <= f
    BY <1>7, SMT
  <2> QED BY <2>1, <2>2, SMT
<1> QED BY <1>3, <1>8, SMT DEF Longest, f

(* What the call answers, of any period.                                   *)
LEMMA FoundAnswered ==
  ASSUME NEW p \in Nat PROVE Answered(p) = find_timer(p)
<1> USE DEF Second, Minute
<1>1. CASE p <= 256 * Second
  BY <1>1, FoundLongest DEF Answered
<1>2. CASE p > 256 * Second
  <2> DEFINE y == p \div 245760
             w == p % 245760
  <2>1. /\ y \in Int /\ w \in Int /\ 0 <= w /\ w < 245760 /\ p = 245760 * y + w
        /\ p \in Int /\ p > 1048576
    BY <1>2, DivMod, SMT
  <2>2. Answered(p) = 245760 * (IF 256 < y THEN 256 ELSE y)
    BY <2>1, SMT DEF Answered, Smaller
  <2>3. find_timer(p) = IF p <= 62914560 THEN p - w ELSE 62914560
    BY <2>1, SMT DEF find_timer
  <2> HIDE DEF y, w
  <2> QED BY <2>1, <2>2, <2>3, SMT
<1> QED BY <1>1, <1>2, SMT

(* The frequency and initial value that are written mean that period.      *)
LEMMA Programmed ==
  ASSUME NEW p \in Nat, find_timer(p) # 0
  PROVE  /\ Program(p) = <<Program(p)[1], Program(p)[2]>>
         /\ Program(p)[1] \in 0 .. 3 /\ Program(p)[2] \in 0 .. 255
         /\ (Program(p)[2] + 1) * Unit[Program(p)[1] + 1] = Held(p)
<1> DEFINE f == find_timer(p)
           v == p % 64
           w == p % 4096
           y == p \div 4096
           x == f \div 64
           u == (y - 1) % 256
<1> USE DEF Second, Minute
<1>1. f = IF p <= 256 THEN p ELSE IF p <= 16384 THEN p - v
          ELSE IF p <= 1048576 THEN p - w
          ELSE IF p <= 62914560 THEN p - (p % 245760) ELSE 62914560
  BY SMT DEF find_timer
<1>2. Program(p) = IF f <= 256 THEN <<0, f - 1>> ELSE IF f <= 16384 THEN <<1, x - 1>>
                   ELSE IF f <= 1048576 THEN <<2, u>> ELSE <<3, 255>>
  BY SMT DEF Program
<1>3. /\ v \in 0 .. 63 /\ w \in Int /\ 0 <= w /\ w <= 4095 /\ p % 245760 \in Int /\ 0 <= p % 245760 /\ p % 245760 <= 245759
      /\ p \div 64 \in Int /\ p = 64 * (p \div 64) + v
      /\ y \in Int /\ p = 4096 * y + w
  BY DivMod, SMT
<1>4. f \in Int /\ f # 0
  <2> HIDE DEF f, v, w
  <2> QED BY <1>1, <1>3, SMT DEF f
<1>5. x \in Int /\ f % 64 \in 0 .. 63 /\ f = 64 * x + (f % 64)
  <2> HIDE DEF f
  <2> QED BY <1>4, DivMod, SMT
<1>6. u \in 0 .. 255
  BY <1>3, DivMod, SMT
<1>7. /\ Unit[1] = 1 /\ Unit[2] = 64 /\ Unit[3] = 4096 /\ Unit[4] = 245760
  BY SMT DEF Unit
<1> DEFINE m == p \div 64
           z == f % 64
<1>8. /\ m \in Int /\ p = 64 * m + v /\ z \in 0 .. 63 /\ f = 64 * x + z
  BY <1>3, <1>5, SMT
<1>9. \A n \in 0 .. 255 : n % 256 = n
  BY SMT
<1> DEFINE h == Held(p)
<1>9a. /\ p <= 1048576 => h = f
       /\ p > 1048576 => h = IF y = 256 THEN 1048576
                             ELSE IF y < 300 THEN (y - 256) * 4096 ELSE 62914560
  <2>1. p <= 1048576 => Longest(p) = f
    BY FoundLongest, SMT
  <2> QED BY <2>1, SMT DEF Held
<1> HIDE DEF f, v, w, y, x, u, m, z, h
<1>10. CASE f <= 256
  <2>1. f > 0
    BY <1>1, <1>3, <1>4, <1>8, <1>10, SMT
  <2>2. Program(p) = <<0, f - 1>>
    BY <1>2, <1>10, SMT
  <2>3. p <= 1048576
    BY <1>1, <1>3, <1>4, <1>8, <1>10, SMT
  <2> QED BY <1>4, <1>7, <1>9a, <1>10, <2>1, <2>2, <2>3, SMT DEF h
<1>11. CASE f > 256 /\ f <= 16384
  <2>1. z = 0
    <3>1. CASE p <= 16384
      <4>1. f = 64 * m
        BY <1>1, <1>3, <1>4, <1>8, <1>11, <3>1, SMT
      <4> QED BY <1>3, <1>5, <1>8, <4>1, SMT DEF m
    <3>2. CASE p > 16384
      <4>1. f = 4096 * y
        BY <1>1, <1>3, <1>4, <1>11, <3>2, SMT
      <4> QED BY <1>3, <1>5, <1>8, <4>1, SMT
    <3> QED BY <3>1, <3>2, SMT
  <2>2. Program(p) = <<1, x - 1>> /\ x - 1 \in 0 .. 255
    BY <1>2, <1>5, <1>8, <1>11, SMT
  <2>3. (x - 1 + 1) * Unit[2] = f
    BY <1>5, <1>7, <1>8, <2>1, SMT
  <2>4. p <= 1048576
    BY <1>1, <1>3, <1>4, <1>8, <1>11, SMT
  <2> QED BY <1>7, <1>9a, <2>2, <2>3, <2>4, SMT DEF h
<1>12. CASE f > 16384 /\ f <= 1048576
  <2>1. Program(p) = <<2, u>>
    BY <1>2, <1>4, <1>12, SMT
  <2>2. CASE p <= 1048576
    <3>1. f = 4096 * y /\ y - 1 \in 0 .. 255
      BY <1>1, <1>3, <1>4, <1>8, <1>12, <2>2, SMT
    <3>2. u = y - 1
      BY <3>1, <1>9, SMT DEF u
    <3> QED BY <1>3, <1>6, <1>7, <1>9a, <2>1, <2>2, <3>1, <3>2, SMT DEF h
  <2>3. CASE p > 1048576
    <3>1. y >= 256 /\ y < 300
      BY <1>1, <1>3, <1>12, <2>3, SMT
    <3>2. u + 1 = IF y = 256 THEN 256 ELSE y - 256
      <4>1. \A n \in 255 .. 299 : n % 256 = IF n = 255 THEN 255 ELSE n - 256
        BY SMT
      <4> QED BY <1>3, <3>1, <4>1, SMT DEF u
    <3>3. (u + 1) * 4096 = h
      BY <1>3, <1>6, <1>9a, <2>3, <3>1, <3>2, SMT
    <3> QED BY <1>6, <1>7, <2>1, <3>3, SMT DEF h
  <2> QED BY <2>2, <2>3, SMT
<1>13. CASE f > 1048576
  <2>1. p > 1048576
    BY <1>1, <1>3, <1>4, <1>13, SMT
  <2>2. Program(p) = <<3, 255>>
    BY <1>2, <1>4, <1>13, SMT
  <2>3. y >= 300
    BY <1>1, <1>3, <1>13, <2>1, SMT
  <2>4. h = 62914560
    BY <1>3, <1>9a, <2>1, <2>3, SMT
  <2> QED BY <1>7, <2>2, <2>4, SMT DEF h
<1> QED BY <1>4, <1>10, <1>11, <1>12, <1>13, SMT

-----------------------------------------------------------------------------
(* The strengthening: what the registers hold, and what a call under way   *)
(* has left in them so far.                                                *)

(* A call under way carries what its own steps put there.                  *)
JobShape ==
  /\ job = [op |-> job.op, arg |-> job.arg, step |-> job.step, buf |-> job.buf]
  /\ job.op = "none" => job = Idle
  /\ job.op \in {"none", "write_time", "write_alarm", "repeat", "write_timer", "enable",
                 "disable", "trickle"}

(* The clock shows the instant it has to show, and the alarm the instant   *)
(* last asked for.                                                         *)
ShowsTime == \A n \in 1 .. 8 : Field(chip[n - 1], 0, TimeWidth[n]) = Digits(shown)[n]
HoldsAlarm == \A n \in 1 .. 6 : Field(chip[n + 7], 0, TimeWidth[n]) = Digits(alarmed)[n]

(* Between the two halves of setting the time the clock may move on, but   *)
(* the bits above the digits are those that were read.                     *)
TimeUnderWay ==
  job.op = "write_time" =>
    /\ job.step = 1 /\ job.arg \in Instant
    /\ job.buf \in [1 .. 8 -> RByte]
    /\ \A n \in 1 .. 8 : job.buf[n] \div Bit(TimeWidth[n]) = chip[n - 1] \div Bit(TimeWidth[n])

AlarmUnderWay ==
  job.op = "write_alarm" =>
    /\ job.step = 1 /\ job.arg \in Instant /\ job.buf \in [1 .. 7 -> RByte]
    /\ \A n \in 1 .. 7 : job.buf[n] = chip[n + 7]

RepeatUnderWay ==
  job.op = "repeat" =>
    job.step = 1 /\ job.arg \in 0 .. 7 /\ job.buf[1] = chip[TIMER_CONTROL]

(* The timer stays stopped from the first step of setting it on, so that   *)
(* it cannot count away the value that is being written.                   *)
TimerUnderWay ==
  job.op = "write_timer" =>
    /\ job.step \in 1 .. 4 /\ job.arg \in Nat /\ find_timer(job.arg) # 0
    /\ job.buf[1] \in RByte
    /\ job.step = 1 => job.buf[1] = chip[TIMER_CONTROL]
    /\ job.step > 1 => chip[TIMER_CONTROL] = Stopped(job.buf[1])
    /\ job.step > 2 => chip[TIMER] = Program(job.arg)[2]
    /\ job.step > 3 => chip[TIMER_INITIAL] = Program(job.arg)[2]

PinUnderWay ==
  /\ job.op = "enable" =>
       /\ job.step \in 1 .. 3 /\ job.arg \in 0 .. 3
       /\ job.step = 1 => job.buf[1] = chip[INTMASK]
       /\ job.step > 1 => Field(chip[INTMASK], 2, 1) = 1 /\ Field(chip[INTMASK], 5, 2) = job.arg
       /\ job.step > 2 => job.buf[1] = chip[OUT]
  /\ job.op = "disable" => job.step = 1 /\ job.buf[1] = chip[INTMASK]
  /\ job.op = "trickle" => job.step = 1 /\ job.arg \in {0, 165} /\ chip[KEY] = 157

(* A step of a call keeps the fields the call is not about.                *)
Kept ==
  job' # job \/ returned' # Silent =>
    \A a \in Address, bit \in 0 .. 7 :
      Differ(a, bit) =>
        \E f \in Touches(Caller) : f[1] = a /\ bit \in f[2] .. f[2] + f[3] - 1

RegistersKept ==
  /\ chip \in [Address -> RByte] /\ shown \in Instant /\ alarmed \in Instant
  /\ programmed \in (0 .. 3) \X (0 .. 255)
  /\ ShowsTime /\ HoldsAlarm /\ TimerNeverMixed

CallsKept ==
  /\ job.step \in 0 .. 4
  /\ JobShape /\ TimeUnderWay /\ AlarmUnderWay /\ RepeatUnderWay /\ TimerUnderWay /\ PinUnderWay

RtcInv == RegistersKept /\ CallsKept /\ AsAsked

(* A step that leaves the chip alone.                                      *)
LEMMA ChipSame ==
  ASSUME RegistersKept, chip' = chip, NoneAsked
  PROVE  RegistersKept' /\ Kept
<1>1. shown' = shown /\ alarmed' = alarmed /\ programmed' = programmed
  BY DEF NoneAsked
<1>2. ShowsTime' /\ HoldsAlarm'
  BY <1>1 DEF RegistersKept, ShowsTime, HoldsAlarm
<1>3. TimerNeverMixed'
  BY <1>1 DEF RegistersKept, TimerNeverMixed, Running
<1>4. Kept
  BY DEF Kept, Differ
<1> QED BY <1>1, <1>2, <1>3, <1>4 DEF RegistersKept

(* A call has returned: nothing is under way.                              *)
LEMMA JobDone == ASSUME job' = Idle PROVE CallsKept'
BY DEF CallsKept, JobShape, TimeUnderWay, AlarmUnderWay, RepeatUnderWay, TimerUnderWay, PinUnderWay,
       Idle

(* No call returns in this step.                                           *)
LEMMA Silence == ASSUME returned' = Silent PROVE AsAsked'
BY DEF AsAsked, Silent

(* One lemma for each of the calls follows: it keeps the invariant and the *)
(* fields it is not about.                                                 *)
LEMMA ReadTimeStep == ASSUME RtcInv, ReadTime PROVE RtcInv' /\ Kept
<1>1. RegistersKept' /\ Kept
  BY ChipSame DEF RtcInv, ReadTime
<1>2. CallsKept'
  BY JobDone DEF ReadTime, Answer
<1>3. returned' = [op |-> "read_time", arg |-> 0, result |-> <<TimeOf(ReadBulk(0, 8))>>]
      /\ shown' = shown
  BY DEF ReadTime, Answer, NoneAsked
<1>4. \A n \in 1 .. 8 : Field(ReadBulk(0, 8)[n], 0, TimeWidth[n]) = Digits(shown)[n]
  <2>1. \A n \in 1 .. 8 : ReadBulk(0, 8)[n] = chip[n - 1]
    BY DEF ReadBulk
  <2> QED BY <2>1 DEF RtcInv, RegistersKept, ShowsTime
<1>5. TimeOf(ReadBulk(0, 8)) = Cut(Calendar[shown])
  BY <1>4, TimeRead DEF RtcInv, RegistersKept
<1>6. AsAsked'
  BY <1>3, <1>5 DEF AsAsked
<1> QED BY <1>1, <1>2, <1>6 DEF RtcInv

LEMMA ReadAlarmStep == ASSUME RtcInv, ReadAlarm PROVE RtcInv' /\ Kept
<1>1. RegistersKept' /\ Kept
  BY ChipSame DEF RtcInv, ReadAlarm
<1>2. CallsKept'
  BY JobDone DEF ReadAlarm, Answer
<1>3. returned' = [op |-> "read_alarm", arg |-> 0, result |-> <<AlarmOf(ReadBulk(8, 7))>>]
      /\ alarmed' = alarmed
  BY DEF ReadAlarm, Answer, NoneAsked
<1>4. \A n \in 1 .. 6 : Field(ReadBulk(8, 7)[n], 0, TimeWidth[n]) = Digits(alarmed)[n]
  <2>1. \A n \in 1 .. 6 : ReadBulk(8, 7)[n] = chip[n + 7]
    BY DEF ReadBulk
  <2> QED BY <2>1 DEF RtcInv, RegistersKept, HoldsAlarm
<1>5. AlarmOf(ReadBulk(8, 7)) = AlarmBack(Cut(Calendar[alarmed]))
  BY <1>4, AlarmRead DEF RtcInv, RegistersKept
<1>6. AsAsked'
  BY <1>3, <1>5 DEF AsAsked
<1> QED BY <1>1, <1>2, <1>6 DEF RtcInv

LEMMA ReadTimerStep == ASSUME RtcInv, ReadTimer PROVE RtcInv' /\ Kept
<1>1. RegistersKept' /\ Kept
  BY ChipSame DEF RtcInv, ReadTimer
<1>2. CallsKept'
  BY JobDone DEF ReadTimer, Answer
<1>3. returned' = [op |-> "read_timer", arg |-> 0, result |-> ReadBulk(TIMER, 1)]
  BY DEF ReadTimer, Answer
<1>4. AsAsked'
  BY <1>3 DEF AsAsked
<1> QED BY <1>1, <1>2, <1>4 DEF RtcInv

LEMMA RestartStep == ASSUME RtcInv, Restart PROVE RtcInv' /\ Kept
BY ChipSame, JobDone, Silence DEF RtcInv, Restart

(* New digits in the registers of the time, the bits above them as before. *)
LEMMA TimePut ==
  ASSUME RegistersKept, NEW t \in Instant, NEW b \in [1 .. 8 -> RByte],
         \A n \in 1 .. 8 : b[n] \div Bit(TimeWidth[n]) = chip[n - 1] \div Bit(TimeWidth[n]),
         chip' = [a \in Address |->
                    IF a < 8 THEN With(b[a + 1], 0, TimeWidth[a + 1], Digits(t)[a + 1])
                    ELSE chip[a]],
         shown' = t, alarmed' = alarmed, programmed' = programmed
  PROVE  /\ RegistersKept'
         /\ \A n \in 1 .. 8 : chip'[n - 1] \div Bit(TimeWidth[n]) = chip[n - 1] \div Bit(TimeWidth[n])
         /\ \A a \in Address \ (0 .. 7) : chip'[a] = chip[a]
<1>1. \A n \in 1 .. 8 : chip'[n - 1] = With(b[n], 0, TimeWidth[n], Digits(t)[n])
  BY DEF Address
<1>2. \A a \in Address \ (0 .. 7) : chip'[a] = chip[a]
  BY DEF Address
<1>3. \A n \in 1 .. 8 : /\ chip'[n - 1] \in RByte
                        /\ Field(chip'[n - 1], 0, TimeWidth[n]) = Digits(t)[n]
                        /\ chip'[n - 1] \div Bit(TimeWidth[n]) = chip[n - 1] \div Bit(TimeWidth[n])
  <2> SUFFICES ASSUME NEW n \in 1 .. 8
               PROVE  /\ chip'[n - 1] \in RByte
                      /\ Field(chip'[n - 1], 0, TimeWidth[n]) = Digits(t)[n]
                      /\ chip'[n - 1] \div Bit(TimeWidth[n]) = chip[n - 1] \div Bit(TimeWidth[n])
    OBVIOUS
  <2>1. b[n] \in RByte
    OBVIOUS
  <2> DEFINE c == With(b[n], 0, TimeWidth[n], Digits(t)[n])
  <2>2. c \in RByte /\ Field(c, 0, TimeWidth[n]) = Digits(t)[n]
        /\ c \div Bit(TimeWidth[n]) = b[n] \div Bit(TimeWidth[n])
    BY <2>1, Put
  <2>3. chip'[n - 1] = c
    BY <1>1
  <2>4. b[n] \div Bit(TimeWidth[n]) = chip[n - 1] \div Bit(TimeWidth[n])
    OBVIOUS
  <2> HIDE DEF c
  <2> QED BY <2>2, <2>3, <2>4
<1>4. chip' \in [Address -> RByte]
  <2>1. \A a \in Address : chip'[a] \in RByte
    <3> SUFFICES ASSUME NEW a \in Address PROVE chip'[a] \in RByte
      OBVIOUS
    <3>1. CASE a \in 0 .. 7
      <4>1. a + 1 \in 1 .. 8 /\ (a + 1) - 1 = a
        BY <3>1
      <4> QED BY <1>3, <4>1
    <3>2. CASE a \notin 0 .. 7
      BY <1>2, <3>2 DEF RegistersKept
    <3> QED BY <3>1, <3>2
  <2>2. chip' = [a \in Address |-> chip'[a]]
    OBVIOUS
  <2> QED BY <2>1, <2>2
<1>5. ShowsTime'
  BY <1>3 DEF ShowsTime
<1>6. HoldsAlarm'
  <2>1. \A n \in 1 .. 6 : chip'[n + 7] = chip[n + 7]
    BY <1>2 DEF Address
  <2> QED BY <2>1 DEF RegistersKept, HoldsAlarm
<1>7. TimerNeverMixed'
  <2>1. /\ chip'[TIMER_CONTROL] = chip[TIMER_CONTROL] /\ chip'[TIMER] = chip[TIMER]
        /\ chip'[TIMER_INITIAL] = chip[TIMER_INITIAL]
    BY <1>2 DEF Address, TIMER_CONTROL, TIMER, TIMER_INITIAL
  <2> QED BY <2>1 DEF RegistersKept, TimerNeverMixed, Running
<1> QED BY <1>2, <1>3, <1>4, <1>5, <1>6, <1>7 DEF RegistersKept

(* Setting the time reads the registers, then writes them back with the    *)
(* digits changed, maybe after the clock has moved on.                     *)
LEMMA WriteTimeStep ==
  ASSUME RtcInv, NEW t \in Instant, WriteTime(t)
  PROVE  RtcInv' /\ Kept
<1>1. CASE job = Idle
  <2>1. /\ job' = [op |-> "write_time", arg |-> t, step |-> 1, buf |-> ReadBulk(0, 8)]
        /\ returned' = Silent /\ chip' = chip /\ NoneAsked
    BY <1>1 DEF WriteTime, Begin, At, Idle
  <2>2. RegistersKept' /\ Kept
    BY <2>1, ChipSame DEF RtcInv
  <2>3. ReadBulk(0, 8) \in [1 .. 8 -> RByte] /\ \A n \in 1 .. 8 : ReadBulk(0, 8)[n] = chip[n - 1]
    <3>1. \A n \in 1 .. 8 : n - 1 \in Address /\ 0 + n - 1 = n - 1
      BY DEF Address
    <3> QED BY <3>1 DEF ReadBulk, RtcInv, RegistersKept
  <2>4. CallsKept'
    <3>1. JobShape' /\ job'.step \in 0 .. 4
      BY <2>1 DEF JobShape
    <3>2. TimeUnderWay'
      BY <2>1, <2>3 DEF TimeUnderWay
    <3>3. AlarmUnderWay' /\ RepeatUnderWay' /\ TimerUnderWay' /\ PinUnderWay'
      BY <2>1 DEF AlarmUnderWay, RepeatUnderWay, TimerUnderWay, PinUnderWay
    <3> QED BY <3>1, <3>2, <3>3 DEF CallsKept
  <2> QED BY <2>1, <2>2, <2>4, Silence DEF RtcInv
<1>2. CASE job # Idle
  <2> DEFINE b == job.buf
             d == Merge(b, TimeWidth, TimeValues(Calendar[t]))
  <2>1. /\ At("write_time", 1) /\ t = job.arg /\ Finish(<<>>) /\ WriteBulk(0, d)
        /\ shown' = t /\ alarmed' = alarmed /\ programmed' = programmed
    BY <1>2 DEF WriteTime
  <2>2. /\ b \in [1 .. 8 -> RByte]
        /\ \A n \in 1 .. 8 : b[n] \div Bit(TimeWidth[n]) = chip[n - 1] \div Bit(TimeWidth[n])
    BY <2>1 DEF At, RtcInv, CallsKept, TimeUnderWay
  <2> HIDE DEF b
  <2>3. /\ DOMAIN d = 1 .. 8
        /\ \A n \in 1 .. 8 : d[n] = With(b[n], 0, TimeWidth[n], Digits(t)[n])
    <3>1. DOMAIN d = 1 .. 8
          /\ \A n \in 1 .. 8 : d[n] = With(b[n], 0, TimeWidth[n], ToBcd(TimeValues(Calendar[t])[n]))
      BY <2>2 DEF Merge
    <3>2. \A n \in 1 .. 8 : ToBcd(TimeValues(Calendar[t])[n]) = Digits(t)[n]
      BY Fits
    <3> QED BY <3>1, <3>2
  <2> HIDE DEF d
  <2>4. chip' = [a \in Address |->
                   IF a < 8 THEN With(b[a + 1], 0, TimeWidth[a + 1], Digits(t)[a + 1])
                   ELSE chip[a]]
    <3>1. \A a \in Address : /\ (a - 0) + 1 = a + 1
                             /\ a < 8 <=> a + 1 \in 1 .. 8
      BY DEF Address
    <3> QED BY <2>1, <2>3, <3>1 DEF WriteBulk
  <2>5. /\ RegistersKept'
        /\ \A n \in 1 .. 8 : chip'[n - 1] \div Bit(TimeWidth[n]) = chip[n - 1] \div Bit(TimeWidth[n])
        /\ \A a \in Address \ (0 .. 7) : chip'[a] = chip[a]
    BY <2>1, <2>2, <2>4, TimePut DEF RtcInv
  <2>6. CallsKept'
    BY <2>1, JobDone DEF Finish, Answer
  <2>7. AsAsked'
    <3>1. returned' = [op |-> "write_time", arg |-> t, result |-> <<>>]
      BY <2>1 DEF At, Finish, Answer
    <3>2. \A n \in 1 .. 8 : Field(ReadBulk(0, 8)'[n], 0, TimeWidth[n]) = Digits(t)[n]
      <4>1. \A n \in 1 .. 8 : ReadBulk(0, 8)'[n] = chip'[n - 1]
        BY DEF ReadBulk
      <4> QED BY <2>1, <2>5, <4>1 DEF RegistersKept, ShowsTime
    <3>3. TimeOf(ReadBulk(0, 8)') = Cut(Calendar[t])
      BY <3>2, TimeRead
    <3> QED BY <3>1, <3>3 DEF AsAsked
  <2>8. Kept
    <3> SUFFICES ASSUME NEW a \in Address, NEW bit \in 0 .. 7, Differ(a, bit)
                 PROVE  \E f \in Touches(Caller) : f[1] = a /\ bit \in f[2] .. f[2] + f[3] - 1
      BY DEF Kept
    <3>1. a \in 0 .. 7
      BY <2>5 DEF Differ
    <3> DEFINE n == a + 1
    <3>2. n \in 1 .. 8 /\ n - 1 = a
      BY <3>1
    <3>3. chip'[a] \in RByte /\ chip[a] \in RByte
      BY <2>5 DEF RtcInv, RegistersKept
    <3>4. TimeWidth[n] \in {2, 3, 5, 6, 7, 8} /\ DigitWidth[n] = TimeWidth[n]
      BY <3>2, Widths
    <3>5. chip'[a] \div Bit(TimeWidth[n]) = chip[a] \div Bit(TimeWidth[n])
      BY <2>5, <3>2
    <3> HIDE DEF n
    <3>6. bit \notin TimeWidth[n] .. 7
      BY <3>3, <3>4, <3>5, HighBits DEF Differ
    <3>7. bit \in 0 .. 0 + TimeWidth[n] - 1
      BY <3>4, <3>6
    <3>8. Touches(Caller) = {<<k - 1, 0, DigitWidth[k]>> : k \in 1 .. 8}
      BY <1>2, <2>1 DEF Touches, Caller, At
    <3>9. <<n - 1, 0, DigitWidth[n]>> \in Touches(Caller)
      BY <3>2, <3>8
    <3> QED BY <3>2, <3>4, <3>7, <3>9
  <2> QED BY <2>5, <2>6, <2>7, <2>8 DEF RtcInv
<1> QED BY <1>1, <1>2

(* The day of the week is the seventh register of the alarm, the eighth of *)
(* the time.                                                               *)
Place(n) == IF n = 7 THEN 8 ELSE n

(* So the widths and digits of the alarm are those of the time.            *)
LEMMA AlarmPlaces ==
  ASSUME NEW i \in Instant, NEW n \in 1 .. 7
  PROVE  /\ Place(n) \in 1 .. 8 /\ AlarmWidth[n] = TimeWidth[Place(n)]
         /\ ToBcd(AlarmValues(Calendar[i])[n]) = Digits(i)[Place(n)]
<1>1. Place(n) \in 1 .. 8
  BY DEF Place
<1>2. AlarmWidth[n] = TimeWidth[Place(n)]
  BY DEF Place, AlarmWidth, TimeWidth
<1>3. AlarmValues(Calendar[i])[n] = TimeValues(Calendar[i])[Place(n)]
  BY DEF Place, AlarmValues, TimeValues
<1> QED BY <1>1, <1>2, <1>3, Fits

(* Setting the alarm does the same with seven registers.                   *)
LEMMA WriteAlarmStep ==
  ASSUME RtcInv, NEW t \in Instant, WriteAlarm(t)
  PROVE  RtcInv' /\ Kept
<1>1. CASE job = Idle
  <2>1. /\ job' = [op |-> "write_alarm", arg |-> t, step |-> 1, buf |-> ReadBulk(8, 7)]
        /\ returned' = Silent /\ chip' = chip /\ NoneAsked
    BY <1>1 DEF WriteAlarm, Begin, At, Idle
  <2>2. RegistersKept' /\ Kept
    BY <2>1, ChipSame DEF RtcInv
  <2>3. ReadBulk(8, 7) \in [1 .. 7 -> RByte] /\ \A n \in 1 .. 7 : ReadBulk(8, 7)[n] = chip[n + 7]
    <3>1. \A n \in 1 .. 7 : n + 7 \in Address /\ 8 + n - 1 = n + 7
      BY DEF Address
    <3> QED BY <3>1 DEF ReadBulk, RtcInv, RegistersKept
  <2>4. CallsKept'
    <3>1. JobShape' /\ job'.step \in 0 .. 4
      BY <2>1 DEF JobShape
    <3>2. AlarmUnderWay'
      BY <2>1, <2>3 DEF AlarmUnderWay
    <3>3. TimeUnderWay' /\ RepeatUnderWay' /\ TimerUnderWay' /\ PinUnderWay'
      BY <2>1 DEF TimeUnderWay, RepeatUnderWay, TimerUnderWay, PinUnderWay
    <3> QED BY <3>1, <3>2, <3>3 DEF CallsKept
  <2> QED BY <2>1, <2>2, <2>4, Silence DEF RtcInv
<1>2. CASE job # Idle
  <2> DEFINE b == job.buf
             d == Merge(b, AlarmWidth, AlarmValues(Calendar[t]))
  <2>1. /\ At("write_alarm", 1) /\ t = job.arg /\ Finish(<<>>) /\ WriteBulk(8, d)
        /\ alarmed' = t /\ shown' = shown /\ programmed' = programmed
    BY <1>2 DEF WriteAlarm
  <2>2. b \in [1 .. 7 -> RByte] /\ \A n \in 1 .. 7 : b[n] = chip[n + 7]
    BY <2>1 DEF At, RtcInv, CallsKept, AlarmUnderWay
  <2> HIDE DEF b
  <2>3. /\ DOMAIN d = 1 .. 7
        /\ \A n \in 1 .. 7 : d[n] = With(b[n], 0, TimeWidth[Place(n)], Digits(t)[Place(n)])
    <3>1. DOMAIN d = 1 .. 7
          /\ \A n \in 1 .. 7 : d[n] = With(b[n], 0, AlarmWidth[n], ToBcd(AlarmValues(Calendar[t])[n]))
      BY <2>2 DEF Merge
    <3> QED BY <3>1, AlarmPlaces
  <2> HIDE DEF d
  <2>4. /\ \A n \in 1 .. 7 : chip'[n + 7] = d[n]
        /\ \A a \in Address \ (8 .. 14) : chip'[a] = chip[a]
        /\ chip' = [a \in Address |-> chip'[a]]
    <3>1. \A n \in 1 .. 7 : n + 7 \in Address /\ (n + 7) - 8 + 1 = n
      BY DEF Address
    <3>2. \A a \in Address \ (8 .. 14) : a - 8 + 1 \notin 1 .. 7
      BY DEF Address
    <3> QED BY <2>1, <2>3, <3>1, <3>2 DEF WriteBulk
  <2>5. \A n \in 1 .. 7 :
          /\ chip'[n + 7] \in RByte
          /\ Field(chip'[n + 7], 0, TimeWidth[Place(n)]) = Digits(t)[Place(n)]
          /\ chip'[n + 7] \div Bit(TimeWidth[Place(n)]) = chip[n + 7] \div Bit(TimeWidth[Place(n)])
    <3> SUFFICES ASSUME NEW n \in 1 .. 7
          PROVE /\ chip'[n + 7] \in RByte
                /\ Field(chip'[n + 7], 0, TimeWidth[Place(n)]) = Digits(t)[Place(n)]
                /\ chip'[n + 7] \div Bit(TimeWidth[Place(n)])
                   = chip[n + 7] \div Bit(TimeWidth[Place(n)])
      OBVIOUS
    <3> DEFINE m == Place(n)
               c == With(b[n], 0, TimeWidth[m], Digits(t)[m])
    <3>1. m \in 1 .. 8 /\ b[n] \in RByte
      BY <2>2, AlarmPlaces
    <3> HIDE DEF m
    <3>2. c \in RByte /\ Field(c, 0, TimeWidth[m]) = Digits(t)[m]
          /\ c \div Bit(TimeWidth[m]) = b[n] \div Bit(TimeWidth[m])
      BY <3>1, Put
    <3>3. chip'[n + 7] = c /\ b[n] = chip[n + 7]
      BY <2>2, <2>3, <2>4 DEF m
    <3> HIDE DEF c
    <3> QED BY <3>2, <3>3 DEF m
  <2>6. RegistersKept'
    <3>1. chip' \in [Address -> RByte]
      <4>1. \A a \in Address : chip'[a] \in RByte
        <5> SUFFICES ASSUME NEW a \in Address PROVE chip'[a] \in RByte
          OBVIOUS
        <5>1. CASE a \in 8 .. 14
          <6>1. a - 7 \in 1 .. 7 /\ (a - 7) + 7 = a
            BY <5>1
          <6> QED BY <2>5, <6>1
        <5>2. CASE a \notin 8 .. 14
          BY <2>4, <5>2 DEF RtcInv, RegistersKept
        <5> QED BY <5>1, <5>2
      <4> QED BY <2>4, <4>1
    <3>2. ShowsTime'
      <4>1. \A n \in 1 .. 8 : chip'[n - 1] = chip[n - 1]
        BY <2>4 DEF Address
      <4> QED BY <2>1, <4>1 DEF RtcInv, RegistersKept, ShowsTime
    <3>3. HoldsAlarm'
      <4>1. \A n \in 1 .. 6 : n \in 1 .. 7 /\ Place(n) = n
        BY DEF Place
      <4> QED BY <2>1, <2>5, <4>1 DEF HoldsAlarm
    <3>4. TimerNeverMixed'
      <4>1. /\ chip'[TIMER_CONTROL] = chip[TIMER_CONTROL] /\ chip'[TIMER] = chip[TIMER]
            /\ chip'[TIMER_INITIAL] = chip[TIMER_INITIAL]
        BY <2>4 DEF Address, TIMER_CONTROL, TIMER, TIMER_INITIAL
      <4> QED BY <2>1, <4>1 DEF RtcInv, RegistersKept, TimerNeverMixed, Running
    <3> QED BY <2>1, <3>1, <3>2, <3>3, <3>4 DEF RtcInv, RegistersKept
  <2>7. CallsKept'
    BY <2>1, JobDone DEF Finish, Answer
  <2>8. AsAsked'
    <3>1. returned' = [op |-> "write_alarm", arg |-> t, result |-> <<>>]
      BY <2>1 DEF At, Finish, Answer
    <3> QED BY <3>1 DEF AsAsked
  <2>9. Kept
    <3> SUFFICES ASSUME NEW a \in Address, NEW bit \in 0 .. 7, Differ(a, bit)
                 PROVE  \E f \in Touches(Caller) : f[1] = a /\ bit \in f[2] .. f[2] + f[3] - 1
      BY DEF Kept
    <3>1. a \in 8 .. 14
      BY <2>4 DEF Differ
    <3> DEFINE n == a - 7
               m == Place(n)
    <3>2. n \in 1 .. 7 /\ n + 7 = a /\ m \in 1 .. 8
      BY <3>1 DEF Place
    <3>3. chip'[a] \in RByte /\ chip[a] \in RByte
      BY <2>6 DEF RtcInv, RegistersKept
    <3>4. TimeWidth[m] \in {2, 3, 5, 6, 7, 8} /\ DigitWidth[m] = TimeWidth[m]
      BY <3>2, Widths
    <3>5. chip'[a] \div Bit(TimeWidth[m]) = chip[a] \div Bit(TimeWidth[m])
      BY <2>5, <3>2
    <3>6. <<n + 7, 0, DigitWidth[m]>> \in {<<k + 7, 0, DigitWidth[k]>> : k \in 1 .. 6} \cup {<<14, 0, 3>>}
      BY <3>2 DEF Place, DigitWidth
    <3> HIDE DEF n, m
    <3>7. bit \notin TimeWidth[m] .. 7
      BY <3>3, <3>4, <3>5, HighBits DEF Differ
    <3>8. bit \in 0 .. 0 + TimeWidth[m] - 1
      BY <3>4, <3>7
    <3>9. Touches(Caller) = {<<k + 7, 0, DigitWidth[k]>> : k \in 1 .. 6} \cup {<<14, 0, 3>>}
      BY <1>2, <2>1 DEF Touches, Caller, At
    <3>10. <<n + 7, 0, DigitWidth[m]>> \in Touches(Caller)
      BY <3>6, <3>9
    <3> QED BY <3>2, <3>4, <3>8, <3>10
  <2> QED BY <2>6, <2>7, <2>8, <2>9 DEF RtcInv
<1> QED BY <1>1, <1>2

(* The digits tell the instants of the calendar apart.                     *)
LEMMA DigitsTell ==
  ASSUME NEW i \in Instant, NEW j \in Instant, \A n \in 1 .. 8 : Digits(i)[n] = Digits(j)[n]
  PROVE  i = j
<1>1. \A n \in 1 .. 8 : TimeValues(Calendar[i])[n] = TimeValues(Calendar[j])[n]
  BY Fits
<1>2. TimeValues(Calendar[i]) = TimeValues(Calendar[j])
  BY <1>1 DEF TimeValues
<1> QED BY <1>2, RtcAssumption DEF Instant

(* A step of the chip itself leaves the call that is under way as it is.   *)
LEMMA TickStep == ASSUME RtcInv, Tick PROVE RtcInv' /\ Kept
<1>1. PICK i \in Instant \ {Len(Calendar)} :
        /\ \A n \in 1 .. 8 : Field(chip[n - 1], 0, DigitWidth[n]) = Digits(i)[n]
        /\ chip' = [a \in Address |->
             IF a < 8 THEN With(chip[a], 0, DigitWidth[a + 1], Digits(i + 1)[a + 1]) ELSE chip[a]]
        /\ shown' = shown + 1 /\ returned' = Silent /\ UNCHANGED <<job, alarmed, programmed>>
  BY DEF Tick
<1>2. i = shown
  <2>1. \A n \in 1 .. 8 : Digits(i)[n] = Digits(shown)[n]
    BY <1>1, Widths DEF RtcInv, RegistersKept, ShowsTime
  <2> QED BY <2>1, DigitsTell DEF RtcInv, RegistersKept
<1>3. i + 1 \in Instant
  BY RtcAssumption DEF Instant
<1> DEFINE b == [n \in 1 .. 8 |-> chip[n - 1]]
<1>4. /\ b \in [1 .. 8 -> RByte]
      /\ \A n \in 1 .. 8 : b[n] \div Bit(TimeWidth[n]) = chip[n - 1] \div Bit(TimeWidth[n])
  BY DEF RtcInv, RegistersKept, Address
<1>5. chip' = [a \in Address |->
                 IF a < 8 THEN With(b[a + 1], 0, TimeWidth[a + 1], Digits(i + 1)[a + 1])
                 ELSE chip[a]]
  <2>1. \A a \in Address : a < 8 => /\ a + 1 \in 1 .. 8 /\ b[a + 1] = chip[a]
                                    /\ DigitWidth[a + 1] = TimeWidth[a + 1]
    <3>1. \A a \in Address : a < 8 => a + 1 \in 1 .. 8 /\ (a + 1) - 1 = a
      BY DEF Address
    <3> QED BY <3>1, Widths
  <2> HIDE DEF b
  <2> QED BY <1>1, <2>1
<1> HIDE DEF b
<1>6. shown' = i + 1 /\ alarmed' = alarmed /\ programmed' = programmed /\ job' = job
  BY <1>1, <1>2
<1>7. /\ RegistersKept'
      /\ \A n \in 1 .. 8 : chip'[n - 1] \div Bit(TimeWidth[n]) = chip[n - 1] \div Bit(TimeWidth[n])
      /\ \A a \in Address \ (0 .. 7) : chip'[a] = chip[a]
  BY <1>3, <1>4, <1>5, <1>6, TimePut DEF RtcInv
<1>8. CallsKept'
  <2>1. JobShape' /\ job'.step \in 0 .. 4
    BY <1>6 DEF RtcInv, CallsKept, JobShape
  <2>2. TimeUnderWay'
    BY <1>6, <1>7 DEF RtcInv, CallsKept, TimeUnderWay
  <2>3. AlarmUnderWay'
    <3>1. \A n \in 1 .. 7 : chip'[n + 7] = chip[n + 7]
      BY <1>7 DEF Address
    <3> QED BY <1>6, <3>1 DEF RtcInv, CallsKept, AlarmUnderWay
  <2>4. /\ chip'[TIMER_CONTROL] = chip[TIMER_CONTROL] /\ chip'[TIMER] = chip[TIMER]
        /\ chip'[TIMER_INITIAL] = chip[TIMER_INITIAL] /\ chip'[INTMASK] = chip[INTMASK]
        /\ chip'[OUT] = chip[OUT] /\ chip'[KEY] = chip[KEY]
    BY <1>7 DEF Address, TIMER_CONTROL, TIMER, TIMER_INITIAL, INTMASK, OUT, KEY
  <2>5. RepeatUnderWay'
    BY <1>6, <2>4 DEF RtcInv, CallsKept, RepeatUnderWay
  <2>6. TimerUnderWay'
    BY <1>6, <2>4 DEF RtcInv, CallsKept, TimerUnderWay
  <2>7. PinUnderWay'
    BY <1>6, <2>4 DEF RtcInv, CallsKept, PinUnderWay
  <2> QED BY <2>1, <2>2, <2>3, <2>5, <2>6, <2>7 DEF CallsKept
<1>9. AsAsked' /\ Kept
  BY <1>1, Silence DEF Kept
<1> QED BY <1>7, <1>8, <1>9 DEF RtcInv

(* A control register is written: the time and the alarm are elsewhere.    *)
LEMMA OneWritten ==
  ASSUME RegistersKept, NEW r \in Address \ (0 .. 14), NEW v \in RByte,
         chip' = [chip EXCEPT ![r] = v], shown' = shown, alarmed' = alarmed
  PROVE  /\ chip' \in [Address -> RByte] /\ chip'[r] = v
         /\ \A a \in Address \ {r} : chip'[a] = chip[a]
         /\ ShowsTime' /\ HoldsAlarm'
<1>1. /\ chip' \in [Address -> RByte] /\ chip'[r] = v
      /\ \A a \in Address \ {r} : chip'[a] = chip[a]
  BY DEF RegistersKept
<1>2. \A a \in 0 .. 14 : chip'[a] = chip[a]
  BY <1>1 DEF Address
<1>3. ShowsTime'
  <2>1. \A n \in 1 .. 8 : chip'[n - 1] = chip[n - 1]
    BY <1>2
  <2> QED BY <2>1 DEF RegistersKept, ShowsTime
<1>4. HoldsAlarm'
  <2>1. \A n \in 1 .. 6 : chip'[n + 7] = chip[n + 7]
    BY <1>2
  <2> QED BY <2>1 DEF RegistersKept, HoldsAlarm
<1> QED BY <1>1, <1>3, <1>4

(* The fields of one register that a step changes.                         *)
LEMMA KeptOne ==
  ASSUME NEW r \in Address, \A a \in Address \ {r} : chip'[a] = chip[a],
         NEW f \in Touches(Caller), f[1] = r,
         \A bit \in 0 .. 7 : bit \notin f[2] .. f[2] + f[3] - 1
                             => Field(chip'[r], bit, 1) = Field(chip[r], bit, 1)
  PROVE  Kept
BY DEF Kept, Differ

(* The control registers are registers of their own.                       *)
LEMMA Apart ==
  /\ \A r \in {TIMER_CONTROL, TIMER, TIMER_INITIAL, INTMASK, OUT, KEY, TRICKLE} :
       r \in Address \ (0 .. 14)
  /\ TIMER_CONTROL # TIMER /\ TIMER_CONTROL # TIMER_INITIAL /\ TIMER # TIMER_INITIAL
  /\ \A r \in {INTMASK, OUT, KEY, TRICKLE} :
       r # TIMER_CONTROL /\ r # TIMER /\ r # TIMER_INITIAL
  /\ KEY # TRICKLE /\ INTMASK # OUT
  /\ \A r \in {TIMER_CONTROL, TIMER, TIMER_INITIAL, INTMASK, OUT, KEY} : r # TRICKLE
BY DEF Address, TIMER_CONTROL, TIMER, TIMER_INITIAL, INTMASK, OUT, KEY, TRICKLE

(* The repetition shares its register with the control of the timer.       *)
LEMMA RepeatAlarmStep ==
  ASSUME RtcInv, NEW n \in Repeats, RepeatAlarm(n)
  PROVE  RtcInv' /\ Kept
<1>0. n \in Int
  BY RtcAssumption
<1>1. CASE job = Idle /\ (n < 0 \/ n > 7)
  <2>1. job' = Idle /\ returned' = [op |-> "repeat", arg |-> n, result |-> <<FALSE>>]
        /\ chip' = chip /\ NoneAsked
    BY <1>1 DEF RepeatAlarm, Answer, At, Idle
  <2>2. (n \in 0 .. 7) = FALSE
    BY <1>0, <1>1
  <2>3. AsAsked'
    BY <2>1, <2>2 DEF AsAsked
  <2> QED BY <2>1, <2>3, ChipSame, JobDone DEF RtcInv
<1>2. CASE job = Idle /\ ~(n < 0 \/ n > 7)
  <2>1. /\ job' = [op |-> "repeat", arg |-> n, step |-> 1, buf |-> ReadBulk(TIMER_CONTROL, 1)]
        /\ returned' = Silent /\ chip' = chip /\ NoneAsked
    BY <1>2 DEF RepeatAlarm, Begin, At, Idle
  <2>2. ReadBulk(TIMER_CONTROL, 1)[1] = chip[TIMER_CONTROL]
    BY DEF ReadBulk, TIMER_CONTROL
  <2>3. n \in 0 .. 7
    BY <1>0, <1>2
  <2>4. CallsKept'
    <3>1. JobShape' /\ job'.step \in 0 .. 4
      BY <2>1 DEF JobShape
    <3>2. RepeatUnderWay'
      BY <2>1, <2>2, <2>3 DEF RepeatUnderWay
    <3>3. TimeUnderWay' /\ AlarmUnderWay' /\ TimerUnderWay' /\ PinUnderWay'
      BY <2>1 DEF TimeUnderWay, AlarmUnderWay, TimerUnderWay, PinUnderWay
    <3> QED BY <3>1, <3>2, <3>3 DEF CallsKept
  <2> QED BY <2>1, <2>4, ChipSame, Silence DEF RtcInv
<1>3. CASE job # Idle
  <2> DEFINE b == chip[TIMER_CONTROL]
             c == With(b, 2, 3, n)
  <2>1. /\ At("repeat", 1) /\ n = job.arg /\ Finish(<<TRUE>>) /\ NoneAsked
        /\ WriteRegister(TIMER_CONTROL, With(job.buf[1], 2, 3, n))
    BY <1>3 DEF RepeatAlarm
  <2>2. n \in 0 .. 7 /\ job.buf[1] = b
    BY <2>1 DEF At, RtcInv, CallsKept, RepeatUnderWay
  <2>3. b \in RByte
    BY Apart DEF RtcInv, RegistersKept
  <2> HIDE DEF b
  <2>4. /\ c \in RByte /\ Field(c, 2, 3) = n
        /\ Field(c, 0, 2) = Field(b, 0, 2) /\ Field(c, 7, 1) = Field(b, 7, 1)
        /\ \A bit \in {0, 1, 5, 6, 7} : Field(c, bit, 1) = Field(b, bit, 1)
    <3>1. n % 8 = n
      BY <2>2
    <3>2. /\ c \in RByte /\ Field(c, 2, 3) = n % 8
          /\ Field(c, 0, 2) = Field(b, 0, 2) /\ Field(c, 7, 1) = Field(b, 7, 1)
          /\ \A bit \in {0, 1, 5, 6, 7} : Field(c, bit, 1) = Field(b, bit, 1)
      BY <1>0, <2>3, WithRepeat
    <3> HIDE DEF c
    <3> QED BY <3>1, <3>2
  <2>5. chip' = [chip EXCEPT ![TIMER_CONTROL] = c]
    BY <2>1, <2>2, Apart DEF WriteRegister
  <2>6. UNCHANGED <<shown, alarmed, programmed>>
    BY <2>1 DEF NoneAsked
  <2> HIDE DEF c
  <2>7. /\ chip' \in [Address -> RByte] /\ chip'[TIMER_CONTROL] = c
        /\ \A a \in Address \ {TIMER_CONTROL} : chip'[a] = chip[a]
        /\ ShowsTime' /\ HoldsAlarm'
    BY <2>4, <2>5, <2>6, Apart, OneWritten DEF RtcInv
  <2>8. TimerNeverMixed'
    <3>1. chip'[TIMER] = chip[TIMER] /\ chip'[TIMER_INITIAL] = chip[TIMER_INITIAL]
      BY <2>7, Apart
    <3> QED BY <2>4, <2>6, <2>7, <3>1 DEF RtcInv, RegistersKept, TimerNeverMixed, Running, b
  <2>9. CallsKept'
    BY <2>1, JobDone DEF Finish, Answer
  <2>10. AsAsked'
    <3>1. returned' = [op |-> "repeat", arg |-> n, result |-> <<TRUE>>]
      BY <2>1 DEF At, Finish, Answer
    <3>2. (n \in 0 .. 7) = TRUE
      BY <2>2
    <3> QED BY <2>4, <2>7, <3>1, <3>2 DEF AsAsked
  <2>11. Kept
    <3> DEFINE f == <<TIMER_CONTROL, 2, 3>>
    <3>1. f \in Touches(Caller)
      BY <1>3, <2>1 DEF Touches, Caller, At
    <3>2. f[1] = TIMER_CONTROL /\ f[2] = 2 /\ f[3] = 3
      OBVIOUS
    <3>3. \A bit \in 0 .. 7 : bit \notin 2 .. 4 => Field(c, bit, 1) = Field(b, bit, 1)
      BY <2>4
    <3> HIDE DEF f
    <3>4. \A bit \in 0 .. 7 : bit \notin f[2] .. f[2] + f[3] - 1
            => Field(chip'[TIMER_CONTROL], bit, 1) = Field(chip[TIMER_CONTROL], bit, 1)
      BY <2>7, <3>2, <3>3 DEF b
    <3> QED BY <2>7, <3>1, <3>2, <3>4, Apart, KeptOne
  <2> QED BY <2>6, <2>7, <2>8, <2>9, <2>10, <2>11 DEF RtcInv, RegistersKept
<1> QED BY <1>1, <1>2, <1>3

(* The countdown runs only while no call is about to set the timer.        *)
LEMMA CountdownStep == ASSUME RtcInv, Countdown PROVE RtcInv' /\ Kept
<1> DEFINE v == IF chip[TIMER] > 0 THEN 0 ELSE chip[TIMER_INITIAL]
<1>1. /\ Running /\ chip' = [chip EXCEPT ![TIMER] = v]
      /\ returned' = Silent /\ UNCHANGED <<job, shown, alarmed, programmed>>
  BY DEF Countdown
<1>2. chip[TIMER] \in RByte /\ chip[TIMER_INITIAL] \in RByte
  BY Apart DEF RtcInv, RegistersKept
<1>3. v \in RByte /\ v <= chip[TIMER_INITIAL]
  BY <1>2 DEF RByte
<1> HIDE DEF v
<1>4. /\ chip' \in [Address -> RByte] /\ chip'[TIMER] = v
      /\ \A a \in Address \ {TIMER} : chip'[a] = chip[a]
      /\ ShowsTime' /\ HoldsAlarm'
  BY <1>1, <1>3, Apart, OneWritten DEF RtcInv
<1>5. /\ chip'[TIMER_CONTROL] = chip[TIMER_CONTROL]
      /\ chip'[TIMER_INITIAL] = chip[TIMER_INITIAL] /\ chip'[INTMASK] = chip[INTMASK]
      /\ chip'[OUT] = chip[OUT] /\ chip'[KEY] = chip[KEY]
  BY <1>4, Apart
<1>6. TimerNeverMixed'
  BY <1>1, <1>3, <1>4, <1>5 DEF RtcInv, RegistersKept, TimerNeverMixed, Running
<1>7. CallsKept'
  <2>1. JobShape' /\ job'.step \in 0 .. 4
    BY <1>1 DEF RtcInv, CallsKept, JobShape
  <2>2. TimeUnderWay'
    <3>1. \A n \in 1 .. 8 : chip'[n - 1] = chip[n - 1]
      BY <1>4 DEF Address, TIMER
    <3> QED BY <1>1, <3>1 DEF RtcInv, CallsKept, TimeUnderWay
  <2>3. AlarmUnderWay'
    <3>1. \A n \in 1 .. 7 : chip'[n + 7] = chip[n + 7]
      BY <1>4 DEF Address, TIMER
    <3> QED BY <1>1, <3>1 DEF RtcInv, CallsKept, AlarmUnderWay
  <2>4. RepeatUnderWay'
    BY <1>1, <1>5 DEF RtcInv, CallsKept, RepeatUnderWay
  <2>5. TimerUnderWay'
    <3>1. job.op = "write_timer" => job.step = 1
      <4> SUFFICES ASSUME job.op = "write_timer", job.step # 1 PROVE FALSE
        OBVIOUS
      <4>1. chip[TIMER_CONTROL] = Stopped(job.buf[1]) /\ job.buf[1] \in RByte
        BY DEF RtcInv, CallsKept, TimerUnderWay
      <4> QED BY <1>1, <4>1, StoppedOnly DEF Running
    <3> QED BY <1>1, <1>5, <3>1 DEF RtcInv, CallsKept, TimerUnderWay
  <2>6. PinUnderWay'
    BY <1>1, <1>5 DEF RtcInv, CallsKept, PinUnderWay
  <2> QED BY <2>1, <2>2, <2>3, <2>4, <2>5, <2>6 DEF CallsKept
<1>8. AsAsked' /\ Kept
  BY <1>1, Silence DEF Kept
<1> QED BY <1>1, <1>4, <1>6, <1>7, <1>8 DEF RtcInv, RegistersKept

(* Setting the timer: the call refuses a period of 0, or reads the control *)
(* register.                                                               *)
LEMMA WriteTimerBegin ==
  ASSUME RtcInv, NEW p \in Periods, WriteTimer(p), job = Idle
  PROVE  RtcInv' /\ Kept
<1>0. p \in Nat
  BY RtcAssumption
<1>1. CASE find_timer(p) = 0
  <2>1. job' = Idle /\ returned' = [op |-> "write_timer", arg |-> p, result |-> <<0>>]
        /\ chip' = chip /\ NoneAsked
    BY <1>1 DEF WriteTimer, Answer, At, Idle
  <2>2. Answered(p) = 0
    BY <1>0, <1>1, FoundAnswered
  <2>3. AsAsked'
    BY <2>1, <2>2 DEF AsAsked
  <2> QED BY <2>1, <2>3, ChipSame, JobDone DEF RtcInv
<1>2. CASE find_timer(p) # 0
  <2>1. /\ job' = [op |-> "write_timer", arg |-> p, step |-> 1, buf |-> ReadBulk(TIMER_CONTROL, 1)]
        /\ returned' = Silent /\ chip' = chip /\ NoneAsked
    BY <1>2 DEF WriteTimer, Begin, At, Idle
  <2>2. ReadBulk(TIMER_CONTROL, 1)[1] = chip[TIMER_CONTROL]
    BY DEF ReadBulk, TIMER_CONTROL
  <2>3. chip[TIMER_CONTROL] \in RByte
    BY Apart DEF RtcInv, RegistersKept
  <2>4. CallsKept'
    <3>1. JobShape' /\ job'.step \in 0 .. 4
      BY <2>1 DEF JobShape
    <3>2. TimerUnderWay'
      BY <1>0, <1>2, <2>1, <2>2, <2>3 DEF TimerUnderWay
    <3>3. TimeUnderWay' /\ AlarmUnderWay' /\ RepeatUnderWay' /\ PinUnderWay'
      BY <2>1 DEF TimeUnderWay, AlarmUnderWay, RepeatUnderWay, PinUnderWay
    <3> QED BY <3>1, <3>2, <3>3 DEF CallsKept
  <2> QED BY <2>1, <2>4, ChipSame, Silence DEF RtcInv
<1> QED BY <1>1, <1>2

(* The first three writes.                                                 *)
LEMMA WriteTimerGoesOn ==
  ASSUME RtcInv, NEW p \in Periods, p = job.arg, NoneAsked, Proceed(job.buf),
         \/ At("write_timer", 1) /\ WriteRegister(TIMER_CONTROL, Stopped(job.buf[1]))
         \/ At("write_timer", 2) /\ WriteRegister(TIMER, Program(p)[2])
         \/ At("write_timer", 3) /\ WriteRegister(TIMER_INITIAL, Program(p)[2])
  PROVE  RtcInv' /\ Kept
<1> DEFINE r == IF job.step = 1 THEN TIMER_CONTROL
                ELSE IF job.step = 2 THEN TIMER ELSE TIMER_INITIAL
           v == IF job.step = 1 THEN Stopped(job.buf[1]) ELSE Program(p)[2]
<1>1. job.op = "write_timer" /\ job.step \in 1 .. 3
  BY DEF At
<1>2. /\ p \in Nat /\ find_timer(p) # 0 /\ job.buf[1] \in RByte
      /\ job.step = 1 => job.buf[1] = chip[TIMER_CONTROL]
      /\ job.step > 1 => chip[TIMER_CONTROL] = Stopped(job.buf[1])
      /\ job.step > 2 => chip[TIMER] = Program(p)[2]
  BY <1>1 DEF RtcInv, CallsKept, TimerUnderWay
<1>3. chip' = [chip EXCEPT ![r] = v]
  BY Apart DEF At, WriteRegister
<1>4. r \in Address \ (0 .. 14)
  BY Apart
<1>5. v \in RByte
  <2>1. Program(p)[2] \in RByte
    BY <1>2, Programmed DEF RByte
  <2> QED BY <1>2, <2>1, StoppedOnly
<1>6. UNCHANGED <<shown, alarmed, programmed>> /\ returned' = Silent
  BY DEF NoneAsked, Proceed
<1>7. job' = [op |-> "write_timer", arg |-> p, step |-> job.step + 1, buf |-> job.buf]
  BY <1>1 DEF Proceed, RtcInv, CallsKept, JobShape
<1>8. /\ r = TIMER_CONTROL <=> job.step = 1
      /\ r = TIMER <=> job.step = 2
      /\ r = TIMER_INITIAL <=> job.step = 3
      /\ job.step = 1 => v = Stopped(job.buf[1])
      /\ job.step > 1 => v = Program(p)[2]
  BY <1>1, Apart
<1> HIDE DEF r, v
<1>9. /\ chip' \in [Address -> RByte] /\ chip'[r] = v
      /\ \A a \in Address \ {r} : chip'[a] = chip[a]
      /\ ShowsTime' /\ HoldsAlarm'
  BY <1>3, <1>4, <1>5, <1>6, OneWritten DEF RtcInv
<1>10. /\ job.step = 1 => chip'[TIMER_CONTROL] = Stopped(job.buf[1])
       /\ job.step > 1 => chip'[TIMER_CONTROL] = chip[TIMER_CONTROL]
       /\ job.step = 2 => chip'[TIMER] = Program(p)[2]
       /\ job.step = 3 => chip'[TIMER] = chip[TIMER] /\ chip'[TIMER_INITIAL] = Program(p)[2]
  BY <1>1, <1>8, <1>9, Apart
<1>11. chip'[TIMER_CONTROL] = Stopped(job.buf[1])
  BY <1>1, <1>2, <1>10
<1>12. TimerNeverMixed'
  <2>1. Field(chip'[TIMER_CONTROL], 7, 1) = 0
    BY <1>2, <1>11, StoppedOnly
  <2> QED BY <2>1 DEF TimerNeverMixed, Running
<1>13. CallsKept'
  <2>1. JobShape' /\ job'.step \in 0 .. 4
    BY <1>1, <1>7 DEF JobShape
  <2>2. TimerUnderWay'
    BY <1>1, <1>2, <1>7, <1>10, <1>11 DEF TimerUnderWay
  <2>3. TimeUnderWay' /\ AlarmUnderWay' /\ RepeatUnderWay' /\ PinUnderWay'
    BY <1>7 DEF TimeUnderWay, AlarmUnderWay, RepeatUnderWay, PinUnderWay
  <2> QED BY <2>1, <2>2, <2>3 DEF CallsKept
<1>14. Kept
  <2>1. Caller = "write_timer"
    BY <1>1 DEF Caller, Idle
  <2>2. Touches(Caller) = {<<TIMER_CONTROL, 5, 3>>, <<TIMER_CONTROL, 0, 2>>,
                           <<TIMER, 0, 8>>, <<TIMER_INITIAL, 0, 8>>}
    BY <2>1 DEF Touches
  <2>3. CASE job.step = 1
    <3> DEFINE f == <<TIMER_CONTROL, 5, 3>>
    <3>1. f \in Touches(Caller) /\ f[1] = TIMER_CONTROL /\ f[2] = 5 /\ f[3] = 3
      BY <2>2
    <3>2. \A bit \in 0 .. 6 : Field(chip'[TIMER_CONTROL], bit, 1) = Field(chip[TIMER_CONTROL], bit, 1)
      BY <1>2, <1>11, <2>3, StoppedOnly
    <3> HIDE DEF f
    <3>3. \A bit \in 0 .. 7 : bit \notin f[2] .. f[2] + f[3] - 1
            => Field(chip'[TIMER_CONTROL], bit, 1) = Field(chip[TIMER_CONTROL], bit, 1)
      BY <3>1, <3>2
    <3>4. r = TIMER_CONTROL
      BY <1>8, <2>3
    <3> QED BY <1>4, <1>9, <3>1, <3>3, <3>4, KeptOne
  <2>4. CASE job.step # 1
    <3> DEFINE f == <<r, 0, 8>>
    <3>1. f \in Touches(Caller)
      BY <1>1, <1>8, <2>2, <2>4
    <3>2. f[1] = r /\ f[2] = 0 /\ f[3] = 8
      OBVIOUS
    <3> HIDE DEF f
    <3>3. \A bit \in 0 .. 7 : bit \in f[2] .. f[2] + f[3] - 1
      BY <3>2
    <3> QED BY <1>4, <1>9, <3>1, <3>2, <3>3, KeptOne
  <2> QED BY <2>3, <2>4
<1> QED BY <1>6, <1>9, <1>12, <1>13, <1>14, Silence DEF RtcInv, RegistersKept

(* The last write starts the timer.                                        *)
LEMMA WriteTimerEnds ==
  ASSUME RtcInv, NEW p \in Periods, At("write_timer", 4), p = job.arg, Finish(<<find_timer(p)>>),
         WriteRegister(TIMER_CONTROL, 160 + 4 * Field(job.buf[1], 2, 3) + Program(p)[1]),
         programmed' = Program(p), UNCHANGED <<shown, alarmed>>
  PROVE  RtcInv' /\ Kept
<1> DEFINE b == job.buf[1]
           c == 160 + 4 * Field(b, 2, 3) + Program(p)[1]
<1>1. /\ p \in Nat /\ find_timer(p) # 0 /\ b \in RByte
      /\ chip[TIMER_CONTROL] = Stopped(b)
      /\ chip[TIMER] = Program(p)[2] /\ chip[TIMER_INITIAL] = Program(p)[2]
  BY DEF At, RtcInv, CallsKept, TimerUnderWay
<1>2. chip' = [chip EXCEPT ![TIMER_CONTROL] = c]
  BY Apart DEF WriteRegister
<1>3. /\ Program(p) = <<Program(p)[1], Program(p)[2]>>
      /\ Program(p)[1] \in 0 .. 3 /\ Program(p)[2] \in 0 .. 255
      /\ (Program(p)[2] + 1) * Unit[Program(p)[1] + 1] = Held(p)
  BY <1>1, Programmed
<1> HIDE DEF b
<1>4. /\ c \in RByte /\ Field(c, 7, 1) = 1 /\ Field(c, 0, 2) = Program(p)[1]
      /\ \A bit \in 2 .. 4 : Field(c, bit, 1) = Field(b, bit, 1)
  BY <1>1, <1>3, ControlOf
<1> HIDE DEF c
<1>5. /\ chip' \in [Address -> RByte] /\ chip'[TIMER_CONTROL] = c
      /\ \A a \in Address \ {TIMER_CONTROL} : chip'[a] = chip[a]
      /\ ShowsTime' /\ HoldsAlarm'
  BY <1>2, <1>4, Apart, OneWritten DEF RtcInv
<1>6. chip'[TIMER] = Program(p)[2] /\ chip'[TIMER_INITIAL] = Program(p)[2]
  BY <1>1, <1>5, Apart
<1>7. programmed' = <<Program(p)[1], Program(p)[2]>> /\ programmed' \in (0 .. 3) \X (0 .. 255)
  BY <1>3
<1>8. TimerNeverMixed'
  BY <1>3, <1>4, <1>5, <1>6, <1>7 DEF TimerNeverMixed
<1>9. CallsKept'
  BY JobDone DEF Finish, Answer
<1>10. AsAsked'
  <2>1. returned' = [op |-> "write_timer", arg |-> p, result |-> <<find_timer(p)>>]
    BY DEF At, Finish, Answer
  <2>2. Running'
    BY <1>4, <1>5 DEF Running
  <2>3. Answered(p) = find_timer(p)
    BY <1>1, FoundAnswered
  <2>4. PeriodSet' = (Program(p)[2] + 1) * Unit[Program(p)[1] + 1]
    BY <1>4, <1>5, <1>6 DEF PeriodSet
  <2>5. PeriodSet' = Held(p)
    BY <1>3, <2>4
  <2> QED BY <2>1, <2>2, <2>3, <2>5 DEF AsAsked
<1>11. Kept
  <2>1. Caller = "write_timer"
    BY DEF Caller, Idle, At
  <2>2. <<TIMER_CONTROL, 5, 3>> \in Touches(Caller) /\ <<TIMER_CONTROL, 0, 2>> \in Touches(Caller)
    BY <2>1 DEF Touches
  <2> SUFFICES ASSUME NEW a \in Address, NEW bit \in 0 .. 7, Differ(a, bit)
               PROVE  \E f \in Touches(Caller) : f[1] = a /\ bit \in f[2] .. f[2] + f[3] - 1
    BY DEF Kept
  <2>3. a = TIMER_CONTROL
    BY <1>5 DEF Differ
  <2>4. bit \notin 2 .. 4
    <3>1. \A k \in 0 .. 6 : Field(Stopped(b), k, 1) = Field(b, k, 1)
      BY <1>1, StoppedOnly
    <3> QED BY <1>1, <1>4, <1>5, <2>3, <3>1 DEF Differ
  <2>5. CASE bit \in 0 .. 1
    <3>1. <<TIMER_CONTROL, 0, 2>>[1] = a /\ bit \in <<TIMER_CONTROL, 0, 2>>[2] ..
            <<TIMER_CONTROL, 0, 2>>[2] + <<TIMER_CONTROL, 0, 2>>[3] - 1
      BY <2>3, <2>5
    <3> QED BY <2>2, <3>1
  <2>6. CASE bit \in 5 .. 7
    <3>1. <<TIMER_CONTROL, 5, 3>>[1] = a /\ bit \in <<TIMER_CONTROL, 5, 3>>[2] ..
            <<TIMER_CONTROL, 5, 3>>[2] + <<TIMER_CONTROL, 5, 3>>[3] - 1
      BY <2>3, <2>6
    <3> QED BY <2>2, <3>1
  <2> QED BY <2>4, <2>5, <2>6
<1> QED BY <1>5, <1>7, <1>8, <1>9, <1>10, <1>11 DEF RtcInv, RegistersKept

(* All four steps of setting the timer.                                    *)
LEMMA WriteTimerStep ==
  ASSUME RtcInv, NEW p \in Periods, WriteTimer(p)
  PROVE  RtcInv' /\ Kept
<1>1. CASE job = Idle
  BY <1>1, WriteTimerBegin
<1>2. CASE /\ p = job.arg /\ NoneAsked /\ Proceed(job.buf)
           /\ \/ At("write_timer", 1) /\ WriteRegister(TIMER_CONTROL, Stopped(job.buf[1]))
              \/ At("write_timer", 2) /\ WriteRegister(TIMER, Program(p)[2])
              \/ At("write_timer", 3) /\ WriteRegister(TIMER_INITIAL, Program(p)[2])
  BY <1>2, WriteTimerGoesOn
<1>3. CASE /\ At("write_timer", 4) /\ p = job.arg /\ Finish(<<find_timer(p)>>)
           /\ WriteRegister(TIMER_CONTROL, 160 + 4 * Field(job.buf[1], 2, 3) + Program(p)[1])
           /\ programmed' = Program(p) /\ UNCHANGED <<shown, alarmed>>
  BY <1>3, WriteTimerEnds
<1> QED BY <1>1, <1>2, <1>3 DEF WriteTimer

(* What the interrupt's pin and the charger need is apart from the rest.   *)
LEMMA Elsewhere ==
  ASSUME RegistersKept, chip' \in [Address -> RByte], NoneAsked,
         \A a \in Address \ {INTMASK, OUT, KEY, TRICKLE} : chip'[a] = chip[a]
  PROVE  RegistersKept'
<1>1. UNCHANGED <<shown, alarmed, programmed>>
  BY DEF NoneAsked
<1>2. ShowsTime'
  <2>1. \A n \in 1 .. 8 : chip'[n - 1] = chip[n - 1]
    BY DEF Address, INTMASK, OUT, KEY, TRICKLE
  <2> QED BY <1>1, <2>1 DEF RegistersKept, ShowsTime
<1>3. HoldsAlarm'
  <2>1. \A n \in 1 .. 6 : chip'[n + 7] = chip[n + 7]
    BY DEF Address, INTMASK, OUT, KEY, TRICKLE
  <2> QED BY <1>1, <2>1 DEF RegistersKept, HoldsAlarm
<1>4. TimerNeverMixed'
  <2>1. /\ chip'[TIMER_CONTROL] = chip[TIMER_CONTROL] /\ chip'[TIMER] = chip[TIMER]
        /\ chip'[TIMER_INITIAL] = chip[TIMER_INITIAL]
    BY Apart
  <2> QED BY <1>1, <2>1 DEF RegistersKept, TimerNeverMixed, Running
<1> QED BY <1>1, <1>2, <1>3, <1>4 DEF RegistersKept

(* A step in the middle of a call.                                         *)
LEMMA Advance ==
  ASSUME JobShape, NEW x, Proceed(x)
  PROVE  job' = [op |-> job.op, arg |-> job.arg, step |-> job.step + 1, buf |-> x]
<1> DEFINE o == job.op
           g == job.arg
           s == job.step
           u == job.buf
<1>1. job = [op |-> o, arg |-> g, step |-> s, buf |-> u]
  BY DEF JobShape
<1>2. job' = [job EXCEPT !.step = s + 1, !.buf = x]
  BY DEF Proceed
<1> HIDE DEF o, g, s, u
<1>3. job' = [op |-> o, arg |-> g, step |-> s + 1, buf |-> x]
  BY <1>1, <1>2
<1> QED BY <1>3 DEF o, g, s

(* The alarm's interrupt: two registers, one after the other.              *)
LEMMA EnableStep ==
  ASSUME RtcInv, NEW pulse \in Pulses, EnableAlarmInterrupt(pulse)
  PROVE  RtcInv' /\ Kept
<1>0. pulse \in 0 .. 3 /\ NoneAsked
  BY RtcAssumption DEF EnableAlarmInterrupt
<1>1. CASE job = Idle /\ Begin("enable", pulse, ReadBulk(INTMASK, 1)) /\ UNCHANGED chip
  <2>1. /\ job' = [op |-> "enable", arg |-> pulse, step |-> 1, buf |-> ReadBulk(INTMASK, 1)]
        /\ returned' = Silent /\ chip' = chip
    BY <1>1 DEF Begin
  <2>2. ReadBulk(INTMASK, 1)[1] = chip[INTMASK]
    BY DEF ReadBulk, INTMASK
  <2>3. CallsKept'
    <3>1. JobShape' /\ job'.step \in 0 .. 4
      BY <2>1 DEF JobShape
    <3>2. PinUnderWay'
      BY <1>0, <2>1, <2>2 DEF PinUnderWay
    <3>3. TimeUnderWay' /\ AlarmUnderWay' /\ RepeatUnderWay' /\ TimerUnderWay'
      BY <2>1 DEF TimeUnderWay, AlarmUnderWay, RepeatUnderWay, TimerUnderWay
    <3> QED BY <3>1, <3>2, <3>3 DEF CallsKept
  <2> QED BY <1>0, <2>1, <2>3, ChipSame, Silence DEF RtcInv
<1>2. CASE /\ At("enable", 1) /\ pulse = job.arg /\ Proceed(<<>>)
           /\ WriteRegister(INTMASK, With(With(job.buf[1], 5, 2, pulse), 2, 1, 1))
  <2> DEFINE b == chip[INTMASK]
             d == With(b, 5, 2, pulse)
             c == With(d, 2, 1, 1)
  <2>1. job.buf[1] = b
    BY <1>2 DEF At, RtcInv, CallsKept, PinUnderWay
  <2>2. chip' = [chip EXCEPT ![INTMASK] = c]
    BY <1>2, <2>1, Apart DEF WriteRegister
  <2>3. b \in RByte
    BY Apart DEF RtcInv, RegistersKept
  <2> HIDE DEF b
  <2>4. /\ d \in RByte /\ Field(d, 5, 2) = pulse
        /\ \A bit \in {0, 1, 2, 3, 4, 7} : Field(d, bit, 1) = Field(b, bit, 1)
    <3>1. pulse % 4 = pulse /\ pulse \in Int
      BY <1>0
    <3>2. /\ d \in RByte /\ Field(d, 5, 2) = pulse % 4
          /\ \A bit \in {0, 1, 2, 3, 4, 7} : Field(d, bit, 1) = Field(b, bit, 1)
      BY <2>3, <3>1, WithEnable
    <3> HIDE DEF d
    <3> QED BY <3>1, <3>2
  <2> HIDE DEF d
  <2>5. /\ c \in RByte /\ Field(c, 2, 1) = 1 /\ Field(c, 5, 2) = pulse
        /\ \A bit \in {0, 1, 3, 4, 7} : Field(c, bit, 1) = Field(b, bit, 1)
    <3>1. 1 \in 0 .. 1
      OBVIOUS
    <3>2. /\ c \in RByte /\ Field(c, 2, 1) = 1 /\ Field(c, 5, 2) = Field(d, 5, 2)
          /\ \A bit \in {0, 1, 3, 4, 5, 6, 7} : Field(c, bit, 1) = Field(d, bit, 1)
      BY <2>4, <3>1, WithAlarm
    <3> HIDE DEF c
    <3> QED BY <2>4, <3>2
  <2> HIDE DEF c
  <2>6. chip' \in [Address -> RByte] /\ chip'[INTMASK] = c
        /\ \A a \in Address \ {INTMASK} : chip'[a] = chip[a]
    BY <2>2, <2>5, Apart DEF RtcInv, RegistersKept
  <2>7. RegistersKept'
    BY <1>0, <2>6, Elsewhere DEF RtcInv
  <2>8. CallsKept'
    <3>1. job' = [op |-> "enable", arg |-> pulse, step |-> 2, buf |-> <<>>]
      BY <1>2, Advance DEF At, RtcInv, CallsKept
    <3>2. JobShape' /\ job'.step \in 0 .. 4
      BY <3>1 DEF JobShape
    <3>3. PinUnderWay'
      BY <1>0, <2>5, <2>6, <3>1 DEF PinUnderWay
    <3>4. TimeUnderWay' /\ AlarmUnderWay' /\ RepeatUnderWay' /\ TimerUnderWay'
      BY <3>1 DEF TimeUnderWay, AlarmUnderWay, RepeatUnderWay, TimerUnderWay
    <3> QED BY <3>2, <3>3, <3>4 DEF CallsKept
  <2>9. AsAsked'
    BY <1>2, Silence DEF Proceed
  <2>10. Kept
    <3>1. Caller = "enable"
      BY <1>2 DEF Caller, Idle, At
    <3>2. <<INTMASK, 5, 2>> \in Touches(Caller) /\ <<INTMASK, 2, 1>> \in Touches(Caller)
      BY <3>1 DEF Touches
    <3> SUFFICES ASSUME NEW a \in Address, NEW bit \in 0 .. 7, Differ(a, bit)
                 PROVE  \E f \in Touches(Caller) : f[1] = a /\ bit \in f[2] .. f[2] + f[3] - 1
      BY DEF Kept
    <3>3. a = INTMASK
      BY <2>6 DEF Differ
    <3>4. bit \notin {0, 1, 3, 4, 7}
      BY <2>5, <2>6, <3>3 DEF Differ, b
    <3>5. CASE bit = 2
      <4>1. <<INTMASK, 2, 1>>[1] = a /\ bit \in <<INTMASK, 2, 1>>[2] ..
              <<INTMASK, 2, 1>>[2] + <<INTMASK, 2, 1>>[3] - 1
        BY <3>3, <3>5
      <4> QED BY <3>2, <4>1
    <3>6. CASE bit \in 5 .. 6
      <4>1. <<INTMASK, 5, 2>>[1] = a /\ bit \in <<INTMASK, 5, 2>>[2] ..
              <<INTMASK, 5, 2>>[2] + <<INTMASK, 5, 2>>[3] - 1
        BY <3>3, <3>6
      <4> QED BY <3>2, <4>1
    <3> QED BY <3>4, <3>5, <3>6
  <2> QED BY <2>7, <2>8, <2>9, <2>10 DEF RtcInv
<1>3. CASE /\ At("enable", 2) /\ pulse = job.arg /\ Proceed(ReadBulk(OUT, 1)) /\ UNCHANGED chip
  <2>1. job' = [op |-> "enable", arg |-> pulse, step |-> 3, buf |-> ReadBulk(OUT, 1)]
    BY <1>3, Advance DEF At, RtcInv, CallsKept
  <2>2. ReadBulk(OUT, 1)[1] = chip[OUT]
    BY DEF ReadBulk, OUT
  <2>3. Field(chip[INTMASK], 2, 1) = 1 /\ Field(chip[INTMASK], 5, 2) = pulse
    BY <1>3 DEF At, RtcInv, CallsKept, PinUnderWay
  <2>4. CallsKept'
    <3>1. JobShape' /\ job'.step \in 0 .. 4
      BY <2>1 DEF JobShape
    <3>2. PinUnderWay'
      BY <1>0, <1>3, <2>1, <2>2, <2>3 DEF PinUnderWay
    <3>3. TimeUnderWay' /\ AlarmUnderWay' /\ RepeatUnderWay' /\ TimerUnderWay'
      BY <2>1 DEF TimeUnderWay, AlarmUnderWay, RepeatUnderWay, TimerUnderWay
    <3> QED BY <3>1, <3>2, <3>3 DEF CallsKept
  <2>5. AsAsked'
    BY <1>3, Silence DEF Proceed
  <2> QED BY <1>0, <1>3, <2>4, <2>5, ChipSame DEF RtcInv
<1>4. CASE /\ At("enable", 3) /\ pulse = job.arg /\ Finish(<<>>)
           /\ WriteRegister(OUT, With(job.buf[1], 0, 2, 3))
  <2> DEFINE b == chip[OUT]
             c == With(b, 0, 2, 3)
  <2>1. /\ job.buf[1] = b
        /\ Field(chip[INTMASK], 2, 1) = 1 /\ Field(chip[INTMASK], 5, 2) = pulse
    BY <1>4 DEF At, RtcInv, CallsKept, PinUnderWay
  <2>2. chip' = [chip EXCEPT ![OUT] = c]
    BY <1>4, <2>1, Apart DEF WriteRegister
  <2>3. b \in RByte
    BY Apart DEF RtcInv, RegistersKept
  <2> HIDE DEF b
  <2>4. c \in RByte /\ Field(c, 0, 2) = 3 /\ c \div Bit(2) = b \div Bit(2)
    <3>1. 3 % Bit(2) = 3
      BY DEF Bit
    <3>2. c \in RByte /\ Field(c, 0, 2) = 3 % Bit(2) /\ c \div Bit(2) = b \div Bit(2)
      BY <2>3, WithLow
    <3> HIDE DEF c
    <3> QED BY <3>1, <3>2
  <2> HIDE DEF c
  <2>5. \A bit \in 2 .. 7 : Field(c, bit, 1) = Field(b, bit, 1)
    BY <2>3, <2>4, HighBits
  <2>6. chip' \in [Address -> RByte] /\ chip'[OUT] = c
        /\ \A a \in Address \ {OUT} : chip'[a] = chip[a]
    BY <2>2, <2>4, Apart DEF RtcInv, RegistersKept
  <2>7. RegistersKept'
    BY <1>0, <2>6, Elsewhere DEF RtcInv
  <2>8. CallsKept'
    BY <1>4, JobDone DEF Finish, Answer
  <2>9. AsAsked'
    <3>1. returned' = [op |-> "enable", arg |-> pulse, result |-> <<>>]
      BY <1>4 DEF At, Finish, Answer
    <3>2. chip'[INTMASK] = chip[INTMASK]
      BY <2>6, Apart
    <3> QED BY <2>1, <2>4, <2>6, <3>1, <3>2 DEF AsAsked
  <2>10. Kept
    <3> DEFINE f == <<OUT, 0, 2>>
    <3>1. f \in Touches(Caller)
      BY <1>4 DEF Touches, Caller, At, Idle
    <3>2. f[1] = OUT /\ f[2] = 0 /\ f[3] = 2
      OBVIOUS
    <3> HIDE DEF f
    <3>3. \A bit \in 0 .. 7 : bit \notin f[2] .. f[2] + f[3] - 1
            => Field(chip'[OUT], bit, 1) = Field(chip[OUT], bit, 1)
      BY <2>5, <2>6, <3>2 DEF b
    <3> QED BY <2>6, <3>1, <3>2, <3>3, Apart, KeptOne
  <2> QED BY <2>7, <2>8, <2>9, <2>10 DEF RtcInv
<1> QED BY <1>1, <1>2, <1>3, <1>4 DEF EnableAlarmInterrupt

(* And off again.                                                          *)
LEMMA DisableStep ==
  ASSUME RtcInv, DisableAlarmInterrupt
  PROVE  RtcInv' /\ Kept
<1>0. NoneAsked
  BY DEF DisableAlarmInterrupt
<1>1. CASE job = Idle /\ Begin("disable", 0, ReadBulk(INTMASK, 1)) /\ UNCHANGED chip
  <2>1. /\ job' = [op |-> "disable", arg |-> 0, step |-> 1, buf |-> ReadBulk(INTMASK, 1)]
        /\ returned' = Silent /\ chip' = chip
    BY <1>1 DEF Begin
  <2>2. ReadBulk(INTMASK, 1)[1] = chip[INTMASK]
    BY DEF ReadBulk, INTMASK
  <2>3. CallsKept'
    <3>1. JobShape' /\ job'.step \in 0 .. 4
      BY <2>1 DEF JobShape
    <3>2. PinUnderWay'
      BY <2>1, <2>2 DEF PinUnderWay
    <3>3. TimeUnderWay' /\ AlarmUnderWay' /\ RepeatUnderWay' /\ TimerUnderWay'
      BY <2>1 DEF TimeUnderWay, AlarmUnderWay, RepeatUnderWay, TimerUnderWay
    <3> QED BY <3>1, <3>2, <3>3 DEF CallsKept
  <2> QED BY <1>0, <2>1, <2>3, ChipSame, Silence DEF RtcInv
<1>2. CASE /\ At("disable", 1) /\ Finish(<<>>)
           /\ WriteRegister(INTMASK, With(job.buf[1], 2, 1, 0))
  <2> DEFINE b == chip[INTMASK]
             c == With(b, 2, 1, 0)
  <2>1. job.buf[1] = b
    BY <1>2 DEF At, RtcInv, CallsKept, PinUnderWay
  <2>2. chip' = [chip EXCEPT ![INTMASK] = c]
    BY <1>2, <2>1, Apart DEF WriteRegister
  <2>3. b \in RByte
    BY Apart DEF RtcInv, RegistersKept
  <2> HIDE DEF b
  <2>4. /\ c \in RByte /\ Field(c, 2, 1) = 0
        /\ \A bit \in {0, 1, 3, 4, 5, 6, 7} : Field(c, bit, 1) = Field(b, bit, 1)
    <3>1. 0 \in 0 .. 1
      OBVIOUS
    <3> QED BY <2>3, <3>1, WithAlarm
  <2> HIDE DEF c
  <2>5. chip' \in [Address -> RByte] /\ chip'[INTMASK] = c
        /\ \A a \in Address \ {INTMASK} : chip'[a] = chip[a]
    BY <2>2, <2>4, Apart DEF RtcInv, RegistersKept
  <2>6. RegistersKept'
    BY <1>0, <2>5, Elsewhere DEF RtcInv
  <2>7. CallsKept'
    BY <1>2, JobDone DEF Finish, Answer
  <2>8. AsAsked'
    <3>1. returned'.op = "disable"
      BY <1>2 DEF At, Finish, Answer
    <3> QED BY <2>4, <2>5, <3>1 DEF AsAsked
  <2>9. Kept
    <3> DEFINE f == <<INTMASK, 2, 1>>
    <3>1. f \in Touches(Caller)
      BY <1>2 DEF Touches, Caller, At, Idle
    <3>2. f[1] = INTMASK /\ f[2] = 2 /\ f[3] = 1
      OBVIOUS
    <3> HIDE DEF f
    <3>3. \A bit \in 0 .. 7 : bit \notin f[2] .. f[2] + f[3] - 1
            => Field(chip'[INTMASK], bit, 1) = Field(chip[INTMASK], bit, 1)
      <4>1. \A bit \in 0 .. 7 : bit # 2 => Field(c, bit, 1) = Field(b, bit, 1)
        BY <2>4
      <4> QED BY <2>5, <3>2, <4>1 DEF b
    <3> QED BY <2>5, <3>1, <3>2, <3>3, Apart, KeptOne
  <2> QED BY <2>6, <2>7, <2>8, <2>9 DEF RtcInv
<1> QED BY <1>1, <1>2 DEF DisableAlarmInterrupt

(* The charger takes its setting after the key only.                       *)
LEMMA TrickleStep ==
  ASSUME RtcInv, NEW setting \in {0, 165}, Trickle(setting)
  PROVE  RtcInv' /\ Kept
<1>0. NoneAsked
  BY DEF Trickle
<1>1. CASE job = Idle /\ Begin("trickle", setting, <<>>) /\ WriteRegister(KEY, 157)
  <2>1. chip' = [chip EXCEPT ![KEY] = 157]
    BY <1>1, Apart DEF WriteRegister
  <2>2. chip' \in [Address -> RByte] /\ chip'[KEY] = 157
        /\ \A a \in Address \ {KEY} : chip'[a] = chip[a]
    <3>1. 157 \in RByte
      BY DEF RByte
    <3> QED BY <2>1, <3>1, Apart DEF RtcInv, RegistersKept
  <2>3. RegistersKept'
    BY <1>0, <2>2, Elsewhere DEF RtcInv
  <2>4. job' = [op |-> "trickle", arg |-> setting, step |-> 1, buf |-> <<>>]
    BY <1>1 DEF Begin
  <2>5. CallsKept'
    <3>1. JobShape' /\ job'.step \in 0 .. 4
      BY <2>4 DEF JobShape
    <3>2. PinUnderWay'
      BY <2>2, <2>4 DEF PinUnderWay
    <3>3. TimeUnderWay' /\ AlarmUnderWay' /\ RepeatUnderWay' /\ TimerUnderWay'
      BY <2>4 DEF TimeUnderWay, AlarmUnderWay, RepeatUnderWay, TimerUnderWay
    <3> QED BY <3>1, <3>2, <3>3 DEF CallsKept
  <2>6. AsAsked'
    BY <1>1, Silence DEF Begin
  <2>7. Kept
    <3> DEFINE f == <<KEY, 0, 8>>
    <3>1. f \in Touches(Caller)
      BY <1>1, <2>4 DEF Touches, Caller
    <3>2. f[1] = KEY /\ f[2] = 0 /\ f[3] = 8
      OBVIOUS
    <3> HIDE DEF f
    <3>3. \A bit \in 0 .. 7 : bit \in f[2] .. f[2] + f[3] - 1
      BY <3>2
    <3> QED BY <2>2, <3>1, <3>2, <3>3, Apart, KeptOne
  <2> QED BY <2>3, <2>5, <2>6, <2>7 DEF RtcInv
<1>2. CASE /\ At("trickle", 1) /\ setting = job.arg /\ Finish(<<>>)
           /\ WriteRegister(TRICKLE, setting)
  <2>1. chip[KEY] = 157
    BY <1>2 DEF At, RtcInv, CallsKept, PinUnderWay
  <2>2. chip' = [chip EXCEPT ![TRICKLE] = setting, ![KEY] = 0]
    BY <1>2, <2>1 DEF WriteRegister
  <2>3. /\ chip' \in [Address -> RByte] /\ chip'[TRICKLE] = setting
        /\ \A a \in Address \ {KEY, TRICKLE} : chip'[a] = chip[a]
    <3>1. setting \in RByte /\ 0 \in RByte
      BY DEF RByte
    <3> QED BY <2>2, <3>1, Apart DEF RtcInv, RegistersKept
  <2>4. RegistersKept'
    BY <1>0, <2>3, Elsewhere DEF RtcInv
  <2>5. CallsKept'
    BY <1>2, JobDone DEF Finish, Answer
  <2>6. AsAsked'
    <3>1. returned' = [op |-> "trickle", arg |-> setting, result |-> <<>>]
      BY <1>2 DEF At, Finish, Answer
    <3> QED BY <2>3, <3>1 DEF AsAsked
  <2>7. Kept
    <3> DEFINE f(r) == <<r, 0, 8>>
    <3>1. f(KEY) \in Touches(Caller) /\ f(TRICKLE) \in Touches(Caller)
      BY <1>2 DEF Touches, Caller, At, Idle
    <3> SUFFICES ASSUME NEW a \in Address, NEW bit \in 0 .. 7, Differ(a, bit)
                 PROVE  \E g \in Touches(Caller) : g[1] = a /\ bit \in g[2] .. g[2] + g[3] - 1
      BY DEF Kept
    <3>2. a \in {KEY, TRICKLE}
      BY <2>3 DEF Differ
    <3>3. f(a)[1] = a /\ bit \in f(a)[2] .. f(a)[2] + f(a)[3] - 1
      OBVIOUS
    <3> HIDE DEF f
    <3> QED BY <3>1, <3>2, <3>3
  <2> QED BY <2>4, <2>5, <2>6, <2>7 DEF RtcInv
<1> QED BY <1>1, <1>2 DEF Trickle

(* The chip at the start shows the first instant, its timer stands.        *)
LEMMA InitRtc == RtcInit => RtcInv
<1> SUFFICES ASSUME RtcInit PROVE RtcInv
  OBVIOUS
<1>1. 1 \in Instant
  BY RtcAssumption DEF Instant
<1>2. /\ job = Idle /\ returned = Silent
      /\ shown = 1 /\ alarmed = 1 /\ programmed = <<3, 0>>
  BY DEF RtcInit
<1>3. /\ \A n \in 1 .. 8 : chip[n - 1] = With(255, 0, TimeWidth[n], Digits(1)[n])
      /\ \A n \in 1 .. 6 : chip[n + 7] = With(255, 0, TimeWidth[n], Digits(1)[n])
      /\ chip[14] = With(255, 0, TimeWidth[8], Digits(1)[8])
      /\ chip[TIMER_CONTROL] = 35
      /\ \A a \in Address \ (0 .. 14) : chip[a] \in {60, 224, 35, 0}
      /\ chip = [a \in Address |-> chip[a]]
  <2>1. \A n \in 1 .. 8 : chip[n - 1] = With(255, 0, DigitWidth[n], Digits(1)[n])
    <3>1. \A n \in 1 .. 8 : n - 1 \in Address /\ n - 1 < 8 /\ (n - 1) + 1 = n
      BY DEF Address
    <3> QED BY <3>1 DEF RtcInit
  <2>2. \A n \in 1 .. 6 : chip[n + 7] = With(255, 0, DigitWidth[n], Digits(1)[n])
    <3>1. \A n \in 1 .. 6 : n + 7 \in Address /\ ~(n + 7 < 8) /\ n + 7 < 14 /\ (n + 7) - 7 = n
      BY DEF Address
    <3> QED BY <3>1 DEF RtcInit
  <2>3. chip[14] = With(255, 0, 3, Digits(1)[8])
    BY DEF RtcInit, Address
  <2>4. chip[TIMER_CONTROL] = 35
    BY DEF RtcInit, Address, TIMER_CONTROL, OUT, INTMASK
  <2>5. \A a \in Address \ (0 .. 14) : chip[a] \in {60, 224, 35, 0}
    <3> SUFFICES ASSUME NEW a \in Address \ (0 .. 14) PROVE chip[a] \in {60, 224, 35, 0}
      OBVIOUS
    <3>1. ~(a < 8) /\ ~(a < 14) /\ a # 14
      BY DEF Address
    <3> QED BY <3>1 DEF RtcInit
  <2>6. chip = [a \in Address |-> chip[a]]
    BY DEF RtcInit
  <2>7. TimeWidth[8] = 3
    BY DEF TimeWidth
  <2> QED BY <2>1, <2>2, <2>3, <2>4, <2>5, <2>6, <2>7, Widths
<1>4. 255 \in RByte
  BY DEF RByte
<1> DEFINE c(n) == With(255, 0, TimeWidth[n], Digits(1)[n])
<1>5. \A n \in 1 .. 8 : c(n) \in RByte /\ Field(c(n), 0, TimeWidth[n]) = Digits(1)[n]
  BY <1>1, <1>4, Put
<1>6. /\ \A n \in 1 .. 8 : chip[n - 1] = c(n)
      /\ \A n \in 1 .. 6 : n \in 1 .. 8 /\ chip[n + 7] = c(n)
      /\ chip[14] = c(8)
  BY <1>3
<1> HIDE DEF c
<1>7. ShowsTime
  BY <1>2, <1>5, <1>6 DEF ShowsTime
<1>8. HoldsAlarm
  BY <1>2, <1>5, <1>6 DEF HoldsAlarm
<1>9. chip \in [Address -> RByte]
  <2>1. \A a \in Address : chip[a] \in RByte
    <3> SUFFICES ASSUME NEW a \in Address PROVE chip[a] \in RByte
      OBVIOUS
    <3>1. CASE a \in 0 .. 7
      <4>1. a + 1 \in 1 .. 8 /\ (a + 1) - 1 = a
        BY <3>1
      <4> QED BY <1>5, <1>6, <4>1
    <3>2. CASE a \in 8 .. 13
      <4>1. a - 7 \in 1 .. 6 /\ (a - 7) + 7 = a /\ a - 7 \in 1 .. 8
        BY <3>2
      <4> QED BY <1>5, <1>6, <4>1
    <3>3. CASE a = 14
      BY <1>5, <1>6, <3>3
    <3>4. CASE a \notin 0 .. 14
      BY <1>3, <3>4 DEF RByte
    <3>5. a \in 0 .. 7 \/ a \in 8 .. 13 \/ a = 14 \/ a \notin 0 .. 14
      BY DEF Address
    <3> QED BY <3>1, <3>2, <3>3, <3>4, <3>5
  <2> QED BY <1>3, <2>1
<1>10. TimerNeverMixed
  <2>1. Field(35, 7, 1) = 0
    BY DEF Field, Bit
  <2> QED BY <1>3, <2>1 DEF TimerNeverMixed, Running
<1>11. CallsKept
  BY <1>2 DEF CallsKept, JobShape, TimeUnderWay, AlarmUnderWay, RepeatUnderWay, TimerUnderWay,
              PinUnderWay, Idle
<1>12. AsAsked
  BY <1>2 DEF AsAsked, Silent
<1> QED BY <1>1, <1>2, <1>7, <1>8, <1>9, <1>10, <1>11, <1>12 DEF RtcInv, RegistersKept

(* Every step of the driver, the chip and the processor.                   *)
LEMMA StepRtc == RtcInv /\ [RtcNext]_rtcVars => RtcInv' /\ [Kept]_rtcVars
<1> SUFFICES ASSUME RtcInv, [RtcNext]_rtcVars PROVE RtcInv' /\ (Kept \/ UNCHANGED rtcVars)
  OBVIOUS
<1>1. CASE ClockNext
  BY <1>1, ReadTimeStep, ReadAlarmStep, WriteTimeStep, WriteAlarmStep, TickStep, RestartStep
     DEF ClockNext
<1>2. CASE ControlNext
  BY <1>2, ReadTimerStep, DisableStep, RepeatAlarmStep, WriteTimerStep, EnableStep, TrickleStep,
     CountdownStep, RestartStep DEF ControlNext
<1>3. CASE UNCHANGED rtcVars
  <2>1. UNCHANGED <<chip, job, returned, shown, alarmed, programmed>>
    BY <1>3 DEF rtcVars
  <2>2. RegistersKept'
    BY <2>1, ChipSame DEF NoneAsked, RtcInv
  <2>3. CallsKept'
    BY <2>1 DEF RtcInv, CallsKept, JobShape, TimeUnderWay, AlarmUnderWay, RepeatUnderWay,
                TimerUnderWay, PinUnderWay
  <2>4. AsAsked'
    BY <2>1 DEF RtcInv, AsAsked, ReadBulk, Running, PeriodSet
  <2> QED BY <1>3, <2>2, <2>3, <2>4 DEF RtcInv
<1> QED BY <1>1, <1>2, <1>3 DEF RtcNext

(* The invariant and the fields kept, of every behaviour.                  *)
LEMMA RtcInvariant == RtcSpec => []RtcInv /\ [][Kept]_rtcVars
<1>1. RtcInit => RtcInv
  BY InitRtc
<1>2. RtcInv /\ [RtcNext]_rtcVars => RtcInv' /\ [Kept]_rtcVars
  BY StepRtc
<1> QED BY <1>1, <1>2, PTL DEF RtcSpec

(* Type correctness of the clock: its registers stay bytes.                *)
THEOREM RtcTypeCorrect == RtcSpec => []RtcTypeOK
<1>1. RtcInv => RtcTypeOK
  BY DEF RtcInv, RegistersKept, CallsKept, RtcTypeOK, RByte
<1> QED BY <1>1, RtcInvariant, PTL

(* What the clock holds when a call returns is what the call was for, for  *)
(* every calendar, every period and every order of calls, ticks of the     *)
(* clock and restarts in the middle of a call.                             *)
THEOREM AlwaysAsAsked == RtcSpec => []AsAsked
<1>1. RtcInv => AsAsked
  BY DEF RtcInv
<1> QED BY <1>1, RtcInvariant, PTL

(* am1815_write_timer answers the period that the timer then has, as       *)
(* am1815.h:154-155 says, up to 256 s and from 256 minutes on, and for no  *)
(* period between: with AlwaysAsAsked this says for which periods the      *)
(* answer is the timer's.                                                  *)
THEOREM AnsweredAsHeld ==
  \A p \in Nat : (Answered(p) = Held(p)) <=> (p <= 256 * Second \/ p >= 256 * Minute)
<1> SUFFICES ASSUME NEW p \in Nat
             PROVE  (Answered(p) = Held(p)) <=> (p <= 256 * Second \/ p >= 256 * Minute)
  OBVIOUS
<1> USE DEF Second, Minute
<1>1. CASE p <= 256 * Second
  BY <1>1 DEF Answered, Held
<1>2. CASE p > 256 * Second
  <2> DEFINE m == p \div 245760
             whole == p \div 4096
             h == Held(p)
  <2>1. /\ m \in Int /\ 245760 * m <= p /\ p < 245760 * m + 245760
        /\ whole \in Int /\ 4096 * whole <= p /\ p < 4096 * whole + 4096
        /\ p \in Int /\ p > 1048576
    BY <1>2, DivMod, SMT
  <2>2. Answered(p) = 245760 * (IF 256 < m THEN 256 ELSE m)
    BY <2>1, SMT DEF Answered, Smaller
  <2>3. h = IF whole = 256 THEN 1048576
            ELSE IF whole < 300 THEN (whole - 256) * 4096 ELSE 62914560
    BY <2>1, SMT DEF Held
  <2> HIDE DEF m, whole, h
  <2>4. CASE p >= 62914560
    BY <2>1, <2>2, <2>3, <2>4, SMT DEF h
  <2>5. CASE p < 62914560
    <3>1. m <= 255 /\ m >= 4
      BY <2>1, <2>5, SMT
    <3>2. Answered(p) = 245760 * m
      BY <2>1, <2>2, <3>1, SMT
    <3>3. CASE whole >= 300
      BY <2>3, <2>5, <3>1, <3>2, <3>3, <2>1, SMT DEF h
    <3>4. CASE whole < 300
      <4>1. m = 4
        BY <2>1, <3>1, <3>4, SMT
      <4> QED BY <2>1, <2>3, <2>5, <3>2, <3>4, <4>1, SMT DEF h
    <3> QED BY <2>1, <3>3, <3>4, SMT
  <2> QED BY <2>1, <2>4, <2>5, SMT
<1> QED BY <1>1, <1>2, SMT

(* A running timer runs with the frequency and the initial value of one    *)
(* call of am1815_write_timer.                                             *)
THEOREM TimerOfOneCall == RtcSpec => []TimerNeverMixed
<1>1. RtcInv => TimerNeverMixed
  BY DEF RtcInv, RegistersKept
<1> QED BY <1>1, RtcInvariant, PTL

(* No call changes a field that it is not about; one that returns at once, *)
(* also for a period that the timer cannot have, changes nothing.          *)
THEOREM OtherFieldsKept == RtcSpec => FieldsKept
BY RtcInvariant, PTL DEF FieldsKept, Kept

-----------------------------------------------------------------------------
(* The environment sensor.                                                 *)
AllNew == [q \in Quantity |-> "new"]

(* The strengthening: the setting of the humidity reached the chip before  *)
(* the control register is written, so a conversion includes everything;  *)
(* and only a call that polls has one running.                             *)
SensorIInv ==
  /\ SensorTypeOK
  /\ SampleFresh
  /\ phase # "boot" => humidity
  /\ phase \in {"ready", "poll", "read"} => converts = Quantity
  /\ measuring => phase = "poll"
  /\ phase \in {"poll", "read"} /\ ~measuring => data = AllNew

(* What a conversion leaves in the chip.                                   *)
LEMMA ConvertedAll ==
  /\ Converted \in [Quantity -> Age]
  /\ converts = Quantity => Converted = AllNew
BY DEF Converted, Age, AllNew

(* A boot begins with nothing converted and nothing returned.              *)
LEMMA InitSensor == SensorInit => SensorIInv
BY DEF SensorInit, SensorIInv, SensorTypeOK, SampleFresh, Blank, Nothing, Age

(* Every step of the driver, the chip and the processor keeps it.          *)
LEMMA StepSensor == SensorIInv /\ [SensorNext]_sensorVars => SensorIInv'
<1> SUFFICES ASSUME SensorIInv, [SensorNext]_sensorVars PROVE SensorIInv'
  OBVIOUS
<1> USE DEF SensorIInv, SensorTypeOK, SampleFresh
<1>1. CASE SetHumidity
  BY <1>1 DEF SetHumidity
<1>2. CASE SetControl
  <2>1. converts' = Quantity /\ measuring' = FALSE
    BY <1>2 DEF SetControl, WriteControl
  <2>2. UNCHANGED <<humidity, data, sample>> /\ phase' = "ready" /\ humidity
    BY <1>2 DEF SetControl
  <2> QED BY <2>1, <2>2
<1>3. CASE Trigger
  <2>1. data' \in [Quantity -> Age]
    BY <1>3 DEF Trigger, Age
  <2>2. converts' = Quantity
    BY <1>3 DEF Trigger, WriteControl
  <2>3. measuring' = TRUE
    BY <1>3 DEF Trigger, WriteControl
  <2> QED BY <1>3, <2>1, <2>2, <2>3 DEF Trigger
<1>4. CASE Poll
  BY <1>4 DEF Poll
<1>5. CASE ReadSample
  BY <1>5 DEF ReadSample, AllNew, Nothing
<1>6. CASE Convert
  BY <1>6, ConvertedAll DEF Convert
<1>7. CASE RestartSensors
  <2>1. data' \in [Quantity -> Age]
    BY <1>7, ConvertedAll DEF RestartSensors, Reset, PowerCycle, Blank, Age
  <2> QED BY <1>7, <2>1 DEF RestartSensors, Reset, PowerCycle
<1>8. CASE UNCHANGED sensorVars
  BY <1>8 DEF sensorVars
<1> QED BY <1>1, <1>2, <1>3, <1>4, <1>5, <1>6, <1>7, <1>8 DEF SensorNext

(* What bme280_get_sample returns comes from one conversion, begun by that *)
(* call, whatever a call broken off by a restart left behind.              *)
THEOREM SamplesFresh == SensorSpec => []SampleFresh
<1>1. SensorIInv => SampleFresh
  BY DEF SensorIInv
<1> QED BY <1>1, InitSensor, StepSensor, PTL DEF SensorSpec

(* Type correctness of the sensor and its driver.                          *)
THEOREM SensorTypeCorrect == SensorSpec => []SensorTypeOK
<1>1. SensorIInv => SensorTypeOK
  BY DEF SensorIInv
<1> QED BY <1>1, InitSensor, StepSensor, PTL DEF SensorSpec

-----------------------------------------------------------------------------
(* The devices side by side.                                               *)

(* Type correctness of the run's specification, from the invariants of the *)
(* three.                                                                  *)
THEOREM DevicesTypeCorrect == MCSpec => []AllTypeOK
<1> DEFINE DevicesInv == PeripheralInv /\ RtcInv /\ SensorIInv
           devices == <<part, vars, rtcVars, sensorVars>>
<1>1. MCInit => DevicesInv
  BY InitInv, InitRtc, InitSensor DEF MCInit
<1>2. DevicesInv /\ [MCNext]_devices => DevicesInv'
  <2> SUFFICES ASSUME DevicesInv, [MCNext]_devices PROVE DevicesInv'
    OBVIOUS
  <2>1. [Next]_vars /\ [RtcNext]_rtcVars /\ [SensorNext]_sensorVars
    <3>1. CASE part \in Kind /\ KindNext(part) /\ UNCHANGED <<rtcVars, sensorVars>>
      BY <3>1 DEF Next
    <3>2. CASE (ClockNext \/ ControlNext) /\ UNCHANGED <<vars, sensorVars>>
      BY <3>2 DEF RtcNext
    <3>3. CASE SensorNext /\ UNCHANGED <<vars, rtcVars>>
      BY <3>3
    <3>4. CASE UNCHANGED devices
      BY <3>4
    <3> QED BY <3>1, <3>2, <3>3, <3>4 DEF MCNext
  <2> QED BY <2>1, StepInv, StepRtc, StepSensor
<1>3. DevicesInv => AllTypeOK
  <2>1. PeripheralInv => TypeOK
    BY DEF PeripheralInv, BorrowInv, BorrowTypes, QueueInv, TypeOK, Pins
  <2>2. RtcInv => RtcTypeOK
    BY DEF RtcInv, RegistersKept, CallsKept, RtcTypeOK, RByte
  <2>3. SensorIInv => SensorTypeOK
    BY DEF SensorIInv
  <2> QED BY <2>1, <2>2, <2>3 DEF AllTypeOK
<1> QED BY <1>1, <1>2, <1>3, PTL DEF MCSpec
=============================================================================
