--------------------------- MODULE SystickProofs ---------------------------
(***************************************************************************)
(* Proofs about Systick, for every period, word size and bound.            *)
(*                                                                         *)
(* Accuracy rests on Clock, which ties the elapsed time to jiffies, the    *)
(* counter and an interrupt not yet taken, and on Reading, which says that *)
(* a reader whose two readings of jiffies agree read the counter while     *)
(* jiffies had that value. The drift rests on Account, an amortized count: *)
(* each change of mode can misjudge the part of a period gone by and one   *)
(* interrupt not taken, twice half a tick, but a change back cannot add to *)
(* that, so the bound on either side is half a tick per change.            *)
(***************************************************************************)
EXTENDS Systick, TLAPS

USE SystickAssumption DEF SystickAssumption

Readers == {"low", "high", "counter", "again", "low2", "high2", "first"}

Clock ==
  /\ val = 0 => pend
  /\ Steady =>
       elapsed = 2 * (Load * Value(jiffies) + (IF pend /\ val # 0 THEN Load ELSE 0)
                      + (Load - 1 - val))

Agreement ==
  /\ pc = "idle" => result <= elapsed + 2
  /\ pc # "idle" => began <= elapsed /\ result <= began + 2
  /\ pc \in {"high", "high2"} => low = jiffies[1]
  /\ pc \in {"counter", "again", "low2", "high2"} => Value(prev) <= Value(jiffies)
  /\ pc \in {"again", "low2", "high2"} /\ prev = jiffies =>
       /\ began <= 2 * (Load * Value(jiffies) + counter)
       /\ 2 * (Load * Value(jiffies) + counter) <= elapsed

Reading == Steady => Agreement

Gone == IF val = 0 THEN 0 ELSE Load - val    \* steps since the last wrap
Rate == IF burst THEN 1 ELSE 2
Err == elapsed - Load * Halves - Rate * Gone

Account ==
  /\ Err <= Load * (switches + IF burst THEN 1 ELSE 0)
  /\ 0 <= Load * (switches + IF burst THEN 1 ELSE 2) + 2 + Err

LEMMA ValueNat == ASSUME NEW j \in Pair PROVE Value(j) \in Nat
  <1>1. j[1] \in Nat /\ j[2] \in Nat  BY DEF Pair
  <1>2. \A a, b \in Nat : a * b \in Nat  BY Z3
  <1> QED  BY <1>1, <1>2 DEF Value

LEMMA IncrementedValue ==
  ASSUME NEW j \in Pair
  PROVE  Incremented(j) \in Pair /\ Value(Incremented(j)) = Value(j) + 1
  <1>1. j[1] \in 0 .. Word - 1 /\ j[2] \in Nat  BY DEF Pair
  <1>2. CASE j[1] = Word - 1
    <2>1. Incremented(j) = <<0, j[2] + 1>>  BY <1>2 DEF Incremented
    <2>2. (j[2] + 1) * Word = j[2] * Word + Word  BY <1>1
    <2> QED  BY <1>1, <1>2, <2>1, <2>2 DEF Value, Pair
  <1>3. CASE j[1] # Word - 1
    <2>1. Incremented(j) = <<j[1] + 1, j[2]>>  BY <1>3 DEF Incremented
    <2>2. j[2] * Word \in Int  BY <1>1
    <2> QED  BY <1>1, <1>3, <2>1, <2>2 DEF Value, Pair
  <1> QED  BY <1>2, <1>3

LEMMA PairEquality ==
  ASSUME NEW j \in Pair PROVE j = <<j[1], j[2]>>
  BY DEF Pair

LEMMA ZeroValue == Zero \in Pair /\ Value(Zero) = 0
  <1>1. 0 * Word = 0  OBVIOUS
  <1>2. Zero[1] = 0 /\ Zero[2] = 0  BY DEF Zero
  <1> QED  BY <1>1, <1>2 DEF Zero, Pair, Value

LEMMA Times ==
  ASSUME NEW a \in Int, NEW b \in Int
  PROVE  Load * a \in Int /\ Load * (a + b) = Load * a + Load * b
  OBVIOUS

-----------------------------------------------------------------------------
(* Type correctness. *)

LEMMA TypeInductive == TypeOK /\ [Next]_vars => TypeOK'
  <1> SUFFICES ASSUME TypeOK, [Next]_vars PROVE TypeOK'
    OBVIOUS
  <1> USE DEF TypeOK
  <1>1. CASE Step
    BY <1>1 DEF Step, reader
  <1>2. CASE Switch
    BY <1>2 DEF Switch, reader
  <1>3. CASE Handler
    <2>1. jiffies' \in Pair  BY <1>3, IncrementedValue DEF Handler
    <2> QED  BY <1>3, <2>1 DEF Handler, reader, ghost
  <1>4. CASE Reset
    BY <1>4 DEF Reset, Zero, Pair
  <1>5. CASE Call
    BY <1>5 DEF Call, Mask, timer, ghost
  <1>6. CASE ReadLow("low", "high") \/ ReadLow("low2", "high2")
    <2>1. jiffies[1] \in 0 .. Word - 1  BY DEF Pair
    <2> QED  BY <1>6, <2>1 DEF ReadLow, timer, ghost
  <1>7. CASE ReadPrev
    BY <1>7 DEF ReadPrev, timer, ghost, Pair
  <1>8. CASE ReadCounter
    BY <1>8 DEF ReadCounter, timer, ghost
  <1>9. CASE ReadAgain \/ Retry
    BY <1>9 DEF ReadAgain, Retry, Mask, timer, ghost
  <1>10. CASE ReadCurrent
    <2>1. <<low, jiffies[2]>> \in Pair  BY DEF Pair
    <2>2. Value(<<low, jiffies[2]>>) \in Nat  BY <2>1, ValueNat
    <2>3. \A a \in Nat : Load * a \in Nat  OBVIOUS
    <2>4. 2 * (Load * Value(<<low, jiffies[2]>>) + counter + 1) \in Nat
      BY <2>2, <2>3
    <2>5. /\ pc = "high2" /\ pc' \in {"first", "idle"} /\ masked' = FALSE
          /\ result' \in Nat
          /\ UNCHANGED <<timer, jiffies, burst_counter, low, prev, counter, began,
                         ghost>>
      BY <1>10, <2>4 DEF ReadCurrent
    <2> QED  BY <2>5 DEF timer, ghost
  <1>11. CASE UNCHANGED vars
    BY <1>11 DEF vars, timer, reader, ghost
  <1> QED
    BY <1>1, <1>2, <1>3, <1>4, <1>5, <1>6, <1>7, <1>8, <1>9, <1>10, <1>11
    DEF Next, Program

LEMMA TypeInit == Init => TypeOK
  <1> SUFFICES ASSUME Init PROVE TypeOK
    OBVIOUS
  <1>1. jiffies \in Pair /\ prev \in Pair  BY ZeroValue DEF Init
  <1>2. masked \in BOOLEAN /\ (masked <=> pc \in {"low", "high", "low2", "high2"})
    BY DEF Init
  <1>4. /\ pend \in BOOLEAN /\ running \in BOOLEAN
        /\ burst \in BOOLEAN /\ burst_counter \in BOOLEAN
    BY DEF Init
  <1>3. /\ val \in 0 .. Load - 1
        /\ low \in 0 .. Word - 1 /\ counter \in 0 .. Load - 1
        /\ result \in Nat /\ began \in Nat /\ elapsed \in Nat
        /\ switches \in 0 .. MaxSwitches
        /\ pc = "idle"
    BY DEF Init
  <1> QED  BY <1>1, <1>2, <1>3, <1>4 DEF TypeOK

(* Type correctness of the timer and its readers. *)
THEOREM TypeCorrect == Spec => []TypeOK
  BY TypeInit, TypeInductive, PTL DEF Spec

-----------------------------------------------------------------------------
(* Accuracy. *)

AccuracyInv == TypeOK /\ Clock /\ Reading

(* Only a change of mode or a reset changes what is steady. *)
LEMMA SteadySteps ==
  ASSUME Step \/ Handler \/ Program \/ UNCHANGED vars
  PROVE  Steady' <=> Steady
  <1>1. UNCHANGED <<burst, switches>>
    BY DEF Step, Handler, Program, Call, Mask, ReadLow, ReadPrev, ReadCounter,
           ReadAgain, ReadCurrent, Retry, vars, timer, reader, ghost
  <1> QED  BY <1>1 DEF Steady

LEMMA SwitchUnsteady == ASSUME TypeOK, Switch PROVE ~Steady'
  BY DEF Switch, Steady, TypeOK

LEMMA ClockInductive ==
  ASSUME AccuracyInv, [Next]_vars PROVE Clock'
  <1> USE DEF AccuracyInv, TypeOK
  <1> DEFINE v == Value(jiffies)
             Told(w) == 2 * (Load * w + (IF pend /\ val # 0 THEN Load ELSE 0)
                             + (Load - 1 - val))
  <1>0. v \in Nat /\ Load * v \in Int /\ Load * (v + 1) = Load * v + Load
    BY ValueNat, Times
  <1>a. (val = 0 => pend) /\ (Steady => elapsed = Told(v))  BY DEF Clock
  <1>1. CASE Step
    <2>1. /\ val' = IF val = 0 THEN Load - 1 ELSE val - 1
          /\ pend' = (pend \/ val = 1)
          /\ val = 1 => ~pend
          /\ elapsed' = elapsed + (IF burst THEN 1 ELSE 2)
          /\ UNCHANGED jiffies
      BY <1>1 DEF Step
    <2>2. Value(jiffies)' = v  BY <2>1 DEF Value
    <2>3. pend' <=> pend \/ val = 1  BY <2>1
    <2>b. val' = 0 => pend'  BY <2>1, <2>3, <1>a
    <2>d. ASSUME Steady'
          PROVE  elapsed' = 2 * (Load * v + (IF pend' /\ val' # 0 THEN Load ELSE 0)
                                 + (Load - 1 - val'))
      <3> DEFINE lv == Load * v
      <3>0. Steady  BY <1>1, <2>d, SteadySteps
      <3>1. lv \in Int /\ elapsed' = elapsed + 2  BY <1>0, <2>1, <3>0 DEF Steady
      <3>2. elapsed = 2 * (lv + (IF pend /\ val # 0 THEN Load ELSE 0)
                           + (Load - 1 - val))
        BY <1>a, <3>0
      <3> HIDE DEF lv
      <3>3. CASE val = 0
        <4>1. val' = Load - 1 /\ pend /\ pend'  BY <2>1, <2>3, <1>a, <3>3
        <4>2. elapsed' = 2 * (lv + Load)  BY <3>1, <3>2, <3>3
        <4>3. elapsed' = 2 * (lv + (IF pend' /\ val' # 0 THEN Load ELSE 0)
                              + (Load - 1 - val'))
          BY <3>1, <4>1, <4>2
        <4> QED  BY <4>3 DEF lv
      <3>4. CASE val # 0
        <4>1. val' = val - 1 /\ (val = 1 => ~pend)  BY <2>1, <3>4
        <4>2. (pend' /\ val' # 0) <=> (pend /\ val # 0)
          BY <2>1, <2>3, <3>4
        <4>3. elapsed' = 2 * (lv + (IF pend' /\ val' # 0 THEN Load ELSE 0)
                              + (Load - 1 - val'))
          BY <2>1, <3>1, <3>2, <3>4, <4>2
        <4> QED  BY <4>3 DEF lv
      <3> QED  BY <3>3, <3>4
    <2> QED  BY <2>2, <2>b, <2>d DEF Clock
  <1>2. CASE Switch
    <2>1. UNCHANGED <<val, pend>>  BY <1>2 DEF Switch
    <2> QED  BY <1>a, <1>2, <2>1, SwitchUnsteady DEF Clock
  <1>3. CASE Handler
    <2>1. /\ pend /\ val # 0 /\ pend' = FALSE
          /\ Steady => jiffies' = Incremented(jiffies)
          /\ UNCHANGED <<val, elapsed>>
      BY <1>3 DEF Handler, Steady, ghost
    <2>2. Steady => Value(jiffies)' = v + 1  BY <2>1, IncrementedValue
    <2>3. Steady' <=> Steady  BY <1>3, SteadySteps
    <2> QED  BY <1>0, <1>a, <2>1, <2>2, <2>3 DEF Clock
  <1>4. CASE Reset
    <2>1. /\ jiffies' = Zero /\ val' = Load - 1 /\ elapsed' = 0 /\ ~pend
          /\ UNCHANGED pend
      BY <1>4 DEF Reset, Runs
    <2>2. Value(jiffies)' = 0 /\ Load * 0 = 0  BY <2>1, ZeroValue
    <2> QED  BY <2>1, <2>2 DEF Clock
  <1>5. CASE Program \/ UNCHANGED vars
    <2>1. UNCHANGED <<val, pend, jiffies, elapsed>>
      BY <1>5 DEF Program, Call, Mask, ReadLow, ReadPrev, ReadCounter, ReadAgain,
                  ReadCurrent, Retry, vars, timer, ghost
    <2>2. Steady' <=> Steady  BY <1>5, SteadySteps
    <2> QED  BY <1>a, <2>1, <2>2 DEF Clock, Value
  <1> QED  BY <1>1, <1>2, <1>3, <1>4, <1>5 DEF Next

(* The result of a call, from what the reader knows when it ends. *)
LEMMA ResultWithin ==
  ASSUME AccuracyInv, Steady, ReadCurrent, Same(<<low, jiffies[2]>>)
  PROVE  /\ pc' = "idle" /\ began + 2 <= result' /\ result' <= elapsed + 2
         /\ result <= began + 2 /\ elapsed' = elapsed
  <1> USE DEF AccuracyInv, TypeOK
  <1>1. prev = <<low, jiffies[2]>> /\ low = jiffies[1] /\ pc = "high2"
    BY DEF ReadCurrent, Reading, Agreement, Same
  <1>2. prev = jiffies  BY <1>1, PairEquality
  <1>3. pc' = "idle" /\ result' = 2 * (Load * Value(jiffies) + counter + 1)
    BY <1>1, <1>2 DEF ReadCurrent, Same
  <1>4. Load * Value(jiffies) \in Int  BY ValueNat, Times
  <1>5. began <= 2 * (Load * Value(jiffies) + counter)
        /\ 2 * (Load * Value(jiffies) + counter) <= elapsed
        /\ result <= began + 2
    BY <1>1, <1>2 DEF Reading, Agreement
  <1>6. elapsed' = elapsed  BY DEF ReadCurrent, ghost
  <1> QED  BY <1>3, <1>4, <1>5, <1>6

LEMMA ReadingInductive ==
  ASSUME AccuracyInv, [Next]_vars PROVE Reading'
  <1> USE DEF AccuracyInv, TypeOK
  <1> DEFINE v == Value(jiffies)
  <1>0. v \in Nat /\ Load * v \in Int /\ Load * (v + 1) = Load * v + Load
    BY ValueNat, Times
  <1>a. Value(prev) \in Nat  BY ValueNat
  <1>s. SUFFICES ASSUME Steady' PROVE Agreement'
    BY DEF Reading
  <1>p. Step \/ Handler \/ Program \/ UNCHANGED vars => Steady /\ Agreement
    BY <1>s, SteadySteps DEF Reading
  <1>1. CASE Step
    <2>1. /\ elapsed' = elapsed + 2
          /\ UNCHANGED <<jiffies, pc, low, prev, counter, result, began>>
      BY <1>1, <1>p DEF Step, Steady, reader
    <2>2. UNCHANGED <<Value(jiffies), Value(prev)>>  BY <2>1 DEF Value
    <2> QED  BY <1>p, <1>1, <1>0, <2>1, <2>2 DEF Agreement
  <1>2. CASE Switch
    BY <1>2, <1>s, SwitchUnsteady
  <1>3. CASE Handler
    <2>1. /\ jiffies' = Incremented(jiffies) /\ ~masked
          /\ UNCHANGED <<pc, low, prev, counter, result, began, elapsed>>
      BY <1>3, <1>p DEF Handler, Steady, reader, ghost
    <2>2. Value(jiffies)' = v + 1 /\ Value(prev)' = Value(prev)
      BY <2>1, IncrementedValue DEF Value
    <2>3. pc \in {"again", "low2", "high2"} => prev' # jiffies'
      BY <1>p, <1>3, <1>0, <1>a, <2>1, <2>2 DEF Agreement
    <2> QED  BY <1>p, <1>3, <1>0, <1>a, <2>1, <2>2, <2>3 DEF Agreement
  <1>4. CASE Reset
    BY <1>4 DEF Reset, Agreement
  <1>5. CASE Call
    BY <1>p, <1>5 DEF Call, Mask, Agreement, ghost, Program
  <1>6. CASE ReadLow("low", "high")
    BY <1>p, <1>6 DEF ReadLow, Agreement, ghost, Program
  <1>7. CASE ReadLow("low2", "high2")
    <2>1. /\ pc = "low2" /\ pc' = "high2" /\ low' = jiffies[1]
          /\ UNCHANGED <<jiffies, prev, counter, result, began, elapsed>>
      BY <1>7 DEF ReadLow, ghost
    <2>2. UNCHANGED <<Value(jiffies), Value(prev)>>  BY <2>1 DEF Value
    <2> QED  BY <1>p, <1>7, <2>1, <2>2 DEF Agreement, Program
  <1>8. CASE ReadPrev
    <2>1. /\ pc = "high" /\ pc' = "counter" /\ prev' = <<low, jiffies[2]>>
          /\ UNCHANGED <<jiffies, result, began, elapsed>>
      BY <1>8 DEF ReadPrev, ghost
    <2>2. prev' = jiffies  BY <1>p, <1>8, <2>1, PairEquality DEF Agreement, Program
    <2>3. Value(prev)' = v /\ Value(jiffies)' = v  BY <2>1, <2>2 DEF Value
    <2> QED  BY <1>p, <1>8, <1>0, <2>1, <2>3 DEF Agreement, Program
  <1>9. CASE ReadCounter
    <2>1. /\ pc = "counter" /\ pc' = "again" /\ counter' = Load - 1 - val /\ ~pend
          /\ UNCHANGED <<jiffies, prev, result, began, elapsed>>
      BY <1>9 DEF ReadCounter, Runs, ghost
    <2>2. elapsed = 2 * (Load * v + (Load - 1 - val))
      BY <1>0, <1>p, <1>9, <2>1 DEF Clock, Program
    <2>3. UNCHANGED <<Value(jiffies), Value(prev)>>  BY <2>1 DEF Value
    <2> QED  BY <1>p, <1>9, <1>0, <2>1, <2>2, <2>3 DEF Agreement, Program
  <1>10. CASE ReadAgain
    <2>1. /\ pc = "again" /\ pc' = "low2"
          /\ UNCHANGED <<jiffies, prev, counter, result, began, elapsed>>
      BY <1>10 DEF ReadAgain, Mask, ghost
    <2>2. UNCHANGED <<Value(jiffies), Value(prev)>>  BY <2>1 DEF Value
    <2> QED  BY <1>p, <1>10, <2>1, <2>2 DEF Agreement, Program
  <1>11. CASE ReadCurrent
    <2>1. CASE Same(<<low, jiffies[2]>>)
      <3>1. /\ pc' = "idle" /\ result' <= elapsed + 2 /\ elapsed' = elapsed
            /\ result' \in Nat
        BY <1>11, <1>p, <2>1, ResultWithin, TypeInductive DEF Program
      <3> QED  BY <1>p, <1>11, <3>1 DEF Agreement, Program
    <2>2. CASE ~Same(<<low, jiffies[2]>>)
      <3>1. pc = "high2" /\ pc' = "first" /\ UNCHANGED <<result, began, elapsed>>
        BY <1>11, <2>2 DEF ReadCurrent, ghost
      <3> QED  BY <1>p, <1>11, <3>1 DEF Agreement, Program
    <2> QED  BY <2>1, <2>2
  <1>12. CASE Retry
    BY <1>p, <1>12 DEF Retry, Mask, Agreement, ghost, Program
  <1>13. CASE UNCHANGED vars
    <2>1. UNCHANGED <<pc, jiffies, low, prev, counter, result, began, elapsed>>
      BY <1>13 DEF vars, reader, ghost
    <2>2. UNCHANGED <<Value(jiffies), Value(prev)>>  BY <2>1 DEF Value
    <2> QED  BY <1>p, <1>13, <2>1, <2>2 DEF Agreement
  <1> QED
    BY <1>1, <1>2, <1>3, <1>4, <1>5, <1>6, <1>7, <1>8, <1>9, <1>10, <1>11, <1>12,
       <1>13 DEF Next, Program

LEMMA AccuracyInit == Init => AccuracyInv
  <1> SUFFICES ASSUME Init PROVE AccuracyInv
    OBVIOUS
  <1>1. Value(jiffies) = 0 /\ Load * 0 = 0  BY ZeroValue DEF Init
  <1>2. TypeOK  BY TypeInit
  <1>3. Clock  BY <1>1 DEF Init, Clock
  <1>4. Reading  BY DEF Init, Reading, Agreement
  <1> QED  BY <1>2, <1>3, <1>4 DEF AccuracyInv

THEOREM AccuracyInvariance == Spec => []AccuracyInv
  <1>1. AccuracyInv /\ [Next]_vars => AccuracyInv'
    BY ClockInductive, ReadingInductive, TypeInductive DEF AccuracyInv
  <1> QED  BY <1>1, AccuracyInit, PTL DEF Spec

LEMMA ReturnStep ==
  ASSUME TypeOK, [Next]_vars, pc = "high2", pc' = "idle"
  PROVE  ReadCurrent /\ Same(<<low, jiffies[2]>>)
  <1>1. ReadCurrent
    BY DEF Next, Program, Step, Switch, Handler, Reset, Call, Mask, ReadLow,
           ReadPrev, ReadCounter, ReadAgain, Retry, vars, reader
  <1> QED  BY <1>1 DEF ReadCurrent

(* In normal mode the time returned was right during the call. *)
THEOREM TimeAccurate == Spec => Accurate
  <1>1. AccuracyInv /\ [Next]_vars =>
          (pc = "high2" /\ pc' = "idle" /\ Steady =>
             began + 2 <= result' /\ result' <= elapsed + 2)
    BY ReturnStep, ResultWithin DEF AccuracyInv
  <1> QED  BY <1>1, AccuracyInvariance, PTL DEF Spec, Accurate

(* In normal mode the time returned never runs backwards. *)
THEOREM TimeMonotonic == Spec => Monotonic
  <1>1. AccuracyInv /\ [Next]_vars => (pc # "idle" /\ Steady => result' >= result)
    <2> SUFFICES ASSUME AccuracyInv, [Next]_vars, pc # "idle", Steady
                 PROVE  result' >= result
      OBVIOUS
    <2>0. result \in Nat /\ result' \in Nat /\ began \in Nat
      BY TypeInductive DEF AccuracyInv, TypeOK
    <2>1. CASE ReadCurrent /\ Same(<<low, jiffies[2]>>)
      <3>1. began + 2 <= result' /\ result <= began + 2
        BY <2>1, ResultWithin
      <3> QED  BY <2>0, <3>1
    <2>2. CASE ~(ReadCurrent /\ Same(<<low, jiffies[2]>>))
      <3>1. UNCHANGED result
        <4>1. CASE ReadCurrent
          BY <2>2, <4>1 DEF ReadCurrent
        <4>2. CASE Step \/ Switch \/ Handler \/ UNCHANGED vars
          BY <4>2 DEF Step, Switch, Handler, vars, reader
        <4>3. CASE Reset
          BY <4>3 DEF Reset
        <4>4. CASE Call \/ ReadAgain \/ Retry
          BY <4>4 DEF Call, ReadAgain, Retry
        <4>5. CASE ReadLow("low", "high") \/ ReadPrev \/ ReadCounter
                   \/ ReadLow("low2", "high2")
          BY <4>5 DEF ReadLow, ReadPrev, ReadCounter
        <4> QED  BY <4>1, <4>2, <4>3, <4>4, <4>5 DEF Next, Program
      <3> QED  BY <2>0, <3>1, SMT
    <2> QED  BY <2>1, <2>2
  <1> QED  BY <1>1, AccuracyInvariance, PTL DEF Spec, Monotonic

-----------------------------------------------------------------------------
(* The drift, burst mode included. *)

DriftInv == TypeOK /\ (val = 0 => pend) /\ Account

Half(b) == IF b THEN 1 ELSE 0
Pending == IF ~pend THEN 0 ELSE IF burst THEN 1 ELSE 2

ErrFacts ==
  /\ Halves = 2 * Value(jiffies) + Half(burst_counter) + Pending
  /\ Halves \in Int /\ Load * Halves \in Int /\ Rate \in {1, 2}
  /\ Gone \in 0 .. Load - 1 /\ Rate * Gone \in 0 .. 2 * (Load - 1)
  /\ Err \in Int /\ Err + Load * Halves + Rate * Gone = elapsed
  /\ elapsed \in Nat /\ switches \in Nat /\ Load * switches \in Int
  /\ Load * (switches + 0) = Load * switches
  /\ Load * (switches + 1) = Load * switches + Load
  /\ Load * (switches + 2) = Load * switches + 2 * Load

LEMMA ErrType == TypeOK => ErrFacts
  <1> SUFFICES ASSUME TypeOK PROVE ErrFacts
    OBVIOUS
  <1> USE DEF TypeOK
  <1>1. Value(jiffies) \in Nat  BY ValueNat
  <1>2. Halves = 2 * Value(jiffies) + Half(burst_counter) + Pending
    BY DEF Halves, Half, Pending
  <1>3. Half(burst_counter) \in Int /\ Pending \in Int  BY DEF Half, Pending
  <1>4. Halves \in Int /\ Load * Halves \in Int  BY <1>1, <1>2, <1>3, Times
  <1>5. Rate \in {1, 2} /\ Gone \in 0 .. Load - 1  BY DEF Rate, Gone
  <1>6. Rate * Gone \in 0 .. 2 * (Load - 1)  BY <1>5
  <1>7. Err \in Int /\ Err + Load * Halves + Rate * Gone = elapsed
    BY <1>4, <1>6 DEF Err
  <1>8. /\ switches \in Nat /\ Load * switches \in Int
        /\ Load * (switches + 0) = Load * switches
        /\ Load * (switches + 1) = Load * switches + Load
        /\ Load * (switches + 2) = Load * switches + 2 * Load
    OBVIOUS
  <1> QED  BY <1>2, <1>4, <1>5, <1>6, <1>7, <1>8 DEF ErrFacts

(* The arithmetic of one change of mode, and of what it adds to the bound. *)
LEMMA SwitchArithmetic ==
  ASSUME NEW e \in Int, NEW e1 \in Int, NEW t \in Int, NEW lb \in Int,
         NEW lp \in 0 .. Load, NEW g \in 0 .. Load - 1,
         e + (lb + lp) + g = t, e1 + (lb + 2 * lp) + 2 * g = t
  PROVE  e1 <= e /\ e <= e1 + 2 * Load
  OBVIOUS

LEMMA BoundArithmetic ==
  ASSUME NEW e \in Int, NEW e1 \in Int, NEW ls \in Int, NEW ls1 \in Int,
         ls1 = ls + Load
  PROVE  /\ /\ e1 <= e /\ e <= e1 + 2 * Load
            /\ e <= ls + Load /\ 0 <= ls + Load + 2 + e
            => e1 <= ls1 /\ 0 <= ls1 + 2 * Load + 2 + e1
         /\ /\ e <= e1 /\ e1 <= e + 2 * Load
            /\ e <= ls /\ 0 <= ls + 2 * Load + 2 + e
            => e1 <= ls1 + Load /\ 0 <= ls1 + Load + 2 + e1
  OBVIOUS

LEMMA ResetArithmetic ==
  ASSUME NEW e \in Int, NEW lh \in {0, Load}, NEW rg \in {1, 2}, e + lh + rg = 0
  PROVE  e <= 0 /\ 0 <= Load + 2 + e
  OBVIOUS

LEMMA ErrTypeNext == TypeOK' => ErrFacts'
  BY ErrType, PTL

(* A step of the counter is accounted for at once. *)
LEMMA StepErr ==
  ASSUME TypeOK, TypeOK', val = 0 => pend, Step
  PROVE  Err' = Err /\ (val' = 0 => pend')
  <1> USE DEF TypeOK
  <1>e. ErrFacts /\ ErrFacts'  BY ErrType, ErrTypeNext
  <1>1. /\ val' = IF val = 0 THEN Load - 1 ELSE val - 1
        /\ val = 1 => ~pend
        /\ pend' = (pend \/ val = 1)
        /\ elapsed' = elapsed + (IF burst THEN 1 ELSE 2)
        /\ UNCHANGED <<burst, jiffies, burst_counter>>
    BY DEF Step
  <1>2. pend' <=> pend \/ val = 1  BY <1>1
  <1>3. Rate' = Rate /\ elapsed' = elapsed + Rate  BY <1>1 DEF Rate
  <1>4. Halves \in Int /\ Load * Halves \in Int /\ Rate \in {1, 2}
        /\ Gone \in 0 .. Load - 1
    BY <1>e DEF ErrFacts
  <1>5. CASE val = 1
    <2>1. Gone = Load - 1 /\ Gone' = 0  BY <1>1, <1>5 DEF Gone
    <2>2. Halves' = Halves + Rate
      BY <1>1, <1>2, <1>5, ValueNat DEF Halves, Rate, Value
    <2>3. Load * Halves' = Load * Halves + Load * Rate  BY <1>4, <2>2, Times
    <2>4. Rate * Gone = Load * Rate - Rate /\ Rate * 0 = 0  BY <1>4, <2>1
    <2>5. Load * Rate \in Int  BY <1>4
    <2>6. Err' + (Load * Halves + Load * Rate) + 0 = elapsed + Rate
      BY <1>e, <1>3, <2>1, <2>3, <2>4 DEF ErrFacts
    <2>7. Err + Load * Halves + (Load * Rate - Rate) = elapsed
      BY <1>e, <2>4 DEF ErrFacts
    <2>8. Err' = Err  BY <1>e, <1>4, <2>5, <2>6, <2>7 DEF ErrFacts
    <2> QED  BY <1>1, <1>2, <1>5, <2>8
  <1>6. CASE val # 1
    <2>1. Gone' = Gone + 1  BY <1>1, <1>6 DEF Gone
    <2>2. UNCHANGED Pending /\ UNCHANGED Halves
      BY <1>1, <1>2, <1>6 DEF Halves, Value, Pending
    <2>3. Rate * (Gone + 1) = Rate * Gone + Rate /\ Rate * Gone \in Int  BY <1>4
    <2>4. Err' = Err  BY <1>3, <1>4, <2>1, <2>2, <2>3 DEF Err
    <2>5. val' = 0 => pend'  BY <1>1, <1>6
    <2> QED  BY <2>4, <2>5
  <1> QED  BY <1>5, <1>6

(* A change of mode moves the error by less than a tick, one way to burst  *)
(* mode and the other way back.                                            *)
LEMMA SwitchErr ==
  ASSUME TypeOK, TypeOK', Switch
  PROVE  /\ switches' = switches + 1 /\ burst' = ~burst
         /\ UNCHANGED <<val, pend>>
         /\ IF burst THEN Err' <= Err /\ Err <= Err' + 2 * Load
                     ELSE Err <= Err' /\ Err' <= Err + 2 * Load
  <1> USE DEF TypeOK
  <1>1. /\ burst' = ~burst /\ switches' = switches + 1
        /\ UNCHANGED <<val, pend, jiffies, burst_counter, elapsed>>
    BY DEF Switch
  <1>b. burst' <=> ~burst  BY <1>1
  <1>e. ErrFacts /\ ErrFacts'  BY ErrType, ErrTypeNext
  <1> DEFINE base == 2 * Value(jiffies) + Half(burst_counter)
             p == IF pend THEN 1 ELSE 0
             g == Gone
  <1>2. base \in Int /\ base' = base /\ g \in 0 .. Load - 1 /\ g' = g
        /\ p \in {0, 1} /\ p' = p
    BY <1>1, <1>e, ValueNat DEF Half, Gone, Value, ErrFacts
  <1>3. CASE burst
    <2>1. Halves = base + p /\ Halves' = base + 2 * p
      <3>1. Pending = p /\ Pending' = 2 * p  BY <1>1, <1>b, <1>3 DEF Pending
      <3> QED  BY <1>e, <1>1, <1>2, <3>1 DEF ErrFacts, Value, Half
    <2>2. Rate = 1 /\ Rate' = 2  BY <1>1, <1>3 DEF Rate
    <2> HIDE DEF base, p
    <2>3. Load * (base + p) = Load * base + Load * p
          /\ Load * (base + 2 * p) = Load * base + 2 * (Load * p)
          /\ Load * base \in Int /\ Load * p \in 0 .. Load
      BY <1>2
    <2>a. /\ Err + Load * Halves + Rate * Gone = elapsed
          /\ Err' + Load * Halves' + Rate' * Gone' = elapsed
          /\ Err \in Int /\ Err' \in Int
      BY <1>e, <1>1 DEF ErrFacts
    <2>b. /\ Load * Halves = Load * base + Load * p
          /\ Load * Halves' = Load * base + 2 * (Load * p)
      BY <2>1, <2>3
    <2>c. Rate * Gone = g /\ Rate' * Gone' = 2 * g
      BY <1>2, <2>2
    <2> DEFINE lb == Load * base
               lp == Load * p
               e0 == Err
               e1 == Err'
    <2>4. e0 + (lb + lp) + g = elapsed /\ e1 + (lb + 2 * lp) + 2 * g = elapsed
      BY <2>a, <2>b, <2>c
    <2>5. lb \in Int /\ lp \in 0 .. Load /\ g \in 0 .. Load - 1
          /\ e0 \in Int /\ e1 \in Int /\ elapsed \in Int
      BY <1>2, <2>3, <2>a
    <2> HIDE DEF g, lb, lp, e0, e1
    <2>6. e1 <= e0 /\ e0 <= e1 + 2 * Load
      BY <2>4, <2>5, SwitchArithmetic
    <2> QED  BY <1>1, <1>3, <2>6 DEF e0, e1
  <1>4. CASE ~burst
    <2>1. Halves = base + 2 * p /\ Halves' = base + p
      <3>1. Pending = 2 * p /\ Pending' = p  BY <1>1, <1>b, <1>4 DEF Pending
      <3> QED  BY <1>e, <1>1, <1>2, <3>1 DEF ErrFacts, Value, Half
    <2>2. Rate = 2 /\ Rate' = 1  BY <1>1, <1>4 DEF Rate
    <2> HIDE DEF base, p
    <2>3. Load * (base + p) = Load * base + Load * p
          /\ Load * (base + 2 * p) = Load * base + 2 * (Load * p)
          /\ Load * base \in Int /\ Load * p \in 0 .. Load
      BY <1>2
    <2>a. /\ Err' + Load * Halves' + Rate' * Gone' = elapsed
          /\ Err + Load * Halves + Rate * Gone = elapsed
          /\ Err \in Int /\ Err' \in Int
      BY <1>e, <1>1 DEF ErrFacts
    <2>b. /\ Load * Halves' = Load * base + Load * p
          /\ Load * Halves = Load * base + 2 * (Load * p)
      BY <2>1, <2>3
    <2>c. Rate' * Gone' = g /\ Rate * Gone = 2 * g
      BY <1>2, <2>2
    <2> DEFINE lb == Load * base
               lp == Load * p
               e0 == Err
               e1 == Err'
    <2>4. e1 + (lb + lp) + g = elapsed /\ e0 + (lb + 2 * lp) + 2 * g = elapsed
      BY <2>a, <2>b, <2>c
    <2>5. lb \in Int /\ lp \in 0 .. Load /\ g \in 0 .. Load - 1
          /\ e0 \in Int /\ e1 \in Int /\ elapsed \in Int
      BY <1>2, <2>3, <2>a
    <2> HIDE DEF g, lb, lp, e0, e1
    <2>6. e0 <= e1 /\ e1 <= e0 + 2 * Load
      BY <2>4, <2>5, SwitchArithmetic
    <2> QED  BY <1>1, <1>4, <2>6 DEF e0, e1
  <1> QED  BY <1>3, <1>4

(* The handler only moves what is pending into what is counted. *)
LEMMA HandlerErr ==
  ASSUME TypeOK, Handler
  PROVE  Err' = Err /\ val # 0 /\ UNCHANGED <<val, burst, switches>>
  <1> USE DEF TypeOK
  <1>1. /\ pend /\ val # 0 /\ pend' = FALSE
        /\ jiffies' = IF ~burst \/ burst_counter THEN Incremented(jiffies) ELSE jiffies
        /\ burst_counter' = IF burst THEN ~burst_counter ELSE burst_counter
        /\ UNCHANGED <<val, burst, elapsed, switches>>
    BY DEF Handler, ghost
  <1>2. Value(jiffies)' =
          Value(jiffies) + (IF ~burst \/ burst_counter THEN 1 ELSE 0)
    <2>1. CASE ~burst \/ burst_counter
      BY <1>1, <2>1, IncrementedValue
    <2>2. CASE ~(~burst \/ burst_counter)
      BY <1>1, <2>2, ValueNat DEF Value
    <2> QED  BY <2>1, <2>2
  <1>3. Halves' = Halves
    <2>1. CASE burst /\ burst_counter
      <3>1. ~burst_counter' /\ ~pend'  BY <1>1, <2>1
      <3> QED  BY <1>1, <1>2, <2>1, <3>1, ValueNat DEF Halves
    <2>2. CASE burst /\ ~burst_counter
      <3>1. burst_counter' /\ ~pend'  BY <1>1, <2>2
      <3> QED  BY <1>1, <1>2, <2>2, <3>1, ValueNat DEF Halves
    <2>3. CASE ~burst
      BY <1>1, <1>2, <2>3, ValueNat DEF Halves
    <2> QED  BY <2>1, <2>2, <2>3
  <1>4. UNCHANGED <<Gone, Rate>>  BY <1>1 DEF Gone, Rate
  <1> QED  BY <1>1, <1>3, <1>4 DEF Err

LEMMA DriftInductive == DriftInv /\ [Next]_vars => DriftInv'
  <1> SUFFICES ASSUME DriftInv, [Next]_vars PROVE DriftInv'
    OBVIOUS
  <1>t. TypeOK /\ TypeOK' /\ (val = 0 => pend)
    BY TypeInductive DEF DriftInv
  <1>e. ErrFacts /\ ErrFacts'  BY <1>t, ErrType, ErrTypeNext
  <1>f. /\ Err <= Load * switches + (IF burst THEN Load ELSE 0)
        /\ 0 <= Load * switches + (IF burst THEN Load ELSE 2 * Load) + 2 + Err
    BY <1>e DEF DriftInv, Account, ErrFacts
  <1>1. CASE Step
    <2>1. Err' = Err /\ (val' = 0 => pend')  BY <1>1, <1>t, StepErr
    <2>2. UNCHANGED <<burst, switches>>  BY <1>1 DEF Step
    <2> QED  BY <1>t, <2>1, <2>2 DEF DriftInv, Account
  <1>2. CASE Switch
    <2>1. /\ switches' = switches + 1 /\ burst' = ~burst /\ UNCHANGED <<val, pend>>
          /\ IF burst THEN Err' <= Err /\ Err <= Err' + 2 * Load
                      ELSE Err <= Err' /\ Err' <= Err + 2 * Load
      BY <1>2, <1>t, SwitchErr
    <2>2. Load * switches' = Load * switches + Load
      BY <1>e, <2>1 DEF ErrFacts
    <2>b. burst' <=> ~burst  BY <2>1
    <2> DEFINE ls == Load * switches
               ls1 == Load * switches'
    <2>c. /\ ls \in Int /\ ls1 = ls + Load /\ Err \in Int /\ Err' \in Int
          /\ Err <= ls + (IF burst THEN Load ELSE 0)
          /\ 0 <= ls + (IF burst THEN Load ELSE 2 * Load) + 2 + Err
      BY <1>e, <1>f, <2>2 DEF ErrFacts
    <2>3. Account'
      <3>1. CASE burst
        <4> HIDE DEF ls, ls1
        <4> DEFINE e0 == Err
                   e1 == Err'
        <4>1. e1 <= e0 /\ e0 <= e1 + 2 * Load  BY <2>1, <3>1
        <4>2. e0 <= ls + Load /\ 0 <= ls + Load + 2 + e0  BY <2>c, <3>1
        <4>a. /\ e0 \in Int /\ e1 \in Int /\ ls \in Int /\ ls1 \in Int
              /\ ls1 = ls + Load
          BY <1>e, <2>c DEF ErrFacts
        <4> HIDE DEF e0, e1
        <4>b. e1 <= ls1 /\ 0 <= ls1 + 2 * Load + 2 + e1
          BY <4>1, <4>2, <4>a, BoundArithmetic
        <4>3. Err' <= ls1 /\ 0 <= ls1 + 2 * Load + 2 + Err'
          BY <4>b DEF e1
        <4> QED  BY <1>e, <2>b, <3>1, <4>3 DEF Account, ErrFacts, ls1
      <3>2. CASE ~burst
        <4> HIDE DEF ls, ls1
        <4> DEFINE e0 == Err
                   e1 == Err'
        <4>a. /\ e0 \in Int /\ e1 \in Int /\ ls \in Int /\ ls1 \in Int
              /\ ls1 = ls + Load
              /\ e0 <= e1 /\ e1 <= e0 + 2 * Load /\ e0 <= ls
              /\ 0 <= ls + 2 * Load + 2 + e0
          BY <1>e, <2>1, <2>c, <3>2 DEF ErrFacts
        <4> HIDE DEF e0, e1
        <4>b. e1 <= ls1 + Load /\ 0 <= ls1 + Load + 2 + e1
          BY <4>a, BoundArithmetic
        <4>1. Err' <= ls1 + Load /\ 0 <= ls1 + Load + 2 + Err'
          BY <4>b DEF e1
        <4> QED  BY <1>e, <2>b, <3>2, <4>1 DEF Account, ErrFacts, ls1
      <3> QED  BY <3>1, <3>2
    <2> QED  BY <1>t, <2>1, <2>3 DEF DriftInv
  <1>3. CASE Handler
    <2>1. Err' = Err /\ val # 0 /\ UNCHANGED <<val, burst, switches>>
      BY <1>3, <1>t, HandlerErr
    <2> QED  BY <1>t, <2>1 DEF DriftInv, Account
  <1>4. CASE Reset
    <2>1. /\ jiffies' = Zero /\ val' = Load - 1 /\ elapsed' = 0 /\ switches' = 0
          /\ pend' = FALSE /\ UNCHANGED <<burst, burst_counter>>
      BY <1>4, <1>t DEF Reset, Runs, TypeOK
    <2>2. Halves' = Half(burst_counter)
      BY <2>1, ZeroValue DEF Halves, Half
    <2>3. Gone' = 1 /\ Rate' \in {1, 2}
      <3>1. Load - (Load - 1) = 1 /\ Load - 1 # 0  OBVIOUS
      <3> QED  BY <2>1, <3>1 DEF Gone, Rate
    <2>4. Load * Halves' \in {0, Load}  BY <2>2 DEF Half
    <2>5. Rate' * Gone' \in {1, 2}
      <3> DEFINE r1 == Rate'
      <3>1. r1 \in {1, 2}  BY <2>3
      <3> HIDE DEF r1
      <3>2. r1 * 1 \in {1, 2}  BY <3>1
      <3> QED  BY <2>3, <3>2 DEF r1
    <2>6. Err' + Load * Halves' + Rate' * Gone' = 0  BY <1>e, <2>1 DEF ErrFacts
    <2>7. Load * (0 + 0) = 0 /\ Load * (0 + 1) = Load /\ Load * (0 + 2) = 2 * Load
      OBVIOUS
    <2>8. Err' <= 0 /\ 0 <= Load + 2 + Err' /\ Err' \in Int
      <3> DEFINE lh == Load * Halves'
                 rg == Rate' * Gone'
      <3>1. Err' \in Int /\ Err' + lh + rg = 0 /\ lh \in {0, Load} /\ rg \in {1, 2}
        BY <1>e, <2>4, <2>5, <2>6 DEF ErrFacts
      <3> HIDE DEF lh, rg
      <3> QED  BY <3>1, ResetArithmetic
    <2>9. Account'
      <3> DEFINE e1 == Err'
      <3>0. e1 \in Int /\ e1 <= 0 /\ 0 <= Load + 2 + e1  BY <2>8
      <3> HIDE DEF e1
      <3>a. e1 <= Load /\ e1 <= 0 /\ 0 <= Load + 2 + e1 /\ 0 <= 2 * Load + 2 + e1
        BY <3>0
      <3>1. CASE burst'
        BY <2>1, <2>7, <3>a, <3>1 DEF Account, e1
      <3>2. CASE ~burst'
        BY <2>1, <2>7, <3>a, <3>2 DEF Account, e1
      <3> QED  BY <3>1, <3>2
    <2> QED  BY <1>t, <2>1, <2>9 DEF DriftInv
  <1>5. CASE Program \/ UNCHANGED vars
    <2>1. UNCHANGED <<val, pend, burst, jiffies, burst_counter, ghost>>
      BY <1>5 DEF Program, Call, Mask, ReadLow, ReadPrev, ReadCounter, ReadAgain,
                  ReadCurrent, Retry, vars, timer
    <2>2. UNCHANGED <<Err, switches>>
      BY <2>1 DEF Err, Halves, Rate, Gone, Value, ghost
    <2> QED  BY <1>t, <2>1, <2>2 DEF DriftInv, Account
  <1> QED  BY <1>1, <1>2, <1>3, <1>4, <1>5 DEF Next

LEMMA DriftInit == Init => DriftInv
  <1> SUFFICES ASSUME Init PROVE DriftInv
    OBVIOUS
  <1>1. Halves = 0 /\ Load * 0 = 0 /\ Rate = 2 /\ Gone = 1
    BY ZeroValue DEF Init, Halves, Rate, Gone
  <1>2. Err = -2  BY <1>1 DEF Err, Init
  <1>3. Load * (0 + 2) = 2 * Load /\ Load * (0 + 0) = 0  OBVIOUS
  <1>4. Account  BY <1>2, <1>3 DEF Account, Init
  <1> QED  BY <1>4, TypeInit DEF DriftInv, Init

(* The error of the tick count is bounded by the changes of mode alone. *)
THEOREM Drift == Spec => []DriftBounded
  <1>1. DriftInv => DriftBounded
    <2> SUFFICES ASSUME DriftInv PROVE DriftBounded
      OBVIOUS
    <2>1. ErrFacts  BY ErrType DEF DriftInv
    <2>2. burst => Rate * Gone <= Load
      BY <2>1 DEF ErrFacts, Rate
    <2>3. CASE burst
      <3>1. Err <= Load * switches + Load /\ 0 <= Load * switches + Load + 2 + Err
        BY <2>1, <2>3 DEF DriftInv, Account, ErrFacts
      <3> QED  BY <2>1, <2>2, <2>3, <3>1 DEF DriftBounded, ErrFacts
    <2>4. CASE ~burst
      <3>1. Err <= Load * switches /\ 0 <= Load * switches + 2 * Load + 2 + Err
        BY <2>1, <2>4 DEF DriftInv, Account, ErrFacts
      <3> QED  BY <2>1, <2>4, <3>1 DEF DriftBounded, ErrFacts
    <2> QED  BY <2>3, <2>4
  <1> QED  BY <1>1, DriftInit, DriftInductive, PTL DEF Spec
=============================================================================
