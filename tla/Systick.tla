------------------------------ MODULE Systick ------------------------------
(***************************************************************************)
(* src/src/systick.c: the system timer, its interrupt handler, and the     *)
(* readers of the time. The counter runs down beside the program; its      *)
(* interrupt is taken between any two steps of a reader, except while the  *)
(* reader has interrupts masked. In burst mode the counter runs at twice   *)
(* the speed and the handler counts every second interrupt.                *)
(*                                                                         *)
(* Time is measured in units of half a step of the counter in normal mode, *)
(* so that a step takes 2 units in normal mode and 1 in burst mode. jiffies*)
(* is kept as the two words of a 64-bit variable, <<low, high>>.           *)
(***************************************************************************)
EXTENDS Integers

CONSTANTS
  Load,         \* counter steps per period: 48000
  Word,         \* 2^32 in the code: the range of one word of jiffies
  MaxJiffies,   \* bound: ticks counted
  MaxSwitches   \* bound: changes of mode between two resets

ASSUME SystickAssumption ==
  /\ Load \in Nat /\ Load > 2 /\ Word \in Nat /\ Word > 1
  /\ MaxJiffies \in Nat /\ MaxSwitches \in Nat

VARIABLES
  val,            \* SysTick->VAL
  pend,           \* is the interrupt pending
  running,        \* SysTick->CTRL, enabled
  burst,          \* is the processor in burst mode
  jiffies,        \* the ticks counted, <<low, high>>
  burst_counter,  \* the static of the handler
  pc,             \* the next step of the reader
  masked,         \* has the reader masked interrupts
  low,            \* the word of jiffies it has read
  prev, counter,  \* locals of systick_time
  result,         \* what the last call returned, in units
  began,          \* time at which the current or last call began
  elapsed,        \* time since the timer was started
  switches        \* changes of mode since the timer was reset

timer == <<val, pend, running, burst>>
reader == <<pc, masked, low, prev, counter, result, began>>
ghost == <<elapsed, switches>>
vars == <<timer, jiffies, burst_counter, reader, ghost>>

Value(j) == j[2] * Word + j[1]
Zero == <<0, 0>>

(* Mutant: no carry into the high word. *)
IncrementedLow(j) == <<(j[1] + 1) % Word, j[2]>>
Incremented(j) == IF j[1] = Word - 1 THEN <<0, j[2] + 1>> ELSE <<j[1] + 1, j[2]>>

Init ==
  /\ val = Load - 1 /\ pend = FALSE /\ running = FALSE /\ burst = FALSE
  /\ jiffies = Zero /\ burst_counter = FALSE
  /\ pc = "idle" /\ masked = FALSE /\ low = 0 /\ prev = Zero /\ counter = 0
  /\ result = 0 /\ began = 0 /\ elapsed = 0 /\ switches = 0

-----------------------------------------------------------------------------
(* The counter and the clock (external).                                   *)

(* The counter runs down to 0, which raises the interrupt, and reloads.    *)
(* Interrupts are never masked for a whole period: none is lost.           *)
Step ==
  /\ running
  /\ val = 1 => ~pend /\ Value(jiffies) < MaxJiffies
  /\ val' = IF val = 0 THEN Load - 1 ELSE val - 1
  /\ pend' = (pend \/ val = 1)
  /\ elapsed' = elapsed + IF burst THEN 1 ELSE 2
  /\ UNCHANGED <<running, burst, jiffies, burst_counter, reader, switches>>

Switch ==
  /\ switches < MaxSwitches
  /\ burst' = ~burst /\ switches' = switches + 1
  /\ UNCHANGED <<val, pend, running, jiffies, burst_counter, reader, elapsed>>

-----------------------------------------------------------------------------
(* SysTick_Handler. Entering it takes longer than the one step at 0.       *)

(* Mutant: the handler also counts the half period in normal mode. *)
HandlerToggles ==
  /\ pend /\ ~masked /\ val # 0
  /\ pend' = FALSE
  /\ jiffies' = IF burst_counter THEN Incremented(jiffies) ELSE jiffies
  /\ burst_counter' = ~burst_counter
  /\ UNCHANGED <<val, running, burst, reader, ghost>>

Handler ==
  /\ pend /\ ~masked /\ val # 0
  /\ pend' = FALSE
  /\ jiffies' = IF ~burst \/ burst_counter THEN Incremented(jiffies) ELSE jiffies
  /\ burst_counter' = IF burst THEN ~burst_counter ELSE burst_counter
  /\ UNCHANGED <<val, running, burst, reader, ghost>>

-----------------------------------------------------------------------------
(* The program: it runs while no interrupt is due.                         *)

Runs == ~pend \/ masked

(* systick_reset and systick_start, which the program calls together; the  *)
(* handler's burst_counter is not reset.                                   *)
Reset ==
  /\ pc = "idle" /\ Runs
  /\ jiffies' = Zero /\ val' = Load - 1 /\ running' = TRUE
  /\ result' = 0 /\ began' = 0 /\ elapsed' = 0 /\ switches' = 0
  /\ UNCHANGED <<pend, burst, burst_counter, pc, masked, low, prev, counter>>

(* systick_jiffies, called from systick_time: interrupts off, the two      *)
(* words of jiffies, interrupts on.                                        *)

(* Mutant: without masking interrupts. *)
MaskNot(from, to) ==
  /\ pc = from /\ Runs /\ pc' = to /\ UNCHANGED masked

Mask(from, to) == pc = from /\ Runs /\ pc' = to /\ masked' = TRUE

ReadLow(from, to) ==
  /\ pc = from /\ Runs /\ pc' = to /\ low' = jiffies[1]
  /\ UNCHANGED <<timer, jiffies, burst_counter, masked, prev, counter, result,
                 began, ghost>>

Call ==
  /\ running /\ began' = elapsed /\ Mask("idle", "low")
  /\ UNCHANGED <<timer, jiffies, burst_counter, low, prev, counter, result, ghost>>

ReadPrev ==
  /\ pc = "high" /\ Runs /\ pc' = "counter"
  /\ prev' = <<low, jiffies[2]>> /\ masked' = FALSE
  /\ UNCHANGED <<timer, jiffies, burst_counter, low, counter, result, began, ghost>>

ReadCounter ==
  /\ pc = "counter" /\ Runs /\ pc' = "again"
  /\ counter' = Load - 1 - val
  /\ UNCHANGED <<timer, jiffies, burst_counter, masked, low, prev, result, began,
                 ghost>>

ReadAgain ==
  /\ Mask("again", "low2")
  /\ UNCHANGED <<timer, jiffies, burst_counter, low, prev, counter, result, began,
                 ghost>>

(* Mutant: the loop does not compare. *)
SameAlways(current) == TRUE
Same(current) == prev = current

(* The second reading: if it differs the loop goes round again; if not,    *)
(* the result is put together, and interrupts are on again either way.     *)
ReadCurrent ==
  LET current == <<low, jiffies[2]>> IN
  /\ pc = "high2" /\ Runs
  /\ masked' = FALSE
  /\ \/ ~Same(current) /\ pc' = "first" /\ UNCHANGED result
     \/ /\ Same(current) /\ pc' = "idle"
        /\ result' = 2 * (Load * Value(current) + counter + 1)
  /\ UNCHANGED <<timer, jiffies, burst_counter, low, prev, counter, began, ghost>>

Retry ==
  /\ Mask("first", "low")
  /\ UNCHANGED <<timer, jiffies, burst_counter, low, prev, counter, result, began,
                 ghost>>

-----------------------------------------------------------------------------
Program ==
  \/ Call \/ ReadLow("low", "high") \/ ReadPrev \/ ReadCounter
  \/ ReadAgain \/ ReadLow("low2", "high2") \/ ReadCurrent \/ Retry

Next == Step \/ Switch \/ Handler \/ Reset \/ Program

Spec == Init /\ [][Next]_vars

-----------------------------------------------------------------------------
(* Properties.                                                             *)

Pair == (0 .. Word - 1) \X Nat

(* Every variable stays in its range. *)
TypeOK ==
  /\ val \in 0 .. Load - 1 /\ pend \in BOOLEAN /\ running \in BOOLEAN
  /\ burst \in BOOLEAN /\ burst_counter \in BOOLEAN
  /\ jiffies \in Pair /\ prev \in Pair /\ low \in 0 .. Word - 1
  /\ pc \in {"idle", "low", "high", "counter", "again", "low2", "high2", "first"}
  /\ masked \in BOOLEAN /\ (masked <=> pc \in {"low", "high", "low2", "high2"})
  /\ counter \in 0 .. Load - 1 /\ result \in Nat /\ began \in Nat
  /\ elapsed \in Nat /\ switches \in 0 .. MaxSwitches

(* In normal mode since the timer was reset. *)
Steady == switches = 0 /\ ~burst

(* In normal mode the time a call of systick_time returns is one at which  *)
(* the call was in progress, to the step of the counter: no interrupt      *)
(* between its readings of the counter and of jiffies puts it off by a     *)
(* tick.                                                                   *)
Accurate ==
  [][pc = "high2" /\ pc' = "idle" /\ Steady =>
       began + 2 <= result' /\ result' <= elapsed + 2]_vars

(* Half ticks counted so far, by the handler and by an interrupt not taken.*)
Halves ==
  2 * Value(jiffies) + (IF burst_counter THEN 1 ELSE 0)
    + (IF ~pend THEN 0 ELSE IF burst THEN 1 ELSE 2)

(* "This implementation attempts to correct for the use of turbo mode, but *)
(* there may still be some small error": half a tick for each change of    *)
(* mode, however many ticks go by, and one tick and one step more.         *)
DriftBounded ==
  /\ elapsed - Load * Halves <= Load * (switches + 2)
  /\ Load * Halves - elapsed <= Load * (switches + 2) + 2

(* In normal mode the time that systick_time tells does not run backwards. *)
Monotonic == [][pc # "idle" /\ Steady => result' >= result]_vars

(* Nor in burst mode: "some small error in timing introduced by the        *)
(* switching of operating modes" is all that systick.h owns to.            *)
MonotonicAlways == [][pc # "idle" => result' >= result]_vars
=============================================================================
