-------------------------------- MODULE Cli --------------------------------
(***************************************************************************)
(* src/src/cli.c over src/src/syscalls.c: a program that reads lines from  *)
(* the console and uses files in between. The line being read is edited in *)
(* place in a slot of the ring of past lines. Characters arrive at the     *)
(* UART at any time.                                                       *)
(***************************************************************************)
EXTENDS Syscalls, Sequences

CONSTANTS
  ring_size,  \* lines in the ring: 4
  Size,       \* bytes of a line, with the null at its end: 32
  Char,       \* the characters that are not special
  MaxTyped    \* bound: characters waiting at the UART

ASSUME CliAssumption ==
  /\ ring_size \in Nat \ {0, 1} /\ Size \in Nat \ {0} /\ MaxTyped \in Nat
  /\ Char \cap {"backspace", "return"} = {}

VARIABLES
  data, start, end, empty,  \* struct ring_buffer; data holds what was stored
  reading,   \* is cli_read_line running
  i,         \* characters in the line being read
  typed,     \* characters waiting at the UART
  meant,     \* history: the line as the characters read so far leave it
  lines      \* history: the last lines returned, latest last

ring == <<data, start, end, empty>>
cliVars == <<ring, reading, i, typed, meant, lines>>
vars == <<sysVars, cliVars>>

CliInit ==
  /\ data = [k \in 0 .. ring_size - 1 |-> <<>>]
  /\ start = 0 /\ end = 0 /\ empty = TRUE
  /\ reading = FALSE /\ i = 0 /\ typed = <<>> /\ meant = <<>> /\ lines = <<>>

Init == SysInit /\ CliInit

Upto(s, n) == SubSeq(s, 1, IF n < Len(s) THEN n ELSE Len(s))
LastLines(s) == SubSeq(s, IF Len(s) > ring_size THEN Len(s) - ring_size + 1 ELSE 1, Len(s))

-----------------------------------------------------------------------------
(* The ring. Its arithmetic is unsigned, modulo a multiple of its size.    *)

Get(index) == (start - index) % ring_size

InUse ==
  LET result == (start - end + ring_size) % ring_size
  IN IF result = 0 /\ ~empty THEN ring_size ELSE result

(* Mutant: the end is left behind. *)
AdvanceStart ==
  /\ empty' = FALSE /\ start' = (start + 1) % ring_size /\ UNCHANGED end

Advance ==
  /\ empty' = FALSE
  /\ start' = (start + 1) % ring_size
  /\ end' = IF start' = end THEN (end + 1) % ring_size ELSE end

-----------------------------------------------------------------------------
(* cli_read_line. *)

Type(c) ==
  /\ Len(typed) < MaxTyped /\ typed' = Append(typed, c)
  /\ UNCHANGED <<sysVars, ring, reading, i, meant, lines>>

Call ==
  /\ ~reading /\ ~fault /\ reading' = TRUE /\ i' = 0 /\ meant' = <<>>
  /\ UNCHANGED <<sysVars, ring, typed, lines>>

slot == Get(ring_size - 1)

(* getchar fails, and cli_read_line returns NULL, only without a console.  *)
NoConsole ==
  /\ reading /\ "uart" \notin devices
  /\ reading' = FALSE /\ data' = [data EXCEPT ![slot] = Upto(@, i)]
  /\ UNCHANGED <<sysVars, start, end, empty, i, typed, meant, lines>>

(* Mutant: room for one character too many. *)
HasRoomForNull == i < Size
HasRoom == i < Size - 1

(* A character of the line: past the end of the buffer it is dropped.      *)
Letter(c) ==
  /\ \/ /\ HasRoom /\ i' = i + 1
        /\ data' = [data EXCEPT ![slot] = Append(Upto(@, i), c)]
     \/ ~HasRoom /\ UNCHANGED <<i, data>>
  /\ meant' = Upto(Append(meant, c), Size - 1)
  /\ UNCHANGED <<start, end, empty, reading, lines>>

Backspace ==
  /\ i' = IF i > 0 THEN i - 1 ELSE i
  /\ meant' = Upto(meant, Len(meant) - 1)
  /\ UNCHANGED <<ring, reading, lines>>

Enter ==
  /\ data' = [data EXCEPT ![slot] = Upto(@, i)]
  /\ Advance /\ reading' = FALSE
  /\ lines' = LastLines(Append(lines, meant))
  /\ UNCHANGED <<i, meant>>

(* Mutant: nothing is read while the buffer is full. *)
GetCharWithRoom ==
  /\ reading /\ "uart" \in devices /\ typed # <<>> /\ HasRoom
  /\ typed' = Tail(typed) /\ UNCHANGED sysVars
  /\ CASE Head(typed) = "backspace" -> Backspace
       [] Head(typed) = "return" -> Enter
       [] OTHER -> Letter(Head(typed))

(* getchar: uart_read_ polls the UART until there is a character.          *)
GetChar ==
  /\ reading /\ "uart" \in devices /\ typed # <<>>
  /\ typed' = Tail(typed) /\ UNCHANGED sysVars
  /\ CASE Head(typed) = "backspace" -> Backspace
       [] Head(typed) = "return" -> Enter
       [] OTHER -> Letter(Head(typed))

-----------------------------------------------------------------------------
(* The program is in one call at a time; after a failed assertion it stays *)
(* where it is.                                                            *)
Next ==
  \/ ~reading /\ SysNext /\ UNCHANGED cliVars
  \/ \E c \in Char \cup {"backspace", "return"} : Type(c)
  \/ Call \/ NoConsole \/ GetChar
  \/ fault /\ UNCHANGED vars

Spec == Init /\ [][Next]_vars /\ WF_vars(GetChar) /\ WF_vars(NoConsole)

-----------------------------------------------------------------------------
(* Properties.                                                             *)

(* Every variable stays in its range; no line is longer than its buffer.   *)
TypeOK ==
  /\ SysTypeOK
  /\ data \in [0 .. ring_size - 1 -> Seq(Char)]
  /\ \A k \in DOMAIN data : Len(data[k]) < Size
  /\ start \in 0 .. ring_size - 1 /\ end \in 0 .. ring_size - 1 /\ empty \in BOOLEAN
  /\ reading \in BOOLEAN /\ i \in 0 .. Size - 1
  /\ typed \in Seq(Char \cup {"backspace", "return"}) /\ Len(typed) <= MaxTyped

(* The lines in use are, from the latest back, the lines that were typed,  *)
(* also while the next one is being read into the ring, and after one that *)
(* was cut short or edited; one slot less than there are is ever in use.   *)
HistoryRight ==
  /\ InUse = IF Len(lines) < ring_size THEN Len(lines) ELSE ring_size - 1
  /\ \A k \in 0 .. InUse - 1 : data[Get(k)] = lines[Len(lines) - k]

(* A line that was ended is returned, however long it was.                 *)
LineReturned ==
  reading /\ (\E k \in DOMAIN typed : typed[k] = "return") ~> ~reading
=============================================================================
