------------------------------ MODULE CliProofs ------------------------------
(***************************************************************************)
(* Proofs about the program of Cli: the descriptors of Syscalls, and the   *)
(* ring of past lines.                                                     *)
(***************************************************************************)
EXTENDS Cli, SequenceTheorems, TLAPS

File == [open : {TRUE}, name : Name, access : SUBSET {"read", "write"}]
Descriptor == [fd : {Fd(s) : s \in Slot}, name : Name, flags : Flags]

SlotTypes ==
  /\ active_files \subseteq Slot /\ leaked \subseteq Slot /\ fault \in BOOLEAN
  /\ files \in [Slot -> File \cup {Closed}] /\ held \subseteq Descriptor

(* The strengthening: a slot lost by a close that failed has no descriptor *)
(* and no open object; an object has the access its descriptor asked for,  *)
(* unless that was odd. After a fault nothing happens.                     *)
SlotInv ==
  /\ SlotTypes
  /\ \A s \in leaked : ~files[s].open
  /\ \A h \in held : files[SlotOf(h.fd)].open => files[SlotOf(h.fd)].access = Access(h.flags)
  /\ FilesSound

(* What only the console does leaves the files alone.                      *)
LEMMA SlotStutter == SlotInv /\ UNCHANGED sysVars => SlotInv'
BY DEF sysVars, SlotInv, SlotTypes, FilesSound, DescriptorsSound, FaultsKnown

LEMMA SlotInit == SysInit => SlotInv
<1> SUFFICES ASSUME SysInit PROVE SlotInv
  OBVIOUS
<1>1. \A s \in Slot : files[s] = Closed /\ ~files[s].open
  BY DEF SysInit, Closed
<1>2. SlotTypes
  BY <1>1 DEF SysInit, SlotTypes
<1>3. FilesSound
  BY <1>1 DEF SysInit, FilesSound, DescriptorsSound, FaultsKnown
<1> QED BY <1>1, <1>2, <1>3 DEF SysInit, SlotInv

(* A slot and its descriptor name each other.                              *)
LEMMA SlotFd == \A s \in Slot : SlotOf(Fd(s)) = s /\ s \in Int
BY SyscallsAssumption DEF SlotOf, Fd, Slot

LEMMA DescriptorSlot ==
  ASSUME NEW h \in Descriptor
  PROVE  /\ SlotOf(h.fd) \in Slot /\ h.fd = Fd(SlotOf(h.fd))
         /\ h.name \in Name /\ h.flags \in Flags
BY SlotFd DEF Descriptor

(* A file is opened in a free slot, which no descriptor reaches.           *)
LEMMA SlotOpen ==
  ASSUME SlotInv, ~fault, NEW name \in Name, NEW flags \in Flags, NEW s \in Slot,
         s \notin active_files,
         files' = [files EXCEPT ![s] = [open |-> TRUE, name |-> name, access |-> Access(flags)]],
         active_files' = active_files \cup {s},
         held' = held \cup {[fd |-> Fd(s), name |-> name, flags |-> flags]},
         UNCHANGED <<leaked, fault>>
  PROVE  SlotInv'
<1> DEFINE new == [fd |-> Fd(s), name |-> name, flags |-> flags]
           file == [open |-> TRUE, name |-> name, access |-> Access(flags)]
<1> USE DEF SlotInv
<1>1. Access(flags) \in SUBSET {"read", "write"}
  BY DEF Access, Asked, Flags
<1>2. file \in File /\ new \in Descriptor /\ SlotOf(new.fd) = s
  BY <1>1, SlotFd DEF File, Descriptor
<1>3. SlotTypes'
  BY <1>2 DEF SlotTypes
<1>4. /\ files'[s] = file
      /\ \A t \in Slot : t # s => files'[t] = files[t]
  BY DEF SlotTypes
<1>5. \A h \in held : SlotOf(h.fd) # s /\ SlotOf(h.fd) \in Slot
  BY DescriptorSlot DEF SlotTypes, FilesSound, DescriptorsSound
<1>6. \A t \in leaked' : ~files'[t].open
  <2>1. s \notin leaked
    BY DEF FilesSound, DescriptorsSound
  <2> QED BY <1>4, <2>1 DEF SlotTypes
<1>7. \A h \in held' : files'[SlotOf(h.fd)].open => files'[SlotOf(h.fd)].access = Access(h.flags)
  BY <1>2, <1>4, <1>5
<1>8. DescriptorsSound'
  <2>1. \A h \in held' : SlotOf(h.fd) \in active_files' /\ files'[SlotOf(h.fd)].open
                         /\ files'[SlotOf(h.fd)].name = h.name
    BY <1>2, <1>4, <1>5 DEF FilesSound, DescriptorsSound
  <2>2. \A g, h \in held' : g.fd = h.fd => g = h
    BY <1>2, <1>5 DEF FilesSound, DescriptorsSound
  <2>3. active_files' = {SlotOf(h.fd) : h \in held'} \cup leaked'
    BY <1>2 DEF FilesSound, DescriptorsSound
  <2>4. \A t \in Slot : files'[t].open => t \in active_files'
    BY <1>4 DEF FilesSound, DescriptorsSound
  <2> QED BY <2>1, <2>2, <2>3, <2>4 DEF DescriptorsSound
<1>9. FaultsKnown'
  BY DEF FaultsKnown
<1> QED BY <1>3, <1>6, <1>7, <1>8, <1>9 DEF FilesSound

(* The object in a closed slot is closed, and nobody has its descriptor;   *)
(* the slot is free, or lost.                                              *)
LEMMA SlotClose ==
  ASSUME SlotInv, ~fault, NEW s \in Slot, s \in active_files, files[s].open,
         files' = [files EXCEPT ![s] = Closed], held' = {h \in held : h.fd # Fd(s)},
         \/ active_files' = active_files \ {s} /\ UNCHANGED leaked
         \/ leaked' = leaked \cup {s} /\ UNCHANGED active_files,
         UNCHANGED fault
  PROVE  SlotInv'
<1> USE DEF SlotInv
<1>1. /\ files'[s] = Closed /\ ~files'[s].open
      /\ \A t \in Slot : t # s => files'[t] = files[t]
  BY DEF SlotTypes, Closed
<1>2. SlotTypes'
  BY DEF SlotTypes
<1>3. s \notin leaked
  OBVIOUS
<1>4. \A t \in leaked' : ~files'[t].open
  BY <1>1, <1>2 DEF SlotTypes
<1>5. \A h \in held : /\ SlotOf(h.fd) \in Slot
                      /\ (h.fd = Fd(s)) <=> (SlotOf(h.fd) = s)
  BY DescriptorSlot, SlotFd DEF SlotTypes
<1>6. \A h \in held' : h \in held /\ SlotOf(h.fd) # s
                       /\ files'[SlotOf(h.fd)] = files[SlotOf(h.fd)]
  BY <1>1, <1>5
<1>7. \A h \in held' : files'[SlotOf(h.fd)].open => files'[SlotOf(h.fd)].access = Access(h.flags)
  BY <1>6
<1>8. DescriptorsSound'
  <2>1. \A h \in held' : SlotOf(h.fd) \in active_files' /\ files'[SlotOf(h.fd)].open
                         /\ files'[SlotOf(h.fd)].name = h.name
    BY <1>6 DEF FilesSound, DescriptorsSound
  <2>2. \A g, h \in held' : g.fd = h.fd => g = h
    BY <1>6 DEF FilesSound, DescriptorsSound
  <2>3. active_files' = {SlotOf(h.fd) : h \in held'} \cup leaked'
    <3>1. {SlotOf(h.fd) : h \in held'} = {SlotOf(h.fd) : h \in held} \ {s}
      BY <1>5, <1>6
    <3>2. active_files = {SlotOf(h.fd) : h \in held} \cup leaked
      BY DEF FilesSound, DescriptorsSound
    <3> QED BY <1>3, <3>1, <3>2
  <2>4. \A t \in Slot : files'[t].open => t \in active_files'
    BY <1>1 DEF FilesSound, DescriptorsSound
  <2> QED BY <2>1, <2>2, <2>3, <2>4 DEF DescriptorsSound
<1>9. FaultsKnown'
  BY DEF FaultsKnown
<1> QED BY <1>2, <1>4, <1>7, <1>8, <1>9 DEF FilesSound

(* Only the history of faults changes: a use for which littlefs has no     *)
(* access is one of a descriptor opened oddly, and a close that finds no   *)
(* object is one of a slot lost before.                                    *)
LEMMA SlotFault ==
  ASSUME SlotInv, UNCHANGED <<active_files, files, held, leaked>>, fault' \in BOOLEAN,
         fault' => leaked # {} \/ \E h \in held : Odd(h.flags)
  PROVE  SlotInv'
BY DEF SlotInv, SlotTypes, FilesSound, DescriptorsSound, FaultsKnown

LEMMA SlotStep == SlotInv /\ SysNext => SlotInv'
<1> SUFFICES ASSUME SlotInv, ~fault, SysCalls PROVE SlotInv'
  BY DEF SysNext
<1>0. ASSUME NEW e, Fail(e) PROVE SlotInv'
  BY <1>0, SlotFault DEF Fail, SlotInv, SlotTypes
<1>1. ASSUME NEW device, Register(device) PROVE SlotInv'
  BY <1>1, SlotFault DEF Register, SlotInv, SlotTypes
<1>2. ASSUME NEW name \in Name, NEW flags \in Flags, Open(name, flags) PROVE SlotInv'
  BY <1>0, <1>2, SlotOpen DEF Open, Free
<1>3. ASSUME NEW h \in held, NEW access \in SUBSET Asked(h.flags), Use(h.fd, access)
      PROVE  SlotInv'
  <2>1. Odd(h.flags) \/ Sound(SlotOf(h.fd), access)
    BY DEF SlotInv, FilesSound, DescriptorsSound, Sound, Access
  <2> QED BY <1>3, <2>1, SlotFault DEF Use, SlotInv, SlotTypes
<1>4. ASSUME NEW s \in Slot, Close(Fd(s)) PROVE SlotInv'
  <2>1. SlotOf(Fd(s)) = s
    BY SlotFd
  <2>2. CASE Fail("EBADF")
    BY <1>0, <2>2
  <2>3. CASE s \in active_files /\ AssertFails(s)
    <3>1. s \in leaked
      BY <2>3 DEF AssertFails, SlotInv, FilesSound, DescriptorsSound
    <3> QED BY <2>3, <3>1, SlotFault DEF AssertFails
  <2>4. CASE /\ s \in active_files /\ CloseObject(s) /\ Dropped(Fd(s)) /\ UNCHANGED fault
             /\ \/ active_files' = active_files \ {s} /\ UNCHANGED leaked
                \/ leaked' = leaked \cup {s} /\ UNCHANGED active_files
    BY <2>4, SlotClose DEF CloseObject, Dropped
  <2> QED BY <1>4, <2>1, <2>2, <2>3, <2>4 DEF Close
<1> QED BY <1>1, <1>2, <1>3, <1>4 DEF SysCalls

LEMMA SlotNext == SlotInv /\ [Next]_vars => SlotInv'
<1> SUFFICES ASSUME SlotInv, [Next]_vars PROVE SlotInv'
  OBVIOUS
<1>1. SysNext \/ UNCHANGED sysVars
  BY DEF Next, vars, Type, Call, NoConsole, GetChar
<1> QED BY <1>1, SlotStutter, SlotStep

(* Files and descriptors agree, and only a close that failed or a file     *)
(* opened oddly runs into an assertion of littlefs, for any number of      *)
(* slots, while lines are read in between.                                 *)
THEOREM FilesAlwaysSound == Spec => []FilesSound
<1>1. Init => SlotInv
  BY SlotInit DEF Init
<1>2. SlotInv => FilesSound
  BY DEF SlotInv
<1> QED BY <1>1, <1>2, SlotNext, PTL DEF Spec

-----------------------------------------------------------------------------
(* The ring of past lines. *)

(* A place of a ring and the one after it, the place so many before it,    *)
(* and how far it is from another.                                         *)
LEMMA RingPlace ==
  ASSUME NEW n \in Nat \ {0, 1}, NEW s \in 0 .. n - 1, NEW k \in 0 .. n - 1
  PROVE  /\ (s + 1) % n = IF s = n - 1 THEN 0 ELSE s + 1
         /\ (s - k) % n = IF k <= s THEN s - k ELSE s - k + n
         /\ (s - k + n) % n = IF k <= s THEN s - k ELSE s - k + n
<1>1. ASSUME NEW a \in Int
      PROVE  /\ (0 <= a /\ a < n) => a % n = a
             /\ (n <= a /\ a < 2 * n) => a % n = a - n
             /\ (-n <= a /\ a < 0) => a % n = a + n
  OBVIOUS
<1>2. (s + 1) % n = IF s = n - 1 THEN 0 ELSE s + 1
  BY <1>1
<1>3. (s - k) % n = IF k <= s THEN s - k ELSE s - k + n
  BY <1>1
<1>4. (s - k + n) % n = IF k <= s THEN s - k ELSE s - k + n
  BY <1>1
<1> QED BY <1>2, <1>3, <1>4

(* The slots in use of a ring that is not full, from its start and end.    *)
LEMMA RingUsed ==
  ASSUME NEW n \in Nat \ {0, 1}, NEW s \in 0 .. n - 1, NEW e \in 0 .. n - 1,
         NEW b, s = e => b
  PROVE  (IF (s - e + n) % n = 0 /\ ~b THEN n ELSE (s - e + n) % n)
           = (IF s >= e THEN s - e ELSE s - e + n)
<1> DEFINE r == (s - e + n) % n
<1>1. r = IF e <= s THEN s - e ELSE s - e + n
  BY RingPlace
<1> HIDE DEF r
<1>2. r = IF s >= e THEN s - e ELSE s - e + n
  BY <1>1
<1>3. ~(r = 0 /\ ~b)
  BY <1>1
<1> QED BY <1>2, <1>3 DEF r

(* One line more: how many slots are in use when the start, and with a     *)
(* full ring the end, have moved on.                                       *)
LEMMA RingCount ==
  ASSUME NEW n \in Nat \ {0, 1}, NEW s \in 0 .. n - 1, NEW e \in 0 .. n - 1, NEW l \in 0 .. n,
         NEW s1, NEW e1,
         (IF s >= e THEN s - e ELSE s - e + n) = (IF l < n THEN l ELSE n - 1),
         s1 = (IF s = n - 1 THEN 0 ELSE s + 1),
         e1 = (IF s1 # e THEN e ELSE IF e = n - 1 THEN 0 ELSE e + 1)
  PROVE  (IF s1 > e1 THEN s1 - e1 ELSE s1 - e1 + n) = (IF l + 1 < n THEN l + 1 ELSE n - 1)
<1>1. CASE s = n - 1
  BY <1>1
<1>2. CASE s # n - 1
  BY <1>2
<1> QED BY <1>1, <1>2

(* The first characters of a line, and what an added one does to them.     *)
LEMMA UptoSeq ==
  ASSUME NEW S, NEW s \in Seq(S), NEW m \in Nat
  PROVE  /\ Upto(s, m) \in Seq(S)
         /\ Len(Upto(s, m)) = IF m < Len(s) THEN m ELSE Len(s)
         /\ \A k \in 1 .. Len(Upto(s, m)) : Upto(s, m)[k] = s[k]
<1> DEFINE l == IF m < Len(s) THEN m ELSE Len(s)
<1>1. Len(s) \in Nat /\ l \in Nat /\ l <= Len(s)
  OBVIOUS
<1>2. \A k \in 1 .. l : s[k] \in S
  BY <1>1
<1> QED BY <1>1, <1>2, SubSeqProperties DEF Upto

LEMMA UptoWhole ==
  ASSUME NEW S, NEW s \in Seq(S), NEW m \in Nat, m >= Len(s)
  PROVE  Upto(s, m) = s
<1>1. Len(Upto(s, m)) = Len(s) /\ Upto(s, m) \in Seq(S)
  BY UptoSeq
<1> QED BY <1>1, UptoSeq, SeqEqual

LEMMA UptoUpto ==
  ASSUME NEW S, NEW s \in Seq(S), NEW l \in Nat, NEW m \in Nat, m <= l
  PROVE  Upto(Upto(s, l), m) = Upto(s, m)
<1> DEFINE t == Upto(s, l)
<1>1. /\ t \in Seq(S) /\ Len(t) = (IF l < Len(s) THEN l ELSE Len(s))
      /\ \A k \in 1 .. Len(t) : t[k] = s[k]
  BY UptoSeq
<1> HIDE DEF t
<1>2. /\ Upto(t, m) \in Seq(S) /\ Len(Upto(t, m)) = (IF m < Len(t) THEN m ELSE Len(t))
      /\ \A k \in 1 .. Len(Upto(t, m)) : Upto(t, m)[k] = t[k]
  BY <1>1, UptoSeq
<1>3. /\ Upto(s, m) \in Seq(S) /\ Len(Upto(s, m)) = (IF m < Len(s) THEN m ELSE Len(s))
      /\ \A k \in 1 .. Len(Upto(s, m)) : Upto(s, m)[k] = s[k]
  BY UptoSeq
<1>4. Len(Upto(t, m)) = Len(Upto(s, m)) /\ Len(s) \in Nat /\ Len(t) \in Nat
  BY <1>1, <1>2, <1>3
<1>5. \A k \in 1 .. Len(Upto(t, m)) : Upto(t, m)[k] = Upto(s, m)[k]
  BY <1>1, <1>2, <1>3, <1>4
<1> QED BY <1>2, <1>3, <1>4, <1>5, SeqEqual DEF t

LEMMA UptoAppend ==
  ASSUME NEW S, NEW s \in Seq(S), NEW c \in S
  PROVE  Upto(Append(s, c), Len(s)) = s
<1> DEFINE t == Append(s, c)
<1>1. t \in Seq(S) /\ Len(t) = Len(s) + 1 /\ Len(s) \in Nat /\ \A k \in 1 .. Len(s) : t[k] = s[k]
  BY AppendProperties
<1> HIDE DEF t
<1>2. Upto(t, Len(s)) \in Seq(S) /\ Len(Upto(t, Len(s))) = Len(s)
  BY <1>1, UptoSeq
<1>3. \A k \in 1 .. Len(s) : Upto(t, Len(s))[k] = s[k]
  BY <1>1, <1>2, UptoSeq
<1> QED BY <1>2, <1>3, SeqEqual DEF t

Ring == 0 .. ring_size - 1
Special == {"backspace", "return"}

(* The slot the next line goes to is none of those of the lines in use.    *)
LEMMA RingPlaces ==
  ASSUME start \in Ring
  PROVE  /\ slot = IF start = ring_size - 1 THEN 0 ELSE start + 1
         /\ slot \in Ring /\ \A k \in 0 .. ring_size - 2 : Get(k) \in Ring \ {slot}
<1>0. ring_size \in Nat /\ ring_size >= 2 /\ ring_size - 1 \in Ring
  BY CliAssumption DEF CliAssumption, Ring
<1>1. \A k \in Ring : Get(k) = IF k <= start THEN start - k ELSE start - k + ring_size
  BY CliAssumption, RingPlace DEF CliAssumption, Ring, Get
<1>2. slot = IF start = ring_size - 1 THEN 0 ELSE start + 1
  BY <1>0, <1>1 DEF slot, Ring
<1> QED BY <1>0, <1>1, <1>2 DEF Ring

RingTypes ==
  /\ data \in [Ring -> Seq(Char)] /\ \A k \in Ring : Len(data[k]) < Size
  /\ start \in Ring /\ end \in Ring /\ empty \in BOOLEAN
  /\ reading \in BOOLEAN /\ i \in 0 .. Size - 1
  /\ typed \in Seq(Char \cup Special) /\ Len(typed) <= MaxTyped
  /\ meant \in Seq(Char) /\ lines \in Seq(Seq(Char)) /\ Len(lines) <= ring_size

(* The ring is empty before the first line, and never full; the slot being *)
(* read into holds, up to the place the line has reached, what was meant.  *)
LineInv ==
  /\ RingTypes /\ HistoryRight
  /\ empty = (lines = <<>>)
  /\ empty <=> start = end
  /\ reading => Len(meant) = i /\ Upto(data[slot], i) = meant

LEMMA LineStart == CliInit => LineInv
<1> SUFFICES ASSUME CliInit PROVE LineInv
  OBVIOUS
<1> USE CliAssumption DEF CliAssumption, Ring, CliInit
<1>1. RingTypes
  <2>1. data \in [Ring -> Seq(Char)] /\ \A k \in Ring : Len(data[k]) < Size
    BY EmptySeq
  <2>2. /\ start \in Ring /\ end \in Ring /\ i \in 0 .. Size - 1 /\ Len(typed) <= MaxTyped
        /\ Len(lines) <= ring_size
    BY EmptySeq
  <2>3. /\ typed \in Seq(Char \cup Special) /\ meant \in Seq(Char) /\ lines \in Seq(Seq(Char))
        /\ empty \in BOOLEAN /\ reading \in BOOLEAN
    BY EmptySeq
  <2> QED BY <2>1, <2>2, <2>3 DEF RingTypes
<1>2. InUse = 0
  BY RingPlace DEF InUse
<1>3. HistoryRight
  BY <1>2 DEF HistoryRight
<1> QED BY <1>1, <1>3 DEF LineInv

(* What leaves the ring and the line alone.                                *)
LEMMA LineKept ==
  ASSUME LineInv, UNCHANGED <<ring, i, meant, lines>>, reading' = reading \/ reading' = FALSE,
         typed' \in Seq(Char \cup Special), Len(typed') <= MaxTyped
  PROVE  LineInv'
BY DEF LineInv, RingTypes, HistoryRight, InUse, Get, slot, ring, Upto

(* A step that writes only the slot of the next line leaves the lines in   *)
(* use as they are.                                                        *)
LEMMA LinesKept ==
  ASSUME LineInv, NEW line \in Seq(Char), Len(line) < Size,
         data' = [data EXCEPT ![slot] = line], UNCHANGED <<start, end, empty, lines>>
  PROVE  /\ HistoryRight' /\ slot' = slot /\ data'[slot] = line
         /\ data' \in [Ring -> Seq(Char)] /\ \A k \in Ring : Len(data'[k]) < Size
<1> USE CliAssumption DEF CliAssumption, LineInv, RingTypes
<1>1. slot' = slot /\ InUse' = InUse /\ \A k : Get(k)' = Get(k)
  BY DEF slot, Get, InUse
<1>2. slot \in Ring /\ \A k \in 0 .. ring_size - 2 : Get(k) \in Ring \ {slot}
  BY RingPlaces
<1>3. /\ data'[slot] = line /\ \A k \in Ring \ {slot} : data'[k] = data[k]
      /\ data' \in [Ring -> Seq(Char)] /\ \A k \in Ring : Len(data'[k]) < Size
  BY <1>2
<1>4. InUse \in Int /\ InUse <= ring_size - 1
  BY DEF HistoryRight
<1>5. \A k \in 0 .. InUse - 1 : data'[Get(k)] = lines[Len(lines) - k]
  BY <1>2, <1>3, <1>4 DEF HistoryRight
<1> QED BY <1>1, <1>3, <1>5 DEF HistoryRight

(* The last lines once one is added.                                       *)
LEMMA LastLinesSeq ==
  ASSUME NEW S, NEW s \in Seq(S), NEW x \in S, Len(s) <= ring_size
  PROVE  LET t == LastLines(Append(s, x))
         IN  /\ t \in Seq(S) /\ Len(t) = IF Len(s) < ring_size THEN Len(s) + 1 ELSE ring_size
             /\ t[Len(t)] = x
             /\ \A k \in 1 .. Len(t) - 1 : t[Len(t) - k] = s[Len(s) - (k - 1)]
<1>0. ring_size \in Nat /\ ring_size >= 2
  BY CliAssumption DEF CliAssumption
<1> DEFINE u == Append(s, x)
           m == IF Len(u) > ring_size THEN Len(u) - ring_size + 1 ELSE 1
           t == LastLines(u)
<1>1. /\ u \in Seq(S) /\ Len(u) = Len(s) + 1 /\ Len(s) \in Nat
      /\ u[Len(s) + 1] = x /\ \A k \in 1 .. Len(s) : u[k] = s[k]
  BY AppendProperties
<1> HIDE DEF u
<1>2. /\ m = (IF Len(s) = ring_size THEN 2 ELSE 1) /\ m <= Len(u)
      /\ \A k \in m .. Len(u) : u[k] \in S
  BY <1>0, <1>1
<1>3. /\ t \in Seq(S) /\ Len(t) = Len(u) - m + 1
      /\ \A k \in 1 .. Len(u) - m + 1 : t[k] = u[m + k - 1]
  BY <1>0, <1>1, <1>2, SubSeqProperties DEF LastLines
<1> HIDE DEF t, m
<1>4. Len(t) = IF Len(s) < ring_size THEN Len(s) + 1 ELSE ring_size
  <2>1. CASE Len(s) = ring_size
    BY <1>0, <1>1, <1>2, <1>3, <2>1
  <2>2. CASE Len(s) < ring_size
    BY <1>0, <1>1, <1>2, <1>3, <2>2
  <2> QED BY <1>0, <1>1, <2>1, <2>2
<1>5. t[Len(t)] = x
  BY <1>0, <1>1, <1>2, <1>3
<1>6. ASSUME NEW k \in 1 .. Len(t) - 1 PROVE t[Len(t) - k] = s[Len(s) - (k - 1)]
  <2>1. Len(t) - k \in 1 .. Len(u) - m + 1 /\ m + (Len(t) - k) - 1 = Len(u) - k
    BY <1>0, <1>1, <1>2, <1>3
  <2>2. Len(u) - k \in 1 .. Len(s) /\ Len(u) - k = Len(s) - (k - 1)
    BY <1>0, <1>1, <1>2, <1>3
  <2> QED BY <2>1, <2>2, <1>1, <1>3
<1> QED BY <1>3, <1>4, <1>5, <1>6 DEF u, t

-----------------------------------------------------------------------------
(* The steps of the console. *)

LEMMA LineCall ==
  ASSUME LineInv, UNCHANGED <<ring, typed, lines>>, reading' = TRUE, i' = 0, meant' = <<>>
  PROVE  LineInv'
<1> USE CliAssumption DEF CliAssumption
<1>1. slot \in Ring /\ slot' = slot
  BY RingPlaces DEF LineInv, RingTypes, slot, Get, ring
<1>2. Upto(data[slot], 0) = <<>>
  <2>1. data[slot] \in Seq(Char)
    BY <1>1 DEF LineInv, RingTypes
  <2>2. Upto(data[slot], 0) \in Seq(Char) /\ Len(Upto(data[slot], 0)) = 0
    BY <2>1, UptoSeq
  <2> QED BY <2>2, EmptySeq
<1>3. RingTypes'
  BY EmptySeq DEF LineInv, RingTypes, ring
<1>4. HistoryRight'
  BY DEF LineInv, HistoryRight, InUse, Get, ring
<1> QED BY <1>1, <1>2, <1>3, <1>4, EmptySeq DEF LineInv, ring

LEMMA LineLetter ==
  ASSUME LineInv, reading, NEW c \in Char, Letter(c),
         typed' \in Seq(Char \cup Special), Len(typed') <= MaxTyped
  PROVE  LineInv'
<1> DEFINE next == Append(meant, c)
<1>0. Size \in Nat /\ Size >= 1 /\ i \in 0 .. Size - 1
  BY CliAssumption DEF CliAssumption, LineInv, RingTypes
<1>1. /\ slot \in Ring /\ data[slot] \in Seq(Char) /\ meant \in Seq(Char)
      /\ Len(meant) = i /\ Upto(data[slot], i) = meant
  BY RingPlaces DEF LineInv, RingTypes
<1>2. next \in Seq(Char) /\ Len(next) = i + 1
  BY <1>1, AppendProperties
<1> HIDE DEF next
<1>3. CASE HasRoom /\ i' = i + 1 /\ data' = [data EXCEPT ![slot] = Append(Upto(@, i), c)]
  <2>1. i + 1 < Size /\ i + 1 \in Nat
    BY <1>0, <1>3 DEF HasRoom
  <2>2. meant' = next
    <3>1. Upto(next, Size - 1) = next
      BY <1>0, <1>2, <2>1, UptoWhole
    <3> QED BY <3>1 DEF Letter, next
  <2>3. data' = [data EXCEPT ![slot] = next]
    BY <1>1, <1>3 DEF next
  <2>4. /\ HistoryRight' /\ slot' = slot /\ data'[slot] = next
        /\ data' \in [Ring -> Seq(Char)] /\ \A k \in Ring : Len(data'[k]) < Size
    BY <1>2, <2>1, <2>3, LinesKept DEF Letter
  <2>5. Upto(next, i + 1) = next
    BY <1>2, <2>1, UptoWhole
  <2>6. RingTypes'
    BY <1>0, <1>2, <1>3, <2>1, <2>2, <2>4 DEF LineInv, RingTypes, Letter
  <2> QED BY <1>2, <1>3, <2>2, <2>4, <2>5, <2>6 DEF LineInv, Letter
<1>4. CASE ~HasRoom /\ UNCHANGED <<i, data>>
  <2>1. i = Size - 1
    BY <1>0, <1>4 DEF HasRoom
  <2>2. meant' = meant
    <3>1. Upto(next, Len(meant)) = meant
      BY <1>1, UptoAppend DEF next
    <3> QED BY <1>1, <2>1, <3>1 DEF Letter, next
  <2> QED BY <1>4, <2>2, LineKept DEF Letter, ring
<1> QED BY <1>3, <1>4 DEF Letter

LEMMA LineBackspace ==
  ASSUME LineInv, reading, Backspace,
         typed' \in Seq(Char \cup Special), Len(typed') <= MaxTyped
  PROVE  LineInv'
<1>0. Size \in Nat /\ Size >= 1 /\ i \in 0 .. Size - 1
  BY CliAssumption DEF CliAssumption, LineInv, RingTypes
<1>1. /\ slot \in Ring /\ data[slot] \in Seq(Char) /\ meant \in Seq(Char)
      /\ Len(meant) = i /\ Upto(data[slot], i) = meant
  BY RingPlaces DEF LineInv, RingTypes
<1>2. /\ meant' \in Seq(Char) /\ i' \in 0 .. Size - 1
      /\ Len(meant') = i' /\ Upto(data[slot], i') = meant'
  <2>1. CASE i > 0
    <3>1. i - 1 \in Nat /\ i' = i - 1 /\ meant' = Upto(meant, i - 1) /\ i - 1 <= i
      BY <1>0, <1>1, <2>1 DEF Backspace
    <3>2. Upto(meant, i - 1) = Upto(data[slot], i - 1)
      BY <1>0, <1>1, <3>1, UptoUpto
    <3>3. Upto(meant, i - 1) \in Seq(Char) /\ Len(Upto(meant, i - 1)) = i - 1
      BY <1>0, <1>1, <3>1, UptoSeq
    <3> QED BY <1>0, <3>1, <3>2, <3>3
  <2>2. CASE i = 0
    <3>1. meant = <<>>
      BY <1>1, <2>2, EmptySeq
    <3>2. meant' = SubSeq(meant, 1, -1)
      BY <1>1, <2>2 DEF Backspace, Upto
    <3>3. meant' = meant /\ i' = i
      BY <2>2, <3>1, <3>2, SubSeqEmpty DEF Backspace
    <3> QED BY <1>0, <1>1, <3>3
  <2> QED BY <1>0, <2>1, <2>2
<1>3. HistoryRight' /\ slot' = slot
  BY DEF LineInv, HistoryRight, InUse, Get, slot, Backspace, ring
<1>4. RingTypes'
  BY <1>2 DEF LineInv, RingTypes, Backspace, ring
<1> QED BY <1>2, <1>3, <1>4 DEF LineInv, Backspace, ring

(* The ended line becomes the latest, each of the others one older; the    *)
(* oldest is given up once all slots but one are in use.                   *)
LEMMA LineEnter ==
  ASSUME LineInv, reading, Enter,
         typed' \in Seq(Char \cup Special), Len(typed') <= MaxTyped
  PROVE  LineInv'
<1>0. ring_size \in Nat /\ ring_size >= 2
  BY CliAssumption DEF CliAssumption
<1>1. /\ slot \in Ring /\ data[slot] \in Seq(Char) /\ meant \in Seq(Char) /\ Len(meant) < Size
      /\ data' = [data EXCEPT ![slot] = meant]
  BY RingPlaces, CliAssumption DEF CliAssumption, LineInv, RingTypes, Enter
<1>2. /\ data'[slot] = meant /\ \A k \in Ring \ {slot} : data'[k] = data[k]
      /\ data' \in [Ring -> Seq(Char)] /\ \A k \in Ring : Len(data'[k]) < Size
  BY <1>1 DEF LineInv, RingTypes
<1>3. /\ start' = slot /\ start' = (IF start = ring_size - 1 THEN 0 ELSE start + 1)
      /\ end' = (IF start' # end THEN end ELSE IF end = ring_size - 1 THEN 0 ELSE end + 1)
      /\ empty' = FALSE
  BY <1>0, RingPlace, RingPlaces, CliAssumption DEF CliAssumption,
      Enter, Advance, LineInv, RingTypes, Ring
<1>4. /\ lines' \in Seq(Seq(Char))
      /\ Len(lines') = (IF Len(lines) < ring_size THEN Len(lines) + 1 ELSE ring_size)
      /\ lines'[Len(lines')] = meant
      /\ \A k \in 1 .. Len(lines') - 1 : lines'[Len(lines') - k] = lines[Len(lines) - (k - 1)]
  BY <1>1, LastLinesSeq DEF LineInv, RingTypes, Enter
<1>5. Len(lines) \in Nat /\ Len(lines) <= ring_size /\ lines' # <<>> /\ Len(lines') \in Nat
  BY <1>0, <1>4, EmptySeq DEF LineInv, RingTypes
<1>6. start' \in Ring /\ end' \in Ring /\ start' # end'
  BY <1>0, <1>3 DEF LineInv, RingTypes, Ring
<1>7. InUse = (IF Len(lines) < ring_size THEN Len(lines) ELSE ring_size - 1)
  BY DEF LineInv, HistoryRight
<1>8. InUse' = (IF Len(lines') < ring_size THEN Len(lines') ELSE ring_size - 1)
  <2>1. /\ start \in Ring /\ end \in Ring /\ (empty <=> start = end)
        /\ empty \in BOOLEAN /\ (empty <=> Len(lines) = 0)
    BY EmptySeq DEF LineInv, RingTypes
  <2>3. InUse = IF start >= end THEN start - end ELSE start - end + ring_size
    BY <2>1, CliAssumption, RingUsed DEF CliAssumption, Ring, InUse
  <2> DEFINE s1 == start'
             e1 == end'
             b1 == empty'
  <2>4. /\ s1 \in Ring /\ e1 \in Ring /\ s1 # e1
        /\ InUse' = IF (s1 - e1 + ring_size) % ring_size = 0 /\ ~b1
                    THEN ring_size ELSE (s1 - e1 + ring_size) % ring_size
    BY <1>6 DEF InUse
  <2> HIDE DEF s1, e1, b1
  <2>5. InUse' = IF s1 > e1 THEN s1 - e1 ELSE s1 - e1 + ring_size
    <3>1. InUse' = IF s1 >= e1 THEN s1 - e1 ELSE s1 - e1 + ring_size
      BY <2>4, CliAssumption, RingUsed DEF CliAssumption, Ring
    <3>2. s1 \in Int /\ e1 \in Int
      BY <2>4 DEF Ring
    <3> QED BY <3>1, <3>2, <2>4
  <2>6. (IF start >= end THEN start - end ELSE start - end + ring_size)
          = (IF Len(lines) < ring_size THEN Len(lines) ELSE ring_size - 1)
    BY <1>7, <2>3
  <2>7. (IF s1 > e1 THEN s1 - e1 ELSE s1 - e1 + ring_size)
          = (IF Len(lines) + 1 < ring_size THEN Len(lines) + 1 ELSE ring_size - 1)
    <3>1. Len(lines) \in 0 .. ring_size /\ ring_size \in Nat \ {0, 1}
      BY <1>0, <1>5
    <3>2. /\ s1 = (IF start = ring_size - 1 THEN 0 ELSE start + 1)
          /\ e1 = (IF s1 # end THEN end ELSE IF end = ring_size - 1 THEN 0 ELSE end + 1)
      BY <1>3 DEF s1, e1
    <3> QED BY <3>1, <3>2, <2>1, <2>6, RingCount DEF Ring
  <2>8. InUse' = (IF Len(lines) + 1 < ring_size THEN Len(lines) + 1 ELSE ring_size - 1)
    BY <2>5, <2>7
  <2> DEFINE l == Len(lines)
             l1 == Len(lines')
             u1 == InUse'
  <2>9. /\ l \in Nat /\ l <= ring_size /\ l1 = (IF l < ring_size THEN l + 1 ELSE ring_size)
        /\ u1 = (IF l + 1 < ring_size THEN l + 1 ELSE ring_size - 1)
    BY <1>4, <1>5, <2>8
  <2> HIDE DEF l, l1, u1
  <2>10. u1 = (IF l1 < ring_size THEN l1 ELSE ring_size - 1)
    BY <1>0, <2>9
  <2> QED BY <2>10 DEF l1, u1
<1>9. \A k \in 0 .. InUse' - 1 : data'[Get(k)'] = lines'[Len(lines') - k]
  <2> SUFFICES ASSUME NEW k \in 0 .. InUse' - 1
               PROVE  data'[Get(k)'] = lines'[Len(lines') - k]
    OBVIOUS
  <2>1. \A m \in Ring : Get(m)' = IF m <= start' THEN start' - m ELSE start' - m + ring_size
    BY <1>6, CliAssumption, RingPlace DEF CliAssumption, Ring, Get
  <2>2. CASE k = 0
    <3> DEFINE s1 == start'
               g1 == Get(k)'
               n1 == Len(lines')
    <3>1. 0 \in Ring /\ s1 \in Int /\ 0 <= s1
      BY <1>0, <1>6 DEF Ring
    <3>2. g1 = IF k <= s1 THEN s1 - k ELSE s1 - k + ring_size
      BY <2>1, <2>2, <3>1
    <3>3. n1 \in Nat
      BY <1>5
    <3> HIDE DEF s1, g1, n1
    <3>4. g1 = s1 /\ n1 - k = n1
      BY <2>2, <3>1, <3>2, <3>3
    <3>5. s1 = slot
      BY <1>3 DEF s1
    <3> QED BY <1>2, <1>4, <3>4, <3>5 DEF g1, n1
  <2>3. CASE k > 0
    <3>1. k - 1 \in 0 .. InUse - 1 /\ k \in Ring /\ k \in 1 .. Len(lines') - 1
          /\ k - 1 \in 0 .. ring_size - 2
      BY <1>0, <1>4, <1>5, <1>7, <1>8, <2>3 DEF Ring
    <3>2. Get(k)' = Get(k - 1) /\ Get(k - 1) \in Ring \ {slot}
      <4>1. Get(k - 1) \in Ring \ {slot}
        BY <3>1, RingPlaces DEF LineInv, RingTypes
      <4>2. start \in Ring /\ k - 1 \in Ring
        BY <1>0, <3>1 DEF LineInv, RingTypes, Ring
      <4>3. Get(k - 1) = IF k - 1 <= start THEN start - (k - 1) ELSE start - (k - 1) + ring_size
        BY <4>2, CliAssumption, RingPlace DEF CliAssumption, Ring, Get
      <4>4. Get(k)' = IF k <= start' THEN start' - k ELSE start' - k + ring_size
        BY <2>1, <3>1
      <4> DEFINE s1 == start'
                 g1 == Get(k)'
      <4>5. /\ s1 = (IF start = ring_size - 1 THEN 0 ELSE start + 1)
            /\ g1 = IF k <= s1 THEN s1 - k ELSE s1 - k + ring_size
        BY <1>3, <4>4
      <4> HIDE DEF s1, g1
      <4>6. g1 = Get(k - 1)
        BY <1>0, <3>1, <4>2, <4>3, <4>5 DEF Ring
      <4> QED BY <4>1, <4>6 DEF g1
    <3>3. data[Get(k - 1)] = lines[Len(lines) - (k - 1)]
      BY <3>1 DEF LineInv, HistoryRight
    <3> QED BY <1>2, <1>4, <3>1, <3>2, <3>3
  <2> QED BY <2>2, <2>3
<1>10. RingTypes'
  <2>1. Len(lines') <= ring_size
    BY <1>0, <1>4, <1>5
  <2> QED BY <2>1, <1>0, <1>1, <1>2, <1>3, <1>4, <1>5, <1>6 DEF LineInv, RingTypes, Enter
<1>11. HistoryRight'
  BY <1>8, <1>9 DEF HistoryRight
<1> QED BY <1>3, <1>5, <1>6, <1>10, <1>11 DEF LineInv, Enter

LEMMA LineStep == LineInv /\ [Next]_vars => LineInv'
<1> SUFFICES ASSUME LineInv, [Next]_vars PROVE LineInv'
  OBVIOUS
<1>0. typed \in Seq(Char \cup Special) /\ Len(typed) <= MaxTyped
  BY DEF LineInv, RingTypes
<1>1. CASE UNCHANGED cliVars
  BY <1>0, <1>1, LineKept DEF cliVars
<1>2. ASSUME NEW c \in Char \cup Special, Type(c) PROVE LineInv'
  <2>1. typed' \in Seq(Char \cup Special) /\ Len(typed') = Len(typed) + 1
    BY <1>0, <1>2, AppendProperties DEF Type
  <2>2. Len(typed') <= MaxTyped
    BY <1>0, <1>2, <2>1, CliAssumption DEF Type, CliAssumption
  <2> QED BY <1>2, <2>1, <2>2, LineKept DEF Type
<1>3. CASE Call
  BY <1>3, LineCall DEF Call
<1>4. CASE NoConsole
  <2>1. slot \in Ring /\ data[slot] \in Seq(Char) /\ i \in Nat /\ i < Size
    BY RingPlaces, CliAssumption DEF LineInv, RingTypes, CliAssumption
  <2>2. Upto(data[slot], i) = meant /\ Len(meant) = i /\ meant \in Seq(Char)
    BY <1>4 DEF NoConsole, LineInv, RingTypes
  <2>3. data' = [data EXCEPT ![slot] = meant]
    BY <1>4, <2>2 DEF NoConsole
  <2>4. /\ HistoryRight' /\ data' \in [Ring -> Seq(Char)]
        /\ \A k \in Ring : Len(data'[k]) < Size
    BY <1>4, <2>1, <2>2, <2>3, LinesKept DEF NoConsole
  <2>5. RingTypes'
    BY <1>4, <2>4 DEF NoConsole, LineInv, RingTypes
  <2> QED BY <1>4, <2>4, <2>5 DEF NoConsole, LineInv
<1>5. CASE GetChar
  <2>1. typed' \in Seq(Char \cup Special) /\ Len(typed') = Len(typed) - 1
        /\ Head(typed) \in Char \cup Special
    BY <1>0, <1>5, HeadTailProperties DEF GetChar
  <2>2. Len(typed') <= MaxTyped
    BY <1>0, <2>1, CliAssumption DEF CliAssumption
  <2>3. CASE Head(typed) = "backspace"
    BY <1>5, <2>1, <2>2, <2>3, LineBackspace DEF GetChar
  <2>4. CASE Head(typed) = "return"
    BY <1>5, <2>1, <2>2, <2>4, LineEnter DEF GetChar
  <2>5. CASE Head(typed) \notin Special
    BY <1>5, <2>1, <2>2, <2>5, LineLetter DEF GetChar, Special
  <2> QED BY <2>3, <2>4, <2>5 DEF Special
<1> QED BY <1>1, <1>2, <1>3, <1>4, <1>5 DEF Next, vars, Special

(* The past lines are those that were typed, latest first, while the next  *)
(* is read into the ring among them, for any size of the ring and of its   *)
(* lines.                                                                  *)
THEOREM HistoryAlwaysRight == Spec => []HistoryRight
<1>1. Init => LineInv
  BY LineStart DEF Init
<1>2. LineInv => HistoryRight
  BY DEF LineInv
<1> QED BY <1>1, <1>2, LineStep, PTL DEF Spec

(* The errors and devices of the system calls.                             *)
Registered ==
  /\ devices \subseteq {"uart", "fs"}
  /\ error \in {"none", "ENXIO", "ENFILE", "EBADF", "littlefs"}

LEMMA RegisteredStep == Registered /\ [Next]_vars => Registered'
<1> SUFFICES ASSUME Registered, [Next]_vars PROVE Registered'
  OBVIOUS
<1> USE DEF Registered
<1>1. CASE UNCHANGED sysVars
  BY <1>1 DEF sysVars
<1>2. CASE SysCalls
  <2>1. ASSUME NEW e \in {"ENXIO", "ENFILE", "EBADF", "littlefs"}, Fail(e) PROVE Registered'
    BY <2>1 DEF Fail
  <2>2. ASSUME NEW device \in {"uart", "fs"}, Register(device) PROVE Registered'
    BY <2>2 DEF Register
  <2>3. ASSUME NEW name \in Name, NEW flags \in Flags, Open(name, flags) PROVE Registered'
    BY <2>1, <2>3 DEF Open
  <2>4. ASSUME NEW h \in held, NEW access \in SUBSET Asked(h.flags), Use(h.fd, access)
        PROVE  Registered'
    BY <2>4 DEF Use
  <2>5. ASSUME NEW s \in Slot, Close(Fd(s)) PROVE Registered'
    BY <2>1, <2>5 DEF Close, AssertFails
  <2> QED BY <1>2, <2>2, <2>3, <2>4, <2>5 DEF SysCalls
<1> QED BY <1>1, <1>2 DEF Next, SysNext, vars, Type, Call, NoConsole, GetChar

(* Every variable stays in its range, and every line in its buffer.        *)
THEOREM ConsoleTypeCorrect == Spec => []TypeOK
<1> DEFINE Inv == SlotInv /\ LineInv /\ Registered
<1>1. Init => Inv
  BY LineStart, SlotInit DEF Init, SysInit, Registered
<1>2. Inv /\ [Next]_vars => Inv'
  BY SlotNext, LineStep, RegisteredStep
<1>3. Inv => TypeOK
  <2> SUFFICES ASSUME Inv PROVE TypeOK
    OBVIOUS
  <2>1. SysTypeOK
    BY DescriptorSlot DEF SlotInv, SlotTypes, Registered, SysTypeOK, File
  <2> QED BY <2>1 DEF LineInv, RingTypes, TypeOK, Ring, Special
<1> QED BY <1>1, <1>2, <1>3, PTL DEF Spec
=============================================================================
