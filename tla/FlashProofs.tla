---------------------------- MODULE FlashProofs ----------------------------
(***************************************************************************)
(* The invariants of Flash, and that it implements BlockDevice, for any    *)
(* geometry and any contents. Liveness is left to TLC.                     *)
(***************************************************************************)
EXTENDS Flash, TLAPS

IInv ==
  /\ TypeOK
  /\ PcMatchesCall
  /\ QuietAfterWait
  /\ LatchHeld
  /\ NoLostWrite

-----------------------------------------------------------------------------
(* The page of an address, and back: c->block_size * block + off names the *)
(* page of that block at that offset and no other.                         *)
LEMMA AddrParts ==
  ASSUME NEW b \in 0 .. NBlocks - 1, NEW o \in 0 .. BlockPages - 1
  PROVE  /\ Addr(b, o) \in Page
         /\ Addr(b, o) \div BlockPages = b
         /\ Addr(b, o) % BlockPages = o
<1> DEFINE n == BlockPages
           a == Addr(b, o)
           q == a \div n
           r == a % n
<1>1. n \in Nat \ {0} /\ NBlocks \in Nat \ {0} /\ b \in Nat /\ o \in Nat /\ o < n
  BY FlashAssumption
<1>2. a = n * b + o /\ a \in Nat
  BY <1>1, Z3 DEF Addr
<1>3. a = n * q + r /\ q \in Int /\ r \in 0 .. n - 1
  BY <1>1, <1>2, Z3
<1>4. n * (b - q) = r - o
  BY <1>1, <1>2, <1>3, Z3
<1>5. b - q = 0
  <2> DEFINE d == b - q
  <2>1. d \in Int /\ n * d < n /\ n * d > -n
    BY <1>1, <1>3, <1>4
  <2> HIDE DEF d, n
  <2>2. ~(d >= 1)
    BY <1>1, <2>1, Z3
  <2>3. ~(d <= -1)
    BY <1>1, <2>1, Z3
  <2>4. d = 0
    BY <2>1, <2>2, <2>3
  <2> QED BY <2>4 DEF d
<1>6. q = b /\ r = o
  <2>1. q = b
    BY <1>1, <1>3, <1>5
  <2>2. a = n * b + r
    BY <1>3, <2>1
  <2> HIDE DEF a, q, r
  <2>3. n * b \in Int /\ r \in Int /\ o \in Int
    BY <1>1, <1>3
  <2>4. r = o
    BY <1>2, <2>2, <2>3
  <2> QED BY <2>1, <2>4
<1>7. a \in Page
  <2>1. n * b <= n * (NBlocks - 1)
    BY <1>1, Z3
  <2> QED BY <1>1, <1>2, <2>1, Z3 DEF Page
<1> QED BY <1>6, <1>7

-----------------------------------------------------------------------------
(* The calls, field by field, and the operation the driver asks of the chip.*)
LEMMA CallShape ==
  ASSUME NEW r \in Device!Calls
  PROVE  /\ r # None
         /\ r.op \in {"read", "prog", "erase", "sync"}
         /\ r.block \in 0 .. NBlocks - 1 /\ r.off \in 0 .. BlockPages - 1
         /\ r.op \in {"prog", "erase"} =>
              /\ r \in Device!Operations
              /\ r.data \in Data \cup {Erased, Torn}
         /\ r.op = "erase" => r.off = 0
<1> USE FlashAssumption
<1>1. r # None
  OBVIOUS
<1>2. /\ r.op \in {"read", "prog", "erase", "sync"}
      /\ r.block \in 0 .. NBlocks - 1 /\ r.off \in 0 .. BlockPages - 1
  BY DEF Device!Calls, Device!Operations, Device!Reads, Device!Progs,
     Device!Erases, Device!Syncs, Device!Block, Device!Offset
<1>3. /\ r.op \in {"prog", "erase"} =>
           r \in Device!Operations /\ r.data \in Data \cup {Erased, Torn}
      /\ r.op = "erase" => r.off = 0
  BY DEF Device!Calls, Device!Operations, Device!Reads, Device!Progs,
     Device!Erases, Device!Syncs
<1> QED BY <1>1, <1>2, <1>3

LEMMA OperationShape ==
  ASSUME req \in Device!Calls, req.op \in {"prog", "erase"}
  PROVE  /\ Operation \in ChipOperations
         /\ [Operation EXCEPT !.data = Torn] \in ChipOperations
         /\ [Operation EXCEPT !.data = Torn]
              = [op |-> req.op, page |-> Operation.page, data |-> Torn]
BY CallShape, AddrParts DEF Operation, ChipOperations

-----------------------------------------------------------------------------
LEMMA InitIInv == Init => IInv
BY DEF Init, IInv, TypeOK, PcMatchesCall, QuietAfterWait, LatchHeld, NoLostWrite

LEMMA CallIInv ==
  ASSUME IInv, NEW r \in Device!Calls, Call(r)
  PROVE  IInv'
<1>1. r # None
  BY CallShape
<1> QED BY <1>1 DEF Call, IInv, TypeOK, PcMatchesCall, QuietAfterWait, LatchHeld,
           NoLostWrite

(* Starting an operation, when the driver is done with its call.           *)
LEMMA StartIInv ==
  ASSUME IInv, NEW o \in ChipOperations, ChipStart(o), UNCHANGED mem,
         pc' = "idle", req' = None, value' \in {value, None},
         result' # None => result'.returned = 1 /\ result'.taken
  PROVE  IInv'
BY DEF IInv, TypeOK, PcMatchesCall, QuietAfterWait, LatchHeld, NoLostWrite,
   ChipStart

LEMMA DriverIInv == IInv /\ Driver => IInv'
<1> SUFFICES ASSUME IInv, Driver PROVE IInv'
  OBVIOUS
<1> USE DEF IInv, PcMatchesCall, QuietAfterWait, LatchHeld, NoLostWrite
<1>1. CASE WaitBusy
  BY <1>1, CallShape DEF WaitBusy, Return, Ready, TypeOK
<1>2. CASE ReadData
  <2>1. Addr(req.block, req.off) \in Page
    BY <1>2, CallShape, AddrParts DEF ReadData, TypeOK
  <2> QED BY <1>2, <2>1 DEF ReadData, Return, TypeOK
<1>3. CASE WriteEnable
  <2>1. Ready /\ Ready'
    BY <1>3 DEF WriteEnable, Ready
  <2>2. wel' = TRUE
    BY <1>3, <2>1 DEF WriteEnable, ChipWriteEnable
  <2>3. TypeOK'
    BY <1>3, <2>2 DEF WriteEnable, TypeOK
  <2> QED BY <1>3, <2>1, <2>2, <2>3 DEF WriteEnable
<1>4. CASE CheckEnabled
  BY <1>4 DEF CheckEnabled, Ready, TypeOK
<1>5. CASE CommandErase
  <2>1. Operation \in ChipOperations
    BY <1>5, OperationShape DEF CommandErase, TypeOK
  <2>2. Taken.returned = 1 /\ Taken.taken
    BY <1>5 DEF CommandErase, Taken
  <2> QED BY <1>5, <2>1, <2>2, StartIInv DEF CommandErase, Return
<1>6. CASE CommandProgram
  BY <1>6 DEF CommandProgram, Ready, TypeOK
<1>7. CASE ProgramData
  <2>1. Operation \in ChipOperations
    BY <1>7, OperationShape DEF ProgramData, TypeOK
  <2>2. Taken.returned = 1 /\ Taken.taken
    BY <1>7 DEF ProgramData, Taken
  <2> QED BY <1>7, <2>1, <2>2, StartIInv DEF ProgramData, Return
<1> QED BY <1>1, <1>2, <1>3, <1>4, <1>5, <1>6, <1>7 DEF Driver

LEMMA ChipIInv == IInv /\ ChipComplete => IInv'
<1> SUFFICES ASSUME IInv, ChipComplete PROVE IInv'
  OBVIOUS
<1>1. chip \in ChipOperations
  BY DEF ChipComplete, Ready, IInv, TypeOK
<1>2. mem' \in [Page -> Data \cup {Erased, Torn, Mixed}]
  BY <1>1 DEF ChipComplete, IInv, TypeOK, ChipOperations
<1>3. pc \in {"idle", "wait"}
  BY DEF ChipComplete, IInv, TypeOK, QuietAfterWait
<1> QED BY <1>2, <1>3 DEF ChipComplete, IInv, TypeOK, PcMatchesCall,
           QuietAfterWait, LatchHeld, NoLostWrite

LEMMA FailureIInv == IInv /\ (PowerLoss \/ Restart) => IInv'
<1> SUFFICES ASSUME IInv, PowerLoss \/ Restart PROVE IInv'
  OBVIOUS
<1>1. CASE PowerLoss
  <2>1. mem' \in [Page -> Data \cup {Erased, Torn, Mixed}]
    BY <1>1 DEF PowerLoss, IInv, TypeOK
  <2> QED BY <1>1, <2>1 DEF PowerLoss, Reset, IInv, TypeOK, PcMatchesCall,
             QuietAfterWait, LatchHeld, NoLostWrite
<1>2. CASE Restart /\ pc = "data"
  <2>1. [Operation EXCEPT !.data = Torn] \in ChipOperations
    BY <1>2, OperationShape DEF IInv, TypeOK, PcMatchesCall
  <2> QED BY <1>2, <2>1, StartIInv DEF Restart, Reset
<1>3. CASE Restart /\ pc # "data"
  BY <1>3 DEF Restart, Reset, IInv, TypeOK, PcMatchesCall, QuietAfterWait,
     LatchHeld, NoLostWrite
<1> QED BY <1>1, <1>2, <1>3

LEMMA NextIInv == IInv /\ [Next]_vars => IInv'
<1> SUFFICES ASSUME IInv, [Next]_vars PROVE IInv'
  OBVIOUS
<1>1. CASE UNCHANGED vars
  BY <1>1 DEF vars, IInv, TypeOK, PcMatchesCall, QuietAfterWait, LatchHeld,
     NoLostWrite, Ready
<1> QED BY <1>1, CallIInv, DriverIInv, ChipIInv, FailureIInv DEF Next

(* The inductive invariant holds throughout.                               *)
THEOREM Invariance == Spec => []IInv
<1>1. Init => IInv
  BY InitIInv
<1>2. IInv /\ [Next]_vars => IInv'
  BY NextIInv
<1> QED BY <1>1, <1>2, PTL DEF Spec

(* Type correctness.                                                       *)
THEOREM TypeCorrect == Spec => []TypeOK
BY Invariance, PTL DEF IInv

(* After flash_wait_busy the chip stays idle and, once enabled, writable,  *)
(* until the command: no operation of littlefs is ever dropped.            *)
THEOREM NothingDropped == Spec => [](QuietAfterWait /\ LatchHeld /\ NoLostWrite)
BY Invariance, PTL DEF IInv


-----------------------------------------------------------------------------
(* Refinement.                                                             *)

LEMMA PageParts ==
  ASSUME NEW p \in Page
  PROVE  /\ p \div BlockPages \in 0 .. NBlocks - 1
         /\ p % BlockPages \in 0 .. BlockPages - 1
         /\ p = Addr(p \div BlockPages, p % BlockPages)
<1> DEFINE n == BlockPages
           q == p \div n
           r == p % n
<1>1. n \in Nat \ {0} /\ NBlocks \in Nat \ {0}
  BY FlashAssumption
<1>2. p \in Nat /\ p < NBlocks * n
  BY <1>1, Z3 DEF Page
<1>3. p = n * q + r /\ q \in Int /\ r \in 0 .. n - 1
  BY <1>1, <1>2, Z3
<1>4. q >= 0
  <2> HIDE DEF q, r
  <2>1. ~(q <= -1)
    BY <1>1, <1>2, <1>3, Z3
  <2> QED BY <1>3, <2>1
<1>5. q < NBlocks
  <2> HIDE DEF q, r
  <2>1. ~(q >= NBlocks)
    <3> SUFFICES ASSUME q >= NBlocks PROVE FALSE
      OBVIOUS
    <3>1. n * q >= n * NBlocks
      BY <1>1, <1>3, Z3
    <3> QED BY <1>1, <1>2, <1>3, <3>1, Z3
  <2> QED BY <1>1, <1>3, <2>1
<1> QED BY <1>1, <1>3, <1>4, <1>5 DEF Addr

(* The pages the chip touches are those the abstract operation writes. *)
LEMMA TouchesIsWrites ==
  ASSUME chip \in ChipOperations,
         NEW b \in 0 .. NBlocks - 1, NEW o \in 0 .. BlockPages - 1
  PROVE  Touches(chip, Addr(b, o)) <=> Device!Writes(Pending, b, o)
<1> DEFINE p == chip.page
<1>1. p \in Page /\ chip.op \in {"prog", "erase"} /\ chip # None
  BY FlashAssumption DEF ChipOperations
<1>2. /\ Pending.op = chip.op
      /\ Pending.block = p \div BlockPages /\ Pending.off = p % BlockPages
  BY <1>1 DEF Pending
<1>3. Addr(b, o) = p <=> b = p \div BlockPages /\ o = p % BlockPages
  BY <1>1, AddrParts, PageParts
<1>4. Addr(b, o) \div BlockPages = b
  BY AddrParts
<1> QED BY <1>1, <1>2, <1>3, <1>4 DEF Touches, Device!Writes

LEMMA InitRefines == Init => Device!Init
<1> SUFFICES ASSUME Init PROVE Device!Init
  OBVIOUS
<1>1. ASSUME NEW x \in (0 .. NBlocks - 1) \X (0 .. BlockPages - 1)
      PROVE  mem[BlockPages * x[1] + x[2]] \in Data \cup {Erased, Torn, Mixed}
  <2>1. Addr(x[1], x[2]) \in Page
    BY AddrParts
  <2> QED BY <2>1 DEF Init, Addr
<1>2. Disk \in [(0 .. NBlocks - 1) \X (0 .. BlockPages - 1) ->
                  Data \cup {Erased, Torn, Mixed}]
  BY <1>1 DEF Disk
<1> QED BY <1>2 DEF Init, Pending, Device!Init, Device!Block, Device!Offset,
           Device!Content

(* Taking the operation that the call asks for. *)
LEMMA StartRefines ==
  ASSUME IInv, pc \in {"command", "data"}, ChipStart(Operation),
         UNCHANGED <<mem, value>>, req' = None
  PROVE  Device!Accept
<1>1. /\ req \in Device!Calls /\ req # None /\ req.op \in {"prog", "erase"}
      /\ Ready /\ wel
  BY CallShape DEF IInv, TypeOK, PcMatchesCall, QuietAfterWait, LatchHeld
<1>2. chip' = Operation /\ Operation # None
  BY <1>1, OperationShape, FlashAssumption DEF ChipStart
<1>3. Pending' = [op |-> req.op, block |-> req.block, off |-> req.off,
                  data |-> req.data]
  <2>1. /\ Operation.op = req.op /\ Operation.data = req.data
        /\ Operation.page \div BlockPages = req.block
        /\ Operation.page % BlockPages = req.off
    BY <1>1, CallShape, AddrParts DEF Operation
  <2> QED BY <1>2, <2>1 DEF Pending
<1>4. req = [op |-> req.op, block |-> req.block, off |-> req.off,
             data |-> req.data]
  BY <1>1, CallShape DEF Device!Operations, Device!Progs, Device!Erases
<1>5. Pending = None
  BY <1>1 DEF Pending, Ready
<1> QED BY <1>1, <1>3, <1>4, <1>5 DEF Device!Accept, Disk

LEMMA DriverRefines ==
  IInv /\ Driver => Device!Next \/ UNCHANGED Device!vars
<1> SUFFICES ASSUME IInv, Driver PROVE Device!Next \/ UNCHANGED Device!vars
  OBVIOUS
<1> USE DEF Device!vars
<1>1. CASE WaitBusy
  <2>1. UNCHANGED <<Disk, Pending, value>> /\ Pending = None
    BY <1>1 DEF WaitBusy, Disk, Pending, Ready
  <2>2. CASE req' = req
    BY <2>1, <2>2
  <2>3. CASE req.op = "sync" /\ req' = None
    <3>1. req # None
      BY <1>1 DEF WaitBusy, IInv, PcMatchesCall
    <3> QED BY <2>1, <2>3, <3>1 DEF Device!Next, Device!SyncReturns
  <2> QED BY <1>1, <2>2, <2>3 DEF WaitBusy, Return
<1>2. CASE ReadData
  <2>1. /\ req \in Device!Calls /\ req # None /\ req.op = "read" /\ Ready
    BY <1>2 DEF ReadData, IInv, TypeOK, PcMatchesCall, QuietAfterWait
  <2>2. value' = Disk[<<req.block, req.off>>]
    BY <1>2, <2>1, CallShape DEF ReadData, Disk, Addr
  <2>3. UNCHANGED <<Disk, Pending>> /\ Pending = None /\ req' = None
    BY <1>2, <2>1 DEF ReadData, Return, Disk, Pending, Ready
  <2> QED BY <2>1, <2>2, <2>3 DEF Device!Next, Device!ReadReturns
<1>3. CASE WriteEnable
  BY <1>3 DEF WriteEnable, Disk, Pending
<1>4. CASE CheckEnabled
  BY <1>4 DEF CheckEnabled, IInv, LatchHeld, Disk, Pending
<1>5. CASE CommandErase
  BY <1>5, StartRefines DEF CommandErase, Return, Device!Next
<1>6. CASE CommandProgram
  BY <1>6 DEF CommandProgram, Disk, Pending
<1>7. CASE ProgramData
  BY <1>7, StartRefines DEF ProgramData, Return, Device!Next
<1> QED BY <1>1, <1>2, <1>3, <1>4, <1>5, <1>6, <1>7 DEF Driver

LEMMA CompleteRefines == IInv /\ ChipComplete => Device!Complete
<1> SUFFICES ASSUME IInv, ChipComplete PROVE Device!Complete
  OBVIOUS
<1>1. chip \in ChipOperations /\ chip # None
  BY DEF ChipComplete, Ready, IInv, TypeOK
<1>2. Pending.op = chip.op /\ Pending.data = chip.data
  BY <1>1 DEF Pending
<1>3. ASSUME NEW x \in (0 .. NBlocks - 1) \X (0 .. BlockPages - 1)
      PROVE  mem'[BlockPages * x[1] + x[2]] =
               IF Device!Writes(Pending, x[1], x[2])
               THEN Device!Written(Pending, Disk[x]) ELSE Disk[x]
  <2>1. x[1] \in 0 .. NBlocks - 1 /\ x[2] \in 0 .. BlockPages - 1
    OBVIOUS
  <2>2. Touches(chip, Addr(x[1], x[2])) <=> Device!Writes(Pending, x[1], x[2])
    BY <1>1, <2>1, TouchesIsWrites
  <2>3. Addr(x[1], x[2]) \in Page /\ Disk[x] = mem[Addr(x[1], x[2])]
    BY <2>1, AddrParts DEF Disk, Addr
  <2>4. mem'[Addr(x[1], x[2])] =
          IF ~Touches(chip, Addr(x[1], x[2])) THEN mem[Addr(x[1], x[2])]
          ELSE IF chip.op = "prog" /\ mem[Addr(x[1], x[2])] # Erased THEN Mixed
          ELSE chip.data
    BY <2>3 DEF ChipComplete
  <2>5. mem'[Addr(x[1], x[2])] =
          IF Device!Writes(Pending, x[1], x[2])
          THEN Device!Written(Pending, Disk[x]) ELSE Disk[x]
    BY <1>2, <2>2, <2>3, <2>4 DEF Device!Written
  <2> QED BY <2>5 DEF Addr
<1>4. Disk' = [x \in (0 .. NBlocks - 1) \X (0 .. BlockPages - 1) |->
                 IF Device!Writes(Pending, x[1], x[2])
                 THEN Device!Written(Pending, Disk[x]) ELSE Disk[x]]
  BY <1>3 DEF Disk
<1>5. Pending # None
  <2>1. /\ chip.page \in Page /\ chip.op \in {"prog", "erase"}
        /\ chip.data \in Data \cup {Erased, Torn}
    BY <1>1 DEF ChipOperations
  <2>2. Pending \in [op : {"prog", "erase"}, block : Device!Block,
                     off : Device!Offset, data : Data \cup {Erased, Torn}]
    BY <1>1, <2>1, PageParts DEF Pending, Device!Block, Device!Offset
  <2> QED BY <2>2, FlashAssumption
<1>6. Pending' = None /\ UNCHANGED <<req, value>>
  BY DEF ChipComplete, Pending
<1> QED BY <1>4, <1>5, <1>6 DEF Device!Complete, Device!Block, Device!Offset

LEMMA PowerLossRefines == IInv /\ PowerLoss => Device!PowerLoss
<1> SUFFICES ASSUME IInv, PowerLoss PROVE Device!PowerLoss
  OBVIOUS
<1>1. Pending # None <=> ~Ready
  <2>1. CASE Ready
    BY <2>1 DEF Pending, Ready
  <2>2. CASE ~Ready
    <3>1. chip \in ChipOperations
      BY <2>2 DEF Ready, IInv, TypeOK
    <3>2. Pending \in [op : {"prog", "erase"}, block : Device!Block,
                       off : Device!Offset, data : Data \cup {Erased, Torn}]
      BY <2>2, <3>1, PageParts
         DEF Pending, Ready, ChipOperations, Device!Block, Device!Offset
    <3> QED BY <2>2, <3>2, FlashAssumption
  <2> QED BY <2>1, <2>2
<1>2. ASSUME NEW x \in (0 .. NBlocks - 1) \X (0 .. BlockPages - 1)
      PROVE  mem'[BlockPages * x[1] + x[2]] =
               IF Pending # None /\ Device!Writes(Pending, x[1], x[2])
               THEN Torn ELSE Disk[x]
  <2>1. x[1] \in 0 .. NBlocks - 1 /\ x[2] \in 0 .. BlockPages - 1
    OBVIOUS
  <2>2. ~Ready => (Touches(chip, Addr(x[1], x[2]))
                     <=> Device!Writes(Pending, x[1], x[2]))
    BY <2>1, TouchesIsWrites DEF Ready, IInv, TypeOK
  <2>3. Addr(x[1], x[2]) \in Page /\ Disk[x] = mem[Addr(x[1], x[2])]
    BY <2>1, AddrParts DEF Disk, Addr
  <2>4. mem'[Addr(x[1], x[2])] =
          IF ~Ready /\ Touches(chip, Addr(x[1], x[2])) THEN Torn
          ELSE mem[Addr(x[1], x[2])]
    BY <2>3 DEF PowerLoss
  <2> QED BY <1>1, <2>2, <2>3, <2>4 DEF Addr
<1>3. Disk' = [x \in (0 .. NBlocks - 1) \X (0 .. BlockPages - 1) |->
                 IF Pending # None /\ Device!Writes(Pending, x[1], x[2])
                 THEN Torn ELSE Disk[x]]
  BY <1>2 DEF Disk
<1> QED BY <1>3 DEF PowerLoss, Reset, Pending, Device!PowerLoss, Device!Block,
           Device!Offset

LEMMA RestartRefines == IInv /\ Restart => Device!Restart
<1> SUFFICES ASSUME IInv, Restart PROVE Device!Restart
  OBVIOUS
<1>1. req' = None /\ value' = None /\ UNCHANGED Disk
  BY DEF Restart, Reset, Disk
<1>2. CASE pc # "data"
  <2>1. UNCHANGED Pending
    BY <1>2 DEF Restart, Pending
  <2> QED BY <1>1, <2>1 DEF Device!Restart
<1>3. CASE pc = "data"
  <2>1. /\ req \in Device!Calls /\ req # None /\ req.op = "prog"
        /\ Ready /\ wel
    BY <1>3, CallShape DEF IInv, TypeOK, PcMatchesCall, QuietAfterWait, LatchHeld
  <2>2. chip' = [Operation EXCEPT !.data = Torn] /\ chip' \in ChipOperations
    BY <1>3, <2>1, OperationShape DEF Restart, ChipStart
  <2>3. /\ chip' # None
        /\ chip'.op = req.op /\ chip'.page = Addr(req.block, req.off)
        /\ chip'.data = Torn
    BY <2>1, <2>2, OperationShape, FlashAssumption DEF Operation
  <2>4. Pending' = [op |-> req.op, block |-> req.block, off |-> req.off,
                    data |-> Torn]
    BY <2>1, <2>3, CallShape, AddrParts DEF Pending
  <2>5. req = [op |-> req.op, block |-> req.block, off |-> req.off,
               data |-> req.data]
    BY <2>1, CallShape DEF Device!Operations, Device!Progs, Device!Erases
  <2>6. Pending' = [req EXCEPT !.data = Torn]
    BY <2>4, <2>5
  <2>7. Pending = None
    BY <2>1 DEF Pending, Ready
  <2> QED BY <1>1, <2>1, <2>6, <2>7 DEF Device!Restart
<1> QED BY <1>2, <1>3

LEMMA StepRefines ==
  IInv /\ [Next]_vars => [Device!Next]_(Device!vars)
<1> SUFFICES ASSUME IInv, [Next]_vars
             PROVE  Device!Next \/ UNCHANGED Device!vars
  OBVIOUS
<1>1. CASE UNCHANGED vars
  BY <1>1 DEF vars, Device!vars, Disk, Pending
<1>2. ASSUME NEW r \in Device!Calls, Call(r)
      PROVE  Device!Next
  <2>1. Device!Call(r)
    BY <1>2 DEF Call, Device!Call, IInv, PcMatchesCall, Disk, Pending
  <2> QED BY <2>1 DEF Device!Next
<1>3. CASE Driver
  BY <1>3, DriverRefines
<1>4. CASE ChipComplete
  BY <1>4, CompleteRefines DEF Device!Next
<1>5. CASE PowerLoss
  BY <1>5, PowerLossRefines DEF Device!Next
<1>6. CASE Restart
  BY <1>6, RestartRefines DEF Device!Next
<1> QED BY <1>1, <1>2, <1>3, <1>4, <1>5, <1>6 DEF Next

(* The littlefs callbacks over the chip are a block device: every step of  *)
(* driver, chip, power failure or restart is one of BlockDevice, or none.  *)
THEOREM DeviceSafety == Spec => DeviceSteps
<1>1. Init => Device!Init
  BY InitRefines
<1>2. IInv /\ [Next]_vars => [Device!Next]_(Device!vars)
  BY StepRefines
<1>3. Spec => []IInv
  BY Invariance
<1> QED BY <1>1, <1>2, <1>3, PTL DEF Spec, DeviceSteps

-----------------------------------------------------------------------------
(* What littlefs relies on, from the refinement.                           *)

Place == Device!Block \X Device!Offset

(* A page changes only by the operation in progress, which writes it: to   *)
(* what the operation leaves there, or, by a power loss, to damage.        *)
Spared ==
  \A x \in Place :
    Disk'[x] # Disk[x] =>
      /\ Pending # None /\ Device!Writes(Pending, x[1], x[2])
      /\ Disk'[x] \in {Device!Written(Pending, Disk[x]), Torn}

(* Nothing is in progress but what the call being served asked for, with   *)
(* its data or, after a restart in the middle of them, with damage.        *)
AsCalled ==
  Pending' \notin {None, Pending} =>
    /\ req # None /\ Pending = None
    /\ Pending'.op = req.op /\ Pending'.block = req.block /\ Pending'.off = req.off
    /\ Pending'.data \in {req.data, Torn}

(* What a read returns is the contents of its page, with nothing under way.*)
ReadCommitted ==
  value' \notin {None, value} =>
    /\ req # None /\ Pending = None /\ value' = Disk[<<req.block, req.off>>]

LEMMA DeviceStep ==
  ASSUME [Device!Next]_(Device!vars), req = None \/ req \in Device!Calls
  PROVE  Spared /\ AsCalled /\ ReadCommitted
<1> USE DEF Device!vars, Place
<1>1. CASE UNCHANGED Device!vars
  BY <1>1 DEF Spared, AsCalled, ReadCommitted
<1>2. CASE \E r \in Device!Calls : Device!Call(r)
  BY <1>2 DEF Device!Call, Spared, AsCalled, ReadCommitted
<1>3. CASE Device!Accept
  BY <1>3 DEF Device!Accept, Spared, AsCalled, ReadCommitted
<1>4. CASE Device!ReadReturns \/ Device!SyncReturns
  BY <1>4 DEF Device!ReadReturns, Device!SyncReturns, Spared, AsCalled, ReadCommitted
<1>5. CASE Device!Complete
  <2>1. \A x \in Place : Disk'[x] = IF Device!Writes(Pending, x[1], x[2])
                                    THEN Device!Written(Pending, Disk[x]) ELSE Disk[x]
    BY <1>5 DEF Device!Complete
  <2>2. Pending # None /\ Pending' = None /\ value' = value
    BY <1>5 DEF Device!Complete
  <2> QED BY <2>1, <2>2 DEF Spared, AsCalled, ReadCommitted
<1>6. CASE Device!PowerLoss
  <2>1. \A x \in Place : Disk'[x] = IF Pending # None /\ Device!Writes(Pending, x[1], x[2])
                                    THEN Torn ELSE Disk[x]
    BY <1>6 DEF Device!PowerLoss
  <2>2. Pending' = None /\ value' = None
    BY <1>6 DEF Device!PowerLoss
  <2> QED BY <2>1, <2>2 DEF Spared, AsCalled, ReadCommitted
<1>7. CASE Device!Restart
  <2>1. /\ Disk' = Disk /\ value' = None
        /\ \/ Pending' = Pending
           \/ /\ req # None /\ Pending = None
              /\ Pending' = [req EXCEPT !.data = Torn]
    BY <1>7 DEF Device!Restart
  <2>2. CASE Pending' = Pending
    BY <2>1, <2>2 DEF Spared, AsCalled, ReadCommitted
  <2>3. CASE Pending' # Pending
    <3>1. /\ DOMAIN req = {"op", "block", "off", "data"}
          /\ req # None /\ Pending = None /\ Pending' = [req EXCEPT !.data = Torn]
      BY <2>1, <2>3 DEF Device!Calls, Device!Reads, Device!Operations, Device!Progs,
                        Device!Erases, Device!Syncs
    <3>2. /\ Pending'.op = req.op /\ Pending'.block = req.block /\ Pending'.off = req.off
          /\ Pending'.data = Torn
      BY <3>1
    <3> QED BY <2>1, <3>1, <3>2 DEF Spared, AsCalled, ReadCommitted
  <2> QED BY <2>2, <2>3
<1> QED BY <1>1, <1>2, <1>3, <1>4, <1>5, <1>6, <1>7 DEF Device!Next

(* For littlefs: a failure damages no page but those of the operation in   *)
(* progress, none is in progress that was not asked for, and reads return  *)
(* what was committed.                                                     *)
THEOREM CommittedKept == Spec => [][Spared /\ AsCalled /\ ReadCommitted]_vars
<1>1. IInv /\ [Next]_vars => Spared /\ AsCalled /\ ReadCommitted
  BY StepRefines, DeviceStep DEF IInv, TypeOK
<1> QED BY <1>1, Invariance, PTL DEF Spec
=============================================================================
