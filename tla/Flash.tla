------------------------------- MODULE Flash -------------------------------
(***************************************************************************)
(* src/src/flash.c and src/src/asimple_littlefs.c: the littlefs callbacks  *)
(* over a serial NOR flash chip. A step of the driver is one SPI exchange; *)
(* the chip works on its own between them, and the power may fail or the   *)
(* processor restart at any point. Pages are numbered: the byte address    *)
(* c->block_size * block + off is page BlockPages * block + offset.        *)
(***************************************************************************)
EXTENDS Integers

CONSTANTS NBlocks, BlockPages, Data, Erased, Torn, Mixed, None

VARIABLES
  mem,     \* the chip: page number -> contents
  chip,    \* the operation the chip is busy with, or None
  wel,     \* the write-enable latch of the chip (status bit 1)
  pc,      \* the next SPI exchange of the driver
  req,     \* the call being served, or None
  value,   \* what the last read returned, or None
  result   \* of the last flash_page_program or flash_sector_erase: the value
           \* it returned and whether the chip took the command

vars == <<mem, chip, wel, pc, req, value, result>>

(* The refinement mapping: the contents at each block and offset, and the  *)
(* chip's operation in terms of them. A call is pending while it is served. *)
Disk ==
  [x \in (0 .. NBlocks - 1) \X (0 .. BlockPages - 1) |->
     mem[BlockPages * x[1] + x[2]]]
Pending ==
  IF chip = None THEN None
  ELSE [op |-> chip.op, block |-> chip.page \div BlockPages,
        off |-> chip.page % BlockPages, data |-> chip.data]

Device == INSTANCE BlockDevice WITH disk <- Disk, pending <- Pending, call <- req

Page == 0 .. NBlocks * BlockPages - 1
Addr(block, off) == BlockPages * block + off
ChipOperations ==
  [op : {"prog", "erase"}, page : Page, data : Data \cup {Erased, Torn}]

(* There is something to address, and "nothing" is not a call or operation. *)
ASSUME FlashAssumption ==
  /\ NBlocks \in Nat \ {0} /\ BlockPages \in Nat \ {0}
  /\ None \notin Device!Calls /\ None \notin ChipOperations
  /\ None \notin [op : {"prog", "erase"}, block : Device!Block,
                  off : Device!Offset, data : Data \cup {Erased, Torn}]

-----------------------------------------------------------------------------
(* The chip, as flash.c uses it. While it is busy it takes no command but  *)
(* the status read; it programs and erases only with the latch set, and    *)
(* clears the latch when the operation is complete, or when it begins.     *)

Ready == chip = None

(* The pages an operation writes: a page, or all of an erased sector. *)
Touches(o, page) ==
  \/ page = o.page
  \/ o.op = "erase" /\ page \div BlockPages = o.page \div BlockPages

ChipWriteEnable == wel' = (wel \/ Ready)

ChipStart(o) ==
  IF Ready /\ wel THEN chip' = o /\ wel' \in BOOLEAN
                  ELSE UNCHANGED <<chip, wel>>

ChipComplete ==
  /\ ~Ready
  /\ mem' = [p \in Page |->
               IF ~Touches(chip, p) THEN mem[p]
               ELSE IF chip.op = "prog" /\ mem[p] # Erased THEN Mixed
               ELSE chip.data]
  /\ chip' = None /\ wel' = FALSE
  /\ UNCHANGED <<pc, req, value, result>>

-----------------------------------------------------------------------------
Init ==
  /\ mem \in [Page -> Data \cup {Erased, Torn, Mixed}]
  /\ chip = None /\ wel = FALSE
  /\ pc = "idle" /\ req = None /\ value = None /\ result = None

(* littlefs calls asimple_lfs_read, _prog, _erase or _sync: each begins    *)
(* with flash_wait_busy.                                                   *)
Call(r) ==
  /\ pc = "idle"
  /\ req' = r /\ pc' = "wait" /\ value' = None /\ result' = None
  /\ UNCHANGED <<mem, chip, wel>>

Return == pc' = "idle" /\ req' = None

(* Mutant: prog does not wait for the previous operation. *)
WaitBusyNotForProg ==
  /\ pc = "wait" /\ (Ready \/ req.op = "prog")
  /\ \/ req.op = "read"  /\ pc' = "read"  /\ UNCHANGED req
     \/ req.op = "prog"  /\ pc' = "wren"  /\ UNCHANGED req
     \/ req.op = "erase" /\ pc' = "wren2" /\ UNCHANGED req
     \/ req.op = "sync"  /\ Return
  /\ UNCHANGED <<mem, chip, wel, value, result>>

(* Mutant: waits on the wrong bit of the status, the latch. *)
WaitBusyOnLatch ==
  /\ pc = "wait" /\ ~wel
  /\ \/ req.op = "read"  /\ pc' = "read"  /\ UNCHANGED req
     \/ req.op = "prog"  /\ pc' = "wren"  /\ UNCHANGED req
     \/ req.op = "erase" /\ pc' = "wren2" /\ UNCHANGED req
     \/ req.op = "sync"  /\ Return
  /\ UNCHANGED <<mem, chip, wel, value, result>>

(* flash_wait_busy: polls the status until the busy bit is clear (a poll   *)
(* that finds it set changes nothing). Then each callback goes its way;    *)
(* sync has nothing else to do.                                            *)
WaitBusy ==
  /\ pc = "wait" /\ Ready
  /\ \/ req.op = "read"  /\ pc' = "read"  /\ UNCHANGED req
     \/ req.op = "prog"  /\ pc' = "wren"  /\ UNCHANGED req
     \/ req.op = "erase" /\ pc' = "wren2" /\ UNCHANGED req
     \/ req.op = "sync"  /\ Return
  /\ UNCHANGED <<mem, chip, wel, value, result>>

(* flash_read_data: a busy chip ignores the command, so what is read then  *)
(* is not its contents.                                                    *)
ReadData ==
  /\ pc = "read"
  /\ value' = IF Ready THEN mem[Addr(req.block, req.off)] ELSE Mixed
  /\ Return
  /\ UNCHANGED <<mem, chip, wel, result>>

(* flash_write_enable: asimple_lfs_prog calls it, and flash_page_program   *)
(* and flash_sector_erase call it themselves.                              *)
WriteEnable ==
  /\ \/ pc = "wren"  /\ pc' = "wren2"
     \/ pc = "wren2" /\ pc' = "check"
  /\ ChipWriteEnable
  /\ UNCHANGED <<mem, chip, req, value, result>>

(* flash_read_status_register: without the latch the operation is given up *)
(* with 0, which the callbacks do not look at.                             *)
CheckEnabled ==
  /\ pc = "check"
  /\ IF wel THEN pc' = "command" /\ UNCHANGED <<req, result>>
            ELSE Return /\ result' = [returned |-> 0, taken |-> FALSE]
  /\ UNCHANGED <<mem, chip, wel, value>>

(* Mutant: the offset in the block is multiplied too. *)
OperationScaled ==
  [op |-> req.op, page |-> BlockPages * (req.block + req.off), data |-> req.data]

(* Mutant: the offset in the block is left out. *)
OperationBlockOnly ==
  [op |-> req.op, page |-> Addr(req.block, 0), data |-> req.data]

Operation == [op |-> req.op, page |-> Addr(req.block, req.off), data |-> req.data]
Taken == [returned |-> 1, taken |-> Ready /\ wel]

(* The erase command is complete when chip select rises after its address. *)
CommandErase ==
  /\ pc = "command" /\ req.op = "erase"
  /\ ChipStart(Operation)
  /\ Return /\ result' = Taken
  /\ UNCHANGED <<mem, value>>

(* The program command keeps chip select low for the data ... *)
CommandProgram ==
  /\ pc = "command" /\ req.op = "prog"
  /\ pc' = "data"
  /\ UNCHANGED <<mem, chip, wel, req, value, result>>

(* ... and takes effect when it rises after the data. *)
ProgramData ==
  /\ pc = "data"
  /\ ChipStart(Operation)
  /\ Return /\ result' = Taken
  /\ UNCHANGED <<mem, value>>

-----------------------------------------------------------------------------
(* Failures.                                                               *)

Reset == pc' = "idle" /\ req' = None /\ value' = None /\ result' = None

PowerLoss ==
  /\ mem' = [p \in Page |-> IF ~Ready /\ Touches(chip, p) THEN Torn ELSE mem[p]]
  /\ chip' = None /\ wel' = FALSE
  /\ Reset

(* The processor restarts while the chip keeps its power. In the middle of *)
(* the data of a program command, chip select rises and the chip programs  *)
(* what it received.                                                       *)
Restart ==
  /\ IF pc = "data" THEN ChipStart([Operation EXCEPT !.data = Torn])
                    ELSE UNCHANGED <<chip, wel>>
  /\ Reset
  /\ UNCHANGED mem

Driver == WaitBusy \/ ReadData \/ WriteEnable \/ CheckEnabled
            \/ CommandErase \/ CommandProgram \/ ProgramData

Next ==
  \/ \E r \in Device!Calls : Call(r)
  \/ Driver
  \/ ChipComplete
  \/ PowerLoss \/ Restart

(* The processor runs, and the chip completes what it started. *)
Fairness == WF_vars(Driver) /\ WF_vars(ChipComplete)

Spec == Init /\ [][Next]_vars /\ Fairness

-----------------------------------------------------------------------------
(* Properties.                                                             *)

(* Every variable stays in its range. *)
TypeOK ==
  /\ mem \in [Page -> Data \cup {Erased, Torn, Mixed}]
  /\ chip = None \/ chip \in ChipOperations
  /\ wel \in BOOLEAN
  /\ pc \in {"idle", "wait", "read", "wren", "wren2", "check", "command", "data"}
  /\ req = None \/ req \in Device!Calls
  /\ value \in Data \cup {Erased, Torn, Mixed, None}

(* Where the driver is says what it is doing: it serves a call unless it   *)
(* is idle, and it is past the wait only with the call that leads there.   *)
PcMatchesCall ==
  /\ pc = "idle" <=> req = None
  /\ pc = "read" => req.op = "read"
  /\ pc \in {"wren", "data"} => req.op = "prog"
  /\ pc \in {"wren2", "check", "command"} => req.op \in {"prog", "erase"}

(* Between flash_wait_busy and the command nobody else uses the chip, so   *)
(* it is idle at every exchange after the wait: the read returns contents, *)
(* and the command is not ignored.                                         *)
QuietAfterWait == pc \notin {"idle", "wait"} => Ready

(* The latch is set when the command goes out, so that the "give up" path  *)
(* whose result the callbacks ignore is never taken.                       *)
LatchHeld == pc \in {"check", "command", "data"} => wel

(* flash_page_program and flash_sector_erase return 1 only if the chip     *)
(* took the command ("1 if write command was accepted", flash.h), and      *)
(* littlefs, which is told 0 in any case, never loses an operation.        *)
NoLostWrite == result # None => result.returned = 1 /\ result.taken

(* The callbacks over the chip are the block device that littlefs assumes: *)
(* whatever fails in between, every step is one of that device, or none.   *)
DeviceSteps == Device!Init /\ [][Device!Next]_(Device!vars)

(* And its liveness: operations complete and calls are answered.           *)
ImplementsDevice == Device!Spec
=============================================================================
