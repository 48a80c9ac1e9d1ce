---------------------------- MODULE BlockDevice ----------------------------
(***************************************************************************)
(* What littlefs is promised by the four callbacks of                      *)
(* src/src/asimple_littlefs.c: a device of blocks of pages whose reads     *)
(* return what the completed operations left, that has at most one         *)
(* operation in progress, that a power loss can only damage where that     *)
(* operation writes, and that is quiescent when sync returns.              *)
(*                                                                         *)
(* A prog or erase call returns when the device has accepted the           *)
(* operation, not when it is complete.                                     *)
(***************************************************************************)
EXTENDS Naturals

CONSTANTS
  NBlocks,     \* block_count
  BlockPages,  \* block_size / prog_size
  Data,        \* what a page can be programmed with
  Erased,      \* the contents of an erased page
  Torn,        \* the contents after an interrupted operation
  Mixed,       \* the contents after programming a page that was not erased
  None         \* no call, no operation, no value

Block   == 0 .. NBlocks - 1
Offset  == 0 .. BlockPages - 1
Content == Data \cup {Erased, Torn, Mixed}

Reads  == [op : {"read"}, block : Block, off : Offset, data : {None}]
Progs  == [op : {"prog"}, block : Block, off : Offset, data : Data \cup {Torn}]
Erases == [op : {"erase"}, block : Block, off : {0}, data : {Erased, Torn}]
Syncs  == [op : {"sync"}, block : {0}, off : {0}, data : {None}]
Operations == Progs \cup Erases
(* What littlefs calls: it programs data, not damage. *)
Calls == {r \in Reads \cup Operations \cup Syncs : r.data # Torn}

VARIABLES
  disk,     \* <<block, offset>> -> the contents of a page
  pending,  \* the operation in progress, or None
  call,     \* the call of littlefs being served, or None
  value     \* what the last read returned, or None

vars == <<disk, pending, call, value>>

(* Whether operation o writes the page at offset off of block b, and the   *)
(* contents it leaves there: flash memory programs only erased pages.      *)
Writes(o, b, off) == o.block = b /\ (o.op = "erase" \/ o.off = off)
Written(o, old) ==
  IF o.op = "prog" /\ old # Erased THEN Mixed ELSE o.data

Init ==
  /\ disk \in [Block \X Offset -> Content]
  /\ pending = None /\ call = None /\ value = None

Call(r) ==
  /\ call = None
  /\ call' = r /\ value' = None
  /\ UNCHANGED <<disk, pending>>

(* prog and erase: accepted once the previous operation is complete. *)
Accept ==
  /\ call # None /\ call.op \in {"prog", "erase"} /\ pending = None
  /\ pending' = call
  /\ call' = None
  /\ UNCHANGED <<disk, value>>

ReadReturns ==
  /\ call # None /\ call.op = "read" /\ pending = None
  /\ value' = disk[<<call.block, call.off>>]
  /\ call' = None
  /\ UNCHANGED <<disk, pending>>

SyncReturns ==
  /\ call # None /\ call.op = "sync" /\ pending = None
  /\ call' = None
  /\ UNCHANGED <<disk, pending, value>>

(* The operation in progress completes. *)
Complete ==
  /\ pending # None
  /\ disk' = [x \in Block \X Offset |->
                IF Writes(pending, x[1], x[2]) THEN Written(pending, disk[x])
                                               ELSE disk[x]]
  /\ pending' = None
  /\ UNCHANGED <<call, value>>

(* The power fails: the pages that the operation in progress writes are    *)
(* damaged, no other page is.                                              *)
PowerLoss ==
  /\ disk' = [x \in Block \X Offset |->
                IF pending # None /\ Writes(pending, x[1], x[2]) THEN Torn
                                                                 ELSE disk[x]]
  /\ pending' = None /\ call' = None /\ value' = None

(* Only the processor restarts: the device carries on. A page it was being *)
(* sent may be programmed with the part it received.                       *)
Restart ==
  /\ \/ UNCHANGED pending
     \/ /\ call # None /\ call.op = "prog" /\ pending = None
        /\ pending' = [call EXCEPT !.data = Torn]
  /\ call' = None /\ value' = None
  /\ UNCHANGED disk

Next ==
  \/ \E r \in Calls : Call(r)
  \/ Accept \/ ReadReturns \/ SyncReturns
  \/ Complete \/ PowerLoss \/ Restart

(* Every call returns: operations complete, and calls are served. *)
Spec == /\ Init /\ [][Next]_vars
        /\ WF_vars(Complete) /\ WF_vars(Accept \/ ReadReturns \/ SyncReturns)
=============================================================================
