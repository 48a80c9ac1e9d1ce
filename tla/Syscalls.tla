------------------------------ MODULE Syscalls ------------------------------
(***************************************************************************)
(* src/src/syscalls.c and src/src/syscalls/: the system calls of the C     *)
(* library over the devices of the board. Descriptors 0 to 2 are the UART, *)
(* those from 3 on are slots of a table of littlefs files. Names, offsets  *)
(* and contents are littlefs' business; the model keeps which littlefs     *)
(* object a descriptor reaches, for what file, and with what access.       *)
(***************************************************************************)
EXTENDS Integers, FiniteSets

CONSTANTS
  Slots,  \* entries of the table of files: 10
  Name    \* the names of files

ASSUME SyscallsAssumption == Slots \in Nat /\ IsFiniteSet(Name)

Slot == 0 .. Slots - 1
Fd(s) == s + 3    \* _open

(* The flags of open: what access is asked for, and whether any of O_CREAT,*)
(* O_TRUNC, O_APPEND and O_EXCL comes with it.                             *)
Flags == [access : {"read", "write", "both"}, more : BOOLEAN]
Asked(flags) == IF flags.access = "both" THEN {"read", "write"} ELSE {flags.access}
Odd(flags) == flags.access = "read" /\ flags.more

Closed == [open |-> FALSE]

VARIABLES
  devices,       \* the devices registered: of "uart", "fs"
  active_files,  \* the slots in use
  files,         \* slot -> the littlefs file object in it
  held,          \* history: the descriptors the program has, with name and flags
  leaked,        \* history: slots whose close failed
  fault,         \* history: was littlefs given an object it asserts against
  error          \* the error of the last call, or "none"

sysVars == <<devices, active_files, files, held, leaked, fault, error>>

SysInit ==
  /\ devices = {} /\ active_files = {} /\ files = [s \in Slot |-> Closed]
  /\ held = {} /\ leaked = {} /\ fault = FALSE /\ error = "none"

-----------------------------------------------------------------------------
(* syscalls_uart_init and syscalls_littlefs_init. *)
Register(device) ==
  /\ device \notin devices /\ devices' = devices \cup {device} /\ error' = "none"
  /\ UNCHANGED <<active_files, files, held, leaked, fault>>

Fail(e) == error' = e /\ UNCHANGED <<devices, active_files, files, held, leaked, fault>>

(* What littlefs will allow: O_RDONLY is 0, and is told by comparing all   *)
(* of the flags with it.                                                   *)
Access(flags) == IF Odd(flags) THEN {} ELSE Asked(flags)

Free(s) == s \notin active_files /\ \A t \in Slot : t < s => t \in active_files

(* _open, littlefs_open_: the first free slot, and littlefs may refuse.    *)
Open(name, flags) ==
  \/ "fs" \notin devices /\ Fail("ENXIO")
  \/ "fs" \in devices /\ (\A s \in Slot : ~Free(s)) /\ Fail("ENFILE")
  \/ "fs" \in devices /\ (\E s \in Slot : Free(s)) /\ Fail("littlefs")
  \/ /\ "fs" \in devices /\ error' = "none"
     /\ \E s \in Slot :
          /\ Free(s)
          /\ files' = [files EXCEPT ![s] = [open |-> TRUE, name |-> name,
                                            access |-> Access(flags)]]
          /\ active_files' = active_files \cup {s}
          /\ held' = held \cup {[fd |-> Fd(s), name |-> name, flags |-> flags]}
     /\ UNCHANGED <<devices, leaked, fault>>

SlotOf(fd) == fd - 3

(* _read, _write and _lseek. They do not look whether the slot is in use.  *)
(* littlefs asserts that the object is open and has the access.            *)
Sound(s, access) ==
  s \in active_files /\ files[s].open /\ access \subseteq files[s].access

Use(fd, access) ==
  /\ "fs" \in devices
  /\ fault' = (fault \/ ~Sound(SlotOf(fd), access))
  /\ error' \in {"none", "littlefs"}
  /\ UNCHANGED <<devices, active_files, files, held, leaked>>

(* littlefs takes a file it closes off its list and frees its buffer, also *)
(* when writing back the rest fails (external); it asserts that it is open.*)
CloseObject(s) == files[s].open /\ files' = [files EXCEPT ![s] = Closed]

(* The program gives up the descriptor, however the close ends. *)
Dropped(fd) == held' = {h \in held : h.fd # fd}

AssertFails(s) ==
  /\ ~files[s].open /\ fault' = TRUE
  /\ UNCHANGED <<devices, active_files, files, held, leaked, error>>

(* Mutant: a slot stays in use when its file is closed. *)
CloseKept(fd) ==
  /\ "fs" \in devices /\ SlotOf(fd) \in active_files
  /\ CloseObject(SlotOf(fd)) /\ Dropped(fd) /\ error' = "none"
  /\ UNCHANGED <<devices, active_files, leaked, fault>>

(* _close, littlefs_close_: a failing close leaves the slot in use.        *)
Close(fd) ==
  \/ ("fs" \notin devices \/ SlotOf(fd) \notin active_files) /\ Fail("EBADF")
  \/ /\ "fs" \in devices /\ SlotOf(fd) \in active_files
     /\ \/ AssertFails(SlotOf(fd))
        \/ /\ CloseObject(SlotOf(fd)) /\ Dropped(fd)
           /\ \/ error' = "none" /\ active_files' = active_files \ {SlotOf(fd)}
                 /\ UNCHANGED leaked
              \/ error' = "littlefs" /\ leaked' = leaked \cup {SlotOf(fd)}
                 /\ UNCHANGED active_files
           /\ UNCHANGED <<devices, fault>>

-----------------------------------------------------------------------------
(* The program uses the descriptors it has for what it opened them; it may *)
(* close any, also one that it has closed before.                          *)
SysCalls ==
  \/ \E device \in {"uart", "fs"} : Register(device)
  \/ \E name \in Name, flags \in Flags : Open(name, flags)
  \/ \E h \in held : \E access \in SUBSET Asked(h.flags) : Use(h.fd, access)
  \/ \E s \in Slot : Close(Fd(s))

(* A failed assertion stops the program. *)
SysNext == ~fault /\ SysCalls

-----------------------------------------------------------------------------
(* Properties.                                                             *)

SysTypeOK ==
  /\ devices \subseteq {"uart", "fs"} /\ active_files \subseteq Slot
  /\ leaked \subseteq Slot /\ fault \in BOOLEAN
  /\ \A s \in Slot : files[s] = Closed \/ files[s] \in
       [open : {TRUE}, name : Name, access : SUBSET {"read", "write"}]
  /\ \A h \in held : SlotOf(h.fd) \in Slot /\ h.name \in Name /\ h.flags \in Flags
  /\ error \in {"none", "ENXIO", "ENFILE", "EBADF", "littlefs"}

(* Every descriptor the program has reaches an open littlefs object of its *)
(* own, of the file it was opened for, whatever was opened, refused and    *)
(* closed since; and a slot is in use for a descriptor, or for a close     *)
(* that failed, and never free with an object that littlefs has on its     *)
(* list.                                                                   *)
DescriptorsSound ==
  /\ \A h \in held : SlotOf(h.fd) \in active_files /\ files[SlotOf(h.fd)].open
                     /\ files[SlotOf(h.fd)].name = h.name
  /\ \A g, h \in held : g.fd = h.fd => g = h
  /\ active_files = {SlotOf(h.fd) : h \in held} \cup leaked
  /\ \A s \in Slot : files[s].open => s \in active_files

(* littlefs asserts against an object only after a close that failed, or   *)
(* for a file opened read-only with more flags, as read_only | O_CREAT.    *)
FaultsKnown ==
  fault => leaked # {} \/ \E h \in held : Odd(h.flags)

(* Files and descriptors agree after any sequence of opens, failed closes  *)
(* and uses of _open, _read, _write and _close, and while they do, no call *)
(* runs into an assertion but for these two reasons.                       *)
FilesSound == DescriptorsSound /\ FaultsKnown
=============================================================================
