-------------------------------- MODULE Spi --------------------------------
(***************************************************************************)
(* The SPI layer, src/src/spi.c: the static table of buses and devices,    *)
(* their lazy initialisation and reference counts, the cached clock of a   *)
(* bus, and the sleep/wake handling of the IO master (IOM) behind it.      *)
(*                                                                         *)
(* Firmware modules (flash, SD card, radio, sensors) share these tables.   *)
(* The program is single threaded, so a call is one step; what interleaves *)
(* are the calls of the different clients.                                 *)
(***************************************************************************)
EXTENDS Integers, FiniteSets

CONSTANTS
  Client,      \* the modules of the firmware that use SPI
  Bus,         \* the entries of busses[] in use
  CS,          \* chip selects of a bus (enum spi_chip_select)
  Ladder,      \* the clocks the IOM supports, in Hz
  Request,     \* the clocks that clients ask for, in Hz
  BootClock,   \* the clock of a fresh bus: 2 MHz
  ConfigClock, \* the initial spi_config.ui32ClockFreq: 4 MHz
  NoClock      \* "no saved state": the IOM has nothing to restore

ASSUME ClientAssumption == IsFiniteSet(Client)
ASSUME LadderAssumption ==
  /\ Ladder \subseteq Nat \ {0} /\ Request \subseteq Nat
  /\ BootClock \in Ladder /\ ConfigClock \in Ladder
  /\ NoClock \notin Nat
  /\ \E slowest \in Ladder : \A c \in Ladder : slowest <= c
  /\ \A hz \in Request : (\E c \in Ladder : c <= hz) =>
        \E top \in Ladder : top <= hz /\ \A c \in Ladder : c <= hz => c <= top

Device == Bus \X CS

VARIABLES
  spi_config,     \* the clock in the static configuration all buses share
  handle,         \* bus -> is the HAL handle initialised
  current_clock,  \* bus -> the cached clock (0 in a cleared entry)
  bus_refcount,
  parent,         \* device -> does it point to its bus
  clock,          \* device -> its own clock (0 in a cleared entry)
  dev_refcount,
  powered,        \* IOM hardware, per bus: is the module powered ...
  reg,            \* ... its clock register ...
  saved,          \* ... and the clock in the state saved for wake-up
  pins,           \* are the pins of the bus connected to the IOM
  mosi,           \* what drives MOSI: "off", "iom" or "gpio"
  selected,       \* the chip selects a bus holds low after a call returned
  busUsers,       \* history: the clients that hold a reference to the bus
  devUsers,       \* history: the clients that hold a reference to the device
  last            \* history: what the last call did

software == <<spi_config, handle, current_clock, bus_refcount,
              parent, clock, dev_refcount>>
hardware == <<powered, reg, saved, pins, mosi, selected>>
users    == <<busUsers, devUsers>>
vars     == <<software, hardware, users, last>>

Idle == [call |-> "none"]

-----------------------------------------------------------------------------
(* select_clock: the fastest supported clock that is not above the request; *)
(* a request below every supported clock gets the slowest one.              *)
AtMost(hz) == {c \in Ladder : c <= hz}
SelectClock(hz) ==
  IF AtMost(hz) = {}
  THEN CHOOSE c \in Ladder : \A d \in Ladder : c <= d
  ELSE CHOOSE c \in AtMost(hz) : \A d \in AtMost(hz) : d <= c

-----------------------------------------------------------------------------
(* The IOM as spi.c uses it (the HAL is not in the repository): its clock  *)
(* register is lost when the module is turned off, unless the call that    *)
(* turns it off saves the state; configuring needs the module powered; a   *)
(* waking call that restores fails if there is nothing to restore.         *)
Configured(b, on, old, new) == IF on THEN [old EXCEPT ![b] = new] ELSE old

-----------------------------------------------------------------------------
Init ==
  /\ spi_config = ConfigClock
  /\ handle = [b \in Bus |-> FALSE]
  /\ current_clock = [b \in Bus |-> 0]
  /\ bus_refcount = [b \in Bus |-> 0]
  /\ parent = [d \in Device |-> FALSE]
  /\ clock = [d \in Device |-> 0]
  /\ dev_refcount = [d \in Device |-> 0]
  /\ powered = [b \in Bus |-> FALSE]
  /\ reg = [b \in Bus |-> NoClock]
  /\ saved = [b \in Bus |-> NoClock]
  /\ pins = [b \in Bus |-> FALSE]
  /\ mosi = [b \in Bus |-> "off"]
  /\ selected = [b \in Bus |-> {}]
  /\ busUsers = [b \in Bus |-> {}]
  /\ devUsers = [d \in Device |-> {}]
  /\ last = Idle

-----------------------------------------------------------------------------
(* Acquiring and releasing.                                                *)

(* Mutant: the shared configuration is not set before it is used. *)
BusInitializeKeepConfig(b) ==
  /\ handle' = [handle EXCEPT ![b] = TRUE]
  /\ current_clock' = [current_clock EXCEPT ![b] = BootClock]
  /\ saved' = [saved EXCEPT ![b] = spi_config]
  /\ reg' = [reg EXCEPT ![b] = NoClock]
  /\ powered' = [powered EXCEPT ![b] = FALSE]
  /\ pins' = [pins EXCEPT ![b] = FALSE]
  /\ mosi' = [mosi EXCEPT ![b] = "off"]
  /\ selected' = [selected EXCEPT ![b] = {}]
  /\ UNCHANGED spi_config

(* The first reference initialises the handle, powers the IOM, configures  *)
(* it through the shared spi_config and puts it to sleep with its state    *)
(* saved (spi_bus_sleep).                                                  *)
BusInitialize(b) ==
  /\ handle' = [handle EXCEPT ![b] = TRUE]
  /\ current_clock' = [current_clock EXCEPT ![b] = BootClock]
  /\ spi_config' = BootClock
  /\ saved' = [saved EXCEPT ![b] = spi_config']
  /\ reg' = [reg EXCEPT ![b] = NoClock]
  /\ powered' = [powered EXCEPT ![b] = FALSE]
  /\ pins' = [pins EXCEPT ![b] = FALSE]
  /\ mosi' = [mosi EXCEPT ![b] = "off"]
  /\ selected' = [selected EXCEPT ![b] = {}]

BusGetInstance(c, b) ==
  /\ c \notin busUsers[b]                 \* bound: one reference per client
  /\ IF handle[b]
     THEN UNCHANGED <<spi_config, handle, current_clock, hardware>>
     ELSE BusInitialize(b)
  /\ bus_refcount' = [bus_refcount EXCEPT ![b] = @ + 1]
  /\ busUsers' = [busUsers EXCEPT ![b] = @ \cup {c}]
  /\ last' = Idle
  /\ UNCHANGED <<parent, clock, dev_refcount, devUsers>>

(* Only the first reference sets the clock: a later one gets the device as *)
(* it is.                                                                  *)
DeviceGetInstance(c, d, hz) ==
  /\ c \in busUsers[d[1]] /\ c \notin devUsers[d]
  /\ IF parent[d]
     THEN UNCHANGED <<parent, clock>>
     ELSE /\ parent' = [parent EXCEPT ![d] = TRUE]
          /\ clock' = [clock EXCEPT ![d] = SelectClock(hz)]
  /\ dev_refcount' = [dev_refcount EXCEPT ![d] = @ + 1]
  /\ devUsers' = [devUsers EXCEPT ![d] = @ \cup {c}]
  /\ last' = Idle
  /\ UNCHANGED <<spi_config, handle, current_clock, bus_refcount, busUsers,
                 hardware>>

(* Mutant: the count is tested before it is decremented, so the entry is   *)
(* never cleared.                                                          *)
BusDeinitializePostDecrement(c, b) ==
  /\ c \in busUsers[b]
  /\ \A s \in CS : c \notin devUsers[<<b, s>>]
  /\ bus_refcount' = [bus_refcount EXCEPT ![b] = @ - 1]
  /\ busUsers' = [busUsers EXCEPT ![b] = @ \ {c}]
  /\ last' = Idle
  /\ UNCHANGED <<spi_config, handle, current_clock, parent, clock,
                 dev_refcount, devUsers, hardware>>

(* Mutant: giving back the bus gives back a reference of each device too. *)
BusDeinitializeWithDevices(c, b) ==
  /\ c \in busUsers[b]
  /\ \A s \in CS : c \notin devUsers[<<b, s>>]
  /\ bus_refcount' = [bus_refcount EXCEPT ![b] = @ - 1]
  /\ dev_refcount' = [d \in Device |-> IF d[1] = b THEN dev_refcount[d] - 1
                                                  ELSE dev_refcount[d]]
  /\ busUsers' = [busUsers EXCEPT ![b] = @ \ {c}]
  /\ last' = Idle
  /\ UNCHANGED <<spi_config, handle, current_clock, parent, clock,
                 devUsers, hardware>>

(* spi_bus_deinitialize clears the whole entry, devices included, when the *)
(* last reference goes. "Spi devices associated with this bus should be    *)
(* deinitialized first" (spi.h) is what a client owes.                     *)
BusDeinitialize(c, b) ==
  /\ c \in busUsers[b]
  /\ \A s \in CS : c \notin devUsers[<<b, s>>]
  /\ bus_refcount[b] > 0
  /\ busUsers' = [busUsers EXCEPT ![b] = @ \ {c}]
  /\ last' = Idle
  /\ IF bus_refcount[b] = 1
     THEN /\ handle' = [handle EXCEPT ![b] = FALSE]
          /\ current_clock' = [current_clock EXCEPT ![b] = 0]
          /\ bus_refcount' = [bus_refcount EXCEPT ![b] = 0]
          /\ parent' = [d \in Device |-> IF d[1] = b THEN FALSE ELSE parent[d]]
          /\ clock' = [d \in Device |-> IF d[1] = b THEN 0 ELSE clock[d]]
          /\ dev_refcount' =
               [d \in Device |-> IF d[1] = b THEN 0 ELSE dev_refcount[d]]
          /\ powered' = [powered EXCEPT ![b] = FALSE]
          /\ reg' = [reg EXCEPT ![b] = NoClock]
          /\ saved' = [saved EXCEPT ![b] = NoClock]
          /\ pins' = [pins EXCEPT ![b] = FALSE]
          /\ mosi' = [mosi EXCEPT ![b] = "off"]
          /\ selected' = [selected EXCEPT ![b] = {}]
     ELSE /\ bus_refcount' = [bus_refcount EXCEPT ![b] = @ - 1]
          /\ UNCHANGED <<handle, current_clock, parent, clock, dev_refcount,
                         hardware>>
  /\ UNCHANGED <<spi_config, devUsers>>

DeviceDeinitialize(c, d) ==
  /\ c \in devUsers[d]
  /\ dev_refcount[d] > 0
  /\ dev_refcount' = [dev_refcount EXCEPT ![d] = @ - 1]
  /\ IF dev_refcount[d] = 1
     THEN /\ parent' = [parent EXCEPT ![d] = FALSE]
          /\ clock' = [clock EXCEPT ![d] = 0]
     ELSE UNCHANGED <<parent, clock>>
  /\ devUsers' = [devUsers EXCEPT ![d] = @ \ {c}]
  /\ last' = Idle
  /\ UNCHANGED <<spi_config, handle, current_clock, bus_refcount, busUsers,
                 hardware>>

-----------------------------------------------------------------------------
(* Power.                                                                  *)

(* The loop on IN_USE ends when the module is idle; a call is one step, so *)
(* it always is here. Turning off a module that is already off saves the   *)
(* registers of an unpowered module.                                       *)
BusSleep(c, b) ==
  /\ c \in busUsers[b]
  /\ saved' = [saved EXCEPT ![b] = reg[b]]
  /\ reg' = [reg EXCEPT ![b] = NoClock]
  /\ powered' = [powered EXCEPT ![b] = FALSE]
  /\ pins' = [pins EXCEPT ![b] = FALSE]
  /\ mosi' = [mosi EXCEPT ![b] = "off"]
  /\ selected' = [selected EXCEPT ![b] = {}]
  /\ last' = Idle
  /\ UNCHANGED <<software, users>>

BusEnable(c, b) ==
  /\ c \in busUsers[b]
  /\ IF saved[b] # NoClock
     THEN /\ powered' = [powered EXCEPT ![b] = TRUE]
          /\ reg' = [reg EXCEPT ![b] = saved[b]]
          /\ saved' = [saved EXCEPT ![b] = NoClock]
          /\ pins' = [pins EXCEPT ![b] = TRUE]
          /\ mosi' = [mosi EXCEPT ![b] = "iom"]
          /\ UNCHANGED selected
     ELSE UNCHANGED hardware
  /\ last' = Idle
  /\ UNCHANGED <<software, users>>

-----------------------------------------------------------------------------
(* Using a device.                                                         *)

DeviceSetClock(c, d, hz) ==
  /\ c \in devUsers[d]
  /\ clock' = [clock EXCEPT ![d] = SelectClock(hz)]
  /\ last' = Idle
  /\ UNCHANGED <<spi_config, handle, current_clock, bus_refcount, parent,
                 dev_refcount, hardware, users>>

(* Mutant: reconfigures only to slow the bus down. *)
UpdateClockSlower(d) ==
  LET b == d[1] IN
  IF current_clock[b] <= clock[d]
  THEN UNCHANGED <<spi_config, current_clock, reg>>
  ELSE /\ spi_config' = clock[d]
       /\ current_clock' = [current_clock EXCEPT ![b] = clock[d]]
       /\ reg' = Configured(b, powered[b], reg, spi_config')

(* spi_device_update_clock: reconfigure only if the cached clock of the    *)
(* bus differs; what am_hal_iom_configure returns is not looked at.        *)
UpdateClock(d) ==
  LET b == d[1] IN
  IF current_clock[b] = clock[d]
  THEN UNCHANGED <<spi_config, current_clock, reg>>
  ELSE /\ spi_config' = clock[d]
       /\ current_clock' = [current_clock EXCEPT ![b] = clock[d]]
       /\ reg' = Configured(b, powered[b], reg, spi_config')

(* Each of the read, write and read-write calls: update the clock, then    *)
(* one blocking transfer at whatever the register says (an unpowered       *)
(* module clocks nothing: hz = NoClock). The "continue" forms leave the    *)
(* chip select low.                                                        *)
Transfer(c, d, continue) ==
  /\ c \in devUsers[d]
  /\ UpdateClock(d)
  /\ selected' = [selected EXCEPT ![d[1]] =
                    IF continue /\ powered[d[1]] THEN @ \cup {d[2]} ELSE @ \ {d[2]}]
  /\ last' = [call |-> "transfer", dev |-> d, hz |-> reg'[d[1]]]
  /\ UNCHANGED <<handle, bus_refcount, parent, clock, dev_refcount,
                 powered, saved, pins, mosi, users>>

(* spi_device_toggle takes the chip select as a GPIO and drives it high,   *)
(* writes, and gives the pin back: the device ends up deselected.          *)
Toggle(c, d) ==
  /\ c \in devUsers[d]
  /\ UpdateClock(d)
  /\ selected' = [selected EXCEPT ![d[1]] = @ \ {d[2]}]
  /\ last' = [call |-> "toggle", dev |-> d, hz |-> reg'[d[1]]]
  /\ UNCHANGED <<handle, bus_refcount, parent, clock, dev_refcount,
                 powered, saved, pins, mosi, users>>

DeviceHoldMosi(c, d) ==
  /\ c \in devUsers[d]
  /\ mosi' = [mosi EXCEPT ![d[1]] = "gpio"]
  /\ last' = Idle
  /\ UNCHANGED <<software, powered, reg, saved, pins, selected, users>>

DeviceReleaseMosi(c, d) ==
  /\ c \in devUsers[d]
  /\ mosi' = [mosi EXCEPT ![d[1]] = "iom"]
  /\ last' = Idle
  /\ UNCHANGED <<software, powered, reg, saved, pins, selected, users>>

-----------------------------------------------------------------------------
Lifecycle ==
  \/ \E c \in Client, b \in Bus :
        BusGetInstance(c, b) \/ BusDeinitialize(c, b) \/ BusEnable(c, b)
  \/ \E c \in Client, d \in Device :
        \/ DeviceDeinitialize(c, d)
        \/ \E hz \in Request :
              DeviceGetInstance(c, d, hz) \/ DeviceSetClock(c, d, hz)

Use(c, d) ==
  \/ \E continue \in BOOLEAN : Transfer(c, d, continue)
  \/ Toggle(c, d)
  \/ DeviceHoldMosi(c, d)
  \/ DeviceReleaseMosi(c, d)

(* What spi.h asks of clients: the hardware is asleep until spi_bus_enable *)
(* is called, so a bus is used, and put to sleep, while it is awake.       *)
Next ==
  \/ Lifecycle
  \/ \E c \in Client, b \in Bus : powered[b] /\ BusSleep(c, b)
  \/ \E c \in Client, d \in Device : powered[d[1]] /\ Use(c, d)

Spec == Init /\ [][Next]_vars

(* The same without that promise: main.c never enables the bus it uses.    *)
NextUnchecked ==
  \/ Lifecycle
  \/ \E c \in Client, b \in Bus : BusSleep(c, b)
  \/ \E c \in Client, d \in Device : Use(c, d)

SpecUnchecked == Init /\ [][NextUnchecked]_vars

-----------------------------------------------------------------------------
(* Properties.                                                             *)

(* Every variable stays in its range, counters and clocks included.        *)
TypeOK ==
  /\ spi_config \in Nat
  /\ handle \in [Bus -> BOOLEAN]
  /\ current_clock \in [Bus -> Nat]
  /\ bus_refcount \in [Bus -> Nat]
  /\ parent \in [Device -> BOOLEAN]
  /\ clock \in [Device -> Nat]
  /\ dev_refcount \in [Device -> Nat]
  /\ powered \in [Bus -> BOOLEAN]
  /\ reg \in [Bus -> Nat \cup {NoClock}]
  /\ saved \in [Bus -> Nat \cup {NoClock}]
  /\ pins \in [Bus -> BOOLEAN]
  /\ mosi \in [Bus -> {"off", "iom", "gpio"}]
  /\ selected \in [Bus -> SUBSET CS]
  /\ busUsers \in [Bus -> SUBSET Client]
  /\ devUsers \in [Device -> SUBSET Client]

(* The two reference counts are the number of references that are out, for *)
(* any order in which clients take and return buses and devices.           *)
RefcountsExact ==
  /\ \A b \in Bus : bus_refcount[b] = Cardinality(busUsers[b])
  /\ \A d \in Device : dev_refcount[d] = Cardinality(devUsers[d])

(* A bus is initialised exactly while someone holds it, a device points to *)
(* its bus exactly while someone holds it, and then its bus is initialised:*)
(* no client ever holds a pointer to a cleared entry.                      *)
NoDangling ==
  /\ \A b \in Bus : handle[b] <=> busUsers[b] # {}
  /\ \A d \in Device : /\ parent[d] <=> devUsers[d] # {}
                       /\ parent[d] => handle[d[1]]

(* The cached clock is the clock the IOM has, or will have once it wakes:  *)
(* what spi_device_update_clock relies on when it skips the configuration. *)
ClockCoherent ==
  \A b \in Bus : handle[b] =>
    IF powered[b] THEN reg[b] = current_clock[b] /\ saved[b] = NoClock
                  ELSE saved[b] = current_clock[b]

(* A client that holds a device holds its bus: the inductive invariant     *)
(* needs it to know that the last reference to a bus leaves no device.     *)
HoldersHoldBus == \A d \in Device : devUsers[d] \subseteq busUsers[d[1]]

(* Hardware that no client holds is off, with its pins released; and a bus *)
(* that is asleep drives no pin.                                           *)
OffUnlessHeld ==
  \A b \in Bus :
    /\ powered[b] => handle[b]
    /\ pins[b] <=> powered[b]
    /\ mosi[b] # "off" <=> powered[b]
    /\ selected[b] # {} => powered[b]

(* References are counted exactly, and none dangles: whatever the order in *)
(* which clients take and return buses and devices, spi_bus_deinitialize   *)
(* clears an entry when the last reference to it goes, and not before.     *)
ReferencesExact == RefcountsExact /\ NoDangling

(* The cache of the clock is right, and the power and pins of a bus are    *)
(* those of a bus that is awake, after any mix of taking, sleeping, waking *)
(* and returning by clients that do not know of each other.                *)
BusCoherent == ClockCoherent /\ OffUnlessHeld

(* Whatever is clocked out is clocked out at the clock of the device it    *)
(* addresses, whatever was done to the bus and its other devices before.   *)
TransfersAtDeviceClock ==
  [][last'.call \in {"transfer", "toggle"} /\ last'.hz # NoClock =>
        last'.hz = clock[last'.dev]]_vars
=============================================================================
