----------------------------- MODULE SpiProofs -----------------------------
(***************************************************************************)
(* The invariants of Spi for any number of clients, buses, chip selects    *)
(* and clocks.                                                             *)
(***************************************************************************)
EXTENDS Spi, FiniteSetTheorems, TLAPS

(* The inductive invariant, in two parts. The references need, besides     *)
(* what TLC checks, that whoever holds a device holds its bus; they stay   *)
(* right whatever the clients do with a bus they hold. That the clock      *)
(* cache and the pins are right needs that they use it awake.              *)
RefInv ==
  /\ TypeOK
  /\ RefcountsExact
  /\ NoDangling
  /\ HoldersHoldBus

IInv == RefInv /\ BusCoherent

(* What a step does that keeps both parts, the second if it held.          *)
Kept == RefInv' /\ (BusCoherent => BusCoherent')

-----------------------------------------------------------------------------
(* select_clock always returns a clock the IOM supports.                   *)
LEMMA SelectClockSupported ==
  ASSUME NEW hz \in Request
  PROVE  SelectClock(hz) \in Ladder
<1>1. CASE AtMost(hz) = {}
  BY <1>1, LadderAssumption DEF SelectClock
<1>2. CASE AtMost(hz) # {}
  <2>1. \E c \in AtMost(hz) : \A d \in AtMost(hz) : d <= c
    BY <1>2, LadderAssumption DEF AtMost
  <2>2. (CHOOSE c \in AtMost(hz) : \A d \in AtMost(hz) : d <= c) \in AtMost(hz)
    BY <2>1
  <2> QED BY <1>2, <2>2 DEF SelectClock, AtMost
<1> QED BY <1>1, <1>2

(* What taking and returning a reference does to the number of references. *)
LEMMA Holders ==
  ASSUME NEW H \in SUBSET Client, NEW c \in Client
  PROVE  /\ Cardinality(H) \in Nat
         /\ Cardinality(H) = 0 <=> H = {}
         /\ c \notin H => Cardinality(H \cup {c}) = Cardinality(H) + 1
         /\ c \in H => /\ Cardinality(H \ {c}) = Cardinality(H) - 1
                       /\ Cardinality(H) = 1 <=> H \ {c} = {}
<1>1. IsFiniteSet(H)
  BY ClientAssumption, FS_Subset
<1>2. Cardinality(H) \in Nat /\ (Cardinality(H) = 0 <=> H = {})
  BY <1>1, FS_CardinalityType, FS_EmptySet
<1>3. c \notin H => Cardinality(H \cup {c}) = Cardinality(H) + 1
  BY <1>1, FS_AddElement
<1>4. ASSUME c \in H
      PROVE  /\ Cardinality(H \ {c}) = Cardinality(H) - 1
             /\ Cardinality(H) = 1 <=> H \ {c} = {}
  <2>1. IsFiniteSet(H \ {c}) /\ Cardinality(H \ {c}) = Cardinality(H) - 1
    BY <1>1, <1>4, FS_RemoveElement
  <2>2. Cardinality(H \ {c}) = 0 <=> H \ {c} = {}
    BY <2>1, FS_EmptySet
  <2> QED BY <1>2, <2>1, <2>2
<1> QED BY <1>2, <1>3, <1>4

LEMMA DeviceParts ==
  ASSUME NEW d \in Device
  PROVE  d[1] \in Bus /\ d[2] \in CS
BY DEF Device

-----------------------------------------------------------------------------
LEMMA InitIInv == Init => IInv
<1> SUFFICES ASSUME Init PROVE IInv
  OBVIOUS
<1>1. TypeOK
  BY LadderAssumption DEF Init, TypeOK
<1>2. RefcountsExact
  BY FS_EmptySet DEF Init, RefcountsExact
<1>3. NoDangling /\ HoldersHoldBus /\ BusCoherent
  BY DeviceParts DEF Init, NoDangling, HoldersHoldBus, BusCoherent, ClockCoherent, OffUnlessHeld
<1> QED BY <1>1, <1>2, <1>3 DEF IInv, RefInv

LEMMA BusGetKept ==
  ASSUME RefInv, NEW c \in Client, NEW b \in Bus, BusGetInstance(c, b)
  PROVE  Kept
<1> USE DEF RefInv, Kept
<1>0. BootClock \in Nat
  BY LadderAssumption
<1>1. TypeOK'
  <2>1. /\ bus_refcount' \in [Bus -> Nat]
        /\ parent' \in [Device -> BOOLEAN]
        /\ clock' \in [Device -> Nat]
        /\ dev_refcount' \in [Device -> Nat]
        /\ busUsers' \in [Bus -> SUBSET Client]
        /\ devUsers' \in [Device -> SUBSET Client]
    BY DEF BusGetInstance, TypeOK
  <2>2. CASE handle[b]
    <3>1. UNCHANGED <<spi_config, handle, current_clock, hardware>>
      BY <2>2 DEF BusGetInstance
    <3> QED BY <2>1, <3>1 DEF TypeOK, hardware
  <2>3. CASE ~handle[b]
    <3>1. BusInitialize(b)
      BY <2>3 DEF BusGetInstance
    <3>2. /\ spi_config' \in Nat
          /\ handle' \in [Bus -> BOOLEAN]
          /\ current_clock' \in [Bus -> Nat]
      BY <1>0, <3>1 DEF BusInitialize, TypeOK
    <3>3. /\ powered' \in [Bus -> BOOLEAN]
          /\ reg' \in [Bus -> Nat \cup {NoClock}]
          /\ saved' \in [Bus -> Nat \cup {NoClock}]
      BY <1>0, <3>1 DEF BusInitialize, TypeOK
    <3>4. /\ pins' \in [Bus -> BOOLEAN]
          /\ mosi' \in [Bus -> {"off", "iom", "gpio"}]
          /\ selected' \in [Bus -> SUBSET CS]
      BY <3>1 DEF BusInitialize, TypeOK
    <3> QED BY <2>1, <3>2, <3>3, <3>4 DEF TypeOK
  <2> QED BY <2>2, <2>3
<1>2. RefcountsExact'
  <2>1. bus_refcount'[b] = Cardinality(busUsers'[b])
    <3>1. /\ busUsers[b] \in SUBSET Client /\ c \notin busUsers[b]
          /\ bus_refcount[b] = Cardinality(busUsers[b])
      BY DEF BusGetInstance, TypeOK, RefcountsExact
    <3>2. /\ busUsers'[b] = busUsers[b] \cup {c}
          /\ bus_refcount'[b] = bus_refcount[b] + 1
      BY DEF BusGetInstance, TypeOK
    <3>3. Cardinality(busUsers[b] \cup {c}) = Cardinality(busUsers[b]) + 1
      BY <3>1, Holders
    <3> QED BY <3>1, <3>2, <3>3
  <2>2. \A e \in Bus \ {b} : bus_refcount'[e] = Cardinality(busUsers'[e])
    BY DEF BusGetInstance, TypeOK, RefcountsExact
  <2>3. \A d \in Device : dev_refcount'[d] = Cardinality(devUsers'[d])
    BY DEF BusGetInstance, RefcountsExact
  <2> QED BY <2>1, <2>2, <2>3 DEF RefcountsExact
<1>3. handle'[b] /\ \A e \in Bus \ {b} : handle'[e] = handle[e]
  BY DEF BusGetInstance, BusInitialize, TypeOK
<1>4. NoDangling'
  <2>1. \A e \in Bus : handle'[e] <=> busUsers'[e] # {}
    BY <1>3 DEF BusGetInstance, TypeOK, NoDangling
  <2>2. \A d \in Device : /\ parent'[d] <=> devUsers'[d] # {}
                          /\ parent'[d] => handle'[d[1]]
    BY <1>3, DeviceParts DEF BusGetInstance, NoDangling
  <2> QED BY <2>1, <2>2 DEF NoDangling
<1>5. HoldersHoldBus'
  BY DeviceParts DEF BusGetInstance, TypeOK, HoldersHoldBus
<1>6. ASSUME BusCoherent PROVE BusCoherent'
  <2> USE <1>6 DEF BusCoherent
  <2>1. CASE handle[b]
    BY <2>1 DEF BusGetInstance, hardware, ClockCoherent, OffUnlessHeld
  <2>2. CASE ~handle[b]
    <3>1. BusInitialize(b)
      BY <2>2 DEF BusGetInstance
    <3>2. ClockCoherent'
      BY <3>1 DEF BusInitialize, TypeOK, ClockCoherent
    <3>3. OffUnlessHeld'
      BY <3>1 DEF BusInitialize, TypeOK, OffUnlessHeld
    <3> QED BY <3>2, <3>3
  <2> QED BY <2>1, <2>2
<1> QED BY <1>1, <1>2, <1>4, <1>5, <1>6

LEMMA DeviceGetKept ==
  ASSUME RefInv, NEW c \in Client, NEW d \in Device, NEW hz \in Request,
         DeviceGetInstance(c, d, hz)
  PROVE  Kept
<1> USE DEF RefInv, Kept
<1>0. SelectClock(hz) \in Nat
  BY SelectClockSupported, LadderAssumption
<1>1. /\ dev_refcount' = [dev_refcount EXCEPT ![d] = @ + 1]
      /\ devUsers' = [devUsers EXCEPT ![d] = @ \cup {c}]
      /\ c \in busUsers[d[1]] /\ c \notin devUsers[d]
      /\ UNCHANGED <<spi_config, handle, current_clock, bus_refcount, busUsers,
                     hardware>>
  BY DEF DeviceGetInstance
<1>2. /\ parent' \in [Device -> BOOLEAN] /\ clock' \in [Device -> Nat]
      /\ parent'[d] = TRUE
      /\ \A e \in Device \ {d} : parent'[e] = parent[e]
  <2>1. CASE parent[d]
    BY <2>1 DEF DeviceGetInstance, TypeOK
  <2>2. CASE ~parent[d]
    BY <1>0, <2>2 DEF DeviceGetInstance, TypeOK
  <2> QED BY <2>1, <2>2
<1>3. TypeOK'
  <2>1. /\ dev_refcount' \in [Device -> Nat]
        /\ devUsers' \in [Device -> SUBSET Client]
    BY <1>1 DEF TypeOK
  <2> QED BY <1>1, <1>2, <2>1 DEF TypeOK, hardware
<1>4. RefcountsExact'
  <2>1. /\ devUsers[d] \in SUBSET Client
        /\ dev_refcount[d] = Cardinality(devUsers[d])
    BY DEF TypeOK, RefcountsExact
  <2>2. Cardinality(devUsers[d] \cup {c}) = Cardinality(devUsers[d]) + 1
    BY <1>1, <2>1, Holders
  <2> QED BY <1>1, <2>1, <2>2 DEF TypeOK, RefcountsExact
<1>5. NoDangling'
  <2>1. handle[d[1]]
    BY <1>1, DeviceParts DEF NoDangling
  <2>2. \A e \in Device : devUsers'[e] # {} <=> e = d \/ devUsers[e] # {}
    BY <1>1 DEF TypeOK
  <2> QED BY <1>1, <1>2, <2>1, <2>2 DEF NoDangling
<1>6. HoldersHoldBus'
  BY <1>1 DEF TypeOK, HoldersHoldBus
<1>7. ASSUME BusCoherent PROVE BusCoherent'
  BY <1>1, <1>7 DEF hardware, BusCoherent, ClockCoherent, OffUnlessHeld
<1> QED BY <1>3, <1>4, <1>5, <1>6, <1>7

(* Not the last reference: one less is out, and nothing else changes.      *)
LEMMA BusReleaseKept ==
  ASSUME RefInv, NEW c \in Client, NEW b \in Bus, BusDeinitialize(c, b),
         bus_refcount[b] # 1
  PROVE  Kept
<1> USE DEF RefInv, Kept
<1>1. /\ bus_refcount' = [bus_refcount EXCEPT ![b] = @ - 1]
      /\ busUsers' = [busUsers EXCEPT ![b] = @ \ {c}]
      /\ UNCHANGED <<spi_config, devUsers, handle, current_clock, parent, clock,
                     dev_refcount, hardware>>
      /\ c \in busUsers[b] /\ bus_refcount[b] > 0
      /\ \A s \in CS : c \notin devUsers[<<b, s>>]
  BY DEF BusDeinitialize
<1>2. /\ busUsers[b] \in SUBSET Client
      /\ bus_refcount[b] = Cardinality(busUsers[b])
      /\ bus_refcount[b] \in Nat
  BY DEF TypeOK, RefcountsExact
<1>3. /\ Cardinality(busUsers[b] \ {c}) = Cardinality(busUsers[b]) - 1
      /\ busUsers[b] \ {c} # {}
  BY <1>1, <1>2, Holders
<1>4. TypeOK'
  <2>1. bus_refcount[b] - 1 \in Nat
    BY <1>1, <1>2
  <2>2. bus_refcount' \in [Bus -> Nat] /\ busUsers' \in [Bus -> SUBSET Client]
    BY <1>1, <2>1 DEF TypeOK
  <2> QED BY <1>1, <2>2 DEF TypeOK, hardware
<1>5. RefcountsExact'
  BY <1>1, <1>2, <1>3 DEF TypeOK, RefcountsExact
<1>6. NoDangling'
  BY <1>1, <1>3 DEF TypeOK, NoDangling
<1>7. HoldersHoldBus'
  <2> SUFFICES ASSUME NEW d \in Device PROVE devUsers[d] \subseteq busUsers'[d[1]]
    BY <1>1 DEF HoldersHoldBus
  <2>1. CASE d[1] = b
    <3>1. d = <<b, d[2]>> /\ d[2] \in CS
      BY <2>1 DEF Device
    <3>2. c \notin devUsers[d]
      BY <1>1, <3>1
    <3> QED BY <1>1, <2>1, <3>2 DEF TypeOK, HoldersHoldBus
  <2>2. CASE d[1] # b
    BY <1>1, <2>2, DeviceParts DEF TypeOK, HoldersHoldBus
  <2> QED BY <2>1, <2>2
<1>8. ASSUME BusCoherent PROVE BusCoherent'
  BY <1>1, <1>8 DEF hardware, BusCoherent, ClockCoherent, OffUnlessHeld
<1> QED BY <1>4, <1>5, <1>6, <1>7, <1>8

(* The last reference: no device of the bus is held, so clearing the whole *)
(* entry clears nothing that a client still holds.                         *)
LEMMA BusClearKept ==
  ASSUME RefInv, NEW c \in Client, NEW b \in Bus, BusDeinitialize(c, b),
         bus_refcount[b] = 1
  PROVE  Kept
<1> USE DEF RefInv, Kept
<1>1. /\ busUsers' = [busUsers EXCEPT ![b] = @ \ {c}]
      /\ bus_refcount' = [bus_refcount EXCEPT ![b] = 0]
      /\ UNCHANGED <<spi_config, devUsers>>
      /\ handle' = [handle EXCEPT ![b] = FALSE]
      /\ current_clock' = [current_clock EXCEPT ![b] = 0]
      /\ c \in busUsers[b]
      /\ \A s \in CS : c \notin devUsers[<<b, s>>]
  BY DEF BusDeinitialize
<1>2. /\ parent' = [d \in Device |-> IF d[1] = b THEN FALSE ELSE parent[d]]
      /\ clock' = [d \in Device |-> IF d[1] = b THEN 0 ELSE clock[d]]
      /\ dev_refcount' =
           [d \in Device |-> IF d[1] = b THEN 0 ELSE dev_refcount[d]]
  BY DEF BusDeinitialize
<1>3. /\ powered' = [powered EXCEPT ![b] = FALSE]
      /\ reg' = [reg EXCEPT ![b] = NoClock]
      /\ saved' = [saved EXCEPT ![b] = NoClock]
      /\ pins' = [pins EXCEPT ![b] = FALSE]
      /\ mosi' = [mosi EXCEPT ![b] = "off"]
      /\ selected' = [selected EXCEPT ![b] = {}]
  BY DEF BusDeinitialize
<1>4. busUsers[b] \ {c} = {}
  <2>1. busUsers[b] \in SUBSET Client /\ Cardinality(busUsers[b]) = 1
    BY DEF TypeOK, RefcountsExact
  <2> QED BY <1>1, <2>1, Holders
<1>5. ASSUME NEW d \in Device, d[1] = b
      PROVE  devUsers[d] = {} /\ parent[d] = FALSE
  <2>1. d = <<b, d[2]>> /\ d[2] \in CS
    BY <1>5 DEF Device
  <2>2. c \notin devUsers[d]
    BY <1>1, <2>1
  <2>3. devUsers[d] \subseteq busUsers[b]
    BY <1>5 DEF HoldersHoldBus
  <2>4. devUsers[d] = {}
    BY <1>4, <2>2, <2>3
  <2> QED BY <2>4 DEF NoDangling, TypeOK
<1>6. TypeOK'
  <2>1. /\ busUsers' \in [Bus -> SUBSET Client]
        /\ bus_refcount' \in [Bus -> Nat]
        /\ handle' \in [Bus -> BOOLEAN]
        /\ current_clock' \in [Bus -> Nat]
    BY <1>1 DEF TypeOK
  <2>2. /\ parent' \in [Device -> BOOLEAN]
        /\ clock' \in [Device -> Nat]
        /\ dev_refcount' \in [Device -> Nat]
    BY <1>2 DEF TypeOK
  <2>3. /\ powered' \in [Bus -> BOOLEAN]
        /\ reg' \in [Bus -> Nat \cup {NoClock}]
        /\ saved' \in [Bus -> Nat \cup {NoClock}]
    BY <1>3 DEF TypeOK
  <2>4. /\ pins' \in [Bus -> BOOLEAN]
        /\ mosi' \in [Bus -> {"off", "iom", "gpio"}]
        /\ selected' \in [Bus -> SUBSET CS]
    BY <1>3 DEF TypeOK
  <2> QED BY <1>1, <2>1, <2>2, <2>3, <2>4 DEF TypeOK
<1>7. RefcountsExact'
  <2>1. \A e \in Bus : bus_refcount'[e] = Cardinality(busUsers'[e])
    BY <1>1, <1>4, FS_EmptySet DEF TypeOK, RefcountsExact
  <2>2. \A d \in Device : dev_refcount'[d] = Cardinality(devUsers'[d])
    BY <1>1, <1>2, <1>5, FS_EmptySet DEF RefcountsExact
  <2> QED BY <2>1, <2>2 DEF RefcountsExact
<1>8. NoDangling'
  <2>1. \A e \in Bus : handle'[e] <=> busUsers'[e] # {}
    BY <1>1, <1>4 DEF TypeOK, NoDangling
  <2>2. ASSUME NEW d \in Device
        PROVE  /\ parent'[d] <=> devUsers'[d] # {}
               /\ parent'[d] => handle'[d[1]]
    <3>1. CASE d[1] = b
      BY <1>1, <1>2, <1>5, <3>1
    <3>2. CASE d[1] # b
      <4>1. parent'[d] = parent[d] /\ handle'[d[1]] = handle[d[1]]
        BY <1>1, <1>2, <3>2, DeviceParts DEF TypeOK
      <4> QED BY <1>1, <4>1 DEF NoDangling
    <3> QED BY <3>1, <3>2
  <2> QED BY <2>1, <2>2 DEF NoDangling
<1>9. HoldersHoldBus'
  <2> SUFFICES ASSUME NEW d \in Device PROVE devUsers[d] \subseteq busUsers'[d[1]]
    BY <1>1 DEF HoldersHoldBus
  <2>1. CASE d[1] = b
    BY <1>5, <2>1
  <2>2. CASE d[1] # b
    BY <1>1, <2>2, DeviceParts DEF TypeOK, HoldersHoldBus
  <2> QED BY <2>1, <2>2
<1>10. ASSUME BusCoherent PROVE BusCoherent'
  <2>1. ClockCoherent'
    BY <1>1, <1>3, <1>10 DEF TypeOK, BusCoherent, ClockCoherent
  <2>2. OffUnlessHeld'
    BY <1>1, <1>3, <1>10 DEF TypeOK, BusCoherent, OffUnlessHeld
  <2> QED BY <2>1, <2>2 DEF BusCoherent
<1> QED BY <1>6, <1>7, <1>8, <1>9, <1>10

LEMMA DeviceDeinitKept ==
  ASSUME RefInv, NEW c \in Client, NEW d \in Device, DeviceDeinitialize(c, d)
  PROVE  Kept
<1> USE DEF RefInv, Kept
<1>1. /\ dev_refcount' = [dev_refcount EXCEPT ![d] = @ - 1]
      /\ devUsers' = [devUsers EXCEPT ![d] = @ \ {c}]
      /\ c \in devUsers[d] /\ dev_refcount[d] > 0
      /\ UNCHANGED <<spi_config, handle, current_clock, bus_refcount, busUsers,
                     hardware>>
  BY DEF DeviceDeinitialize
<1>2. /\ devUsers[d] \in SUBSET Client
      /\ dev_refcount[d] = Cardinality(devUsers[d])
      /\ dev_refcount[d] \in Nat
  BY DEF TypeOK, RefcountsExact
<1>3. /\ Cardinality(devUsers[d] \ {c}) = Cardinality(devUsers[d]) - 1
      /\ dev_refcount[d] = 1 <=> devUsers[d] \ {c} = {}
  <2>1. Cardinality(devUsers[d] \ {c}) = Cardinality(devUsers[d]) - 1
    BY <1>1, <1>2, Holders
  <2>2. Cardinality(devUsers[d]) = 1 <=> devUsers[d] \ {c} = {}
    BY <1>1, <1>2, Holders
  <2> QED BY <1>2, <2>1, <2>2
<1>4. TypeOK'
  <2>1. parent' \in [Device -> BOOLEAN] /\ clock' \in [Device -> Nat]
    <3>1. CASE dev_refcount[d] = 1
      <4>1. /\ parent' = [parent EXCEPT ![d] = FALSE]
            /\ clock' = [clock EXCEPT ![d] = 0]
        BY <3>1 DEF DeviceDeinitialize
      <4> QED BY <4>1 DEF TypeOK
    <3>2. CASE dev_refcount[d] # 1
      <4>1. UNCHANGED <<parent, clock>>
        BY <3>2 DEF DeviceDeinitialize
      <4> QED BY <4>1 DEF TypeOK
    <3> QED BY <3>1, <3>2
  <2>2. dev_refcount[d] - 1 \in Nat
    BY <1>1, <1>2
  <2>3. /\ dev_refcount' \in [Device -> Nat]
        /\ devUsers' \in [Device -> SUBSET Client]
    BY <1>1, <2>2 DEF TypeOK
  <2> QED BY <1>1, <2>1, <2>3 DEF TypeOK, hardware
<1>5. RefcountsExact'
  BY <1>1, <1>2, <1>3 DEF TypeOK, RefcountsExact
<1>6. NoDangling'
  <2>1. \A e \in Device \ {d} : parent'[e] = parent[e]
    BY DEF DeviceDeinitialize, TypeOK
  <2>2. CASE dev_refcount[d] = 1
    <3>1. parent'[d] = FALSE
      BY <2>2 DEF DeviceDeinitialize, TypeOK
    <3> QED BY <1>1, <1>3, <2>1, <2>2, <3>1 DEF TypeOK, NoDangling
  <2>3. CASE dev_refcount[d] # 1
    <3>1. parent'[d] = parent[d]
      BY <2>3 DEF DeviceDeinitialize
    <3> QED BY <1>1, <1>3, <2>1, <2>3, <3>1 DEF TypeOK, NoDangling
  <2> QED BY <2>2, <2>3
<1>7. HoldersHoldBus'
  BY <1>1 DEF TypeOK, HoldersHoldBus
<1>8. ASSUME BusCoherent PROVE BusCoherent'
  BY <1>1, <1>8 DEF hardware, BusCoherent, ClockCoherent, OffUnlessHeld
<1> QED BY <1>4, <1>5, <1>6, <1>7, <1>8

(* Sleeping and waking: only the hardware changes. Putting to sleep a bus  *)
(* that sleeps already loses what it is to wake up with.                   *)
LEMMA PowerKept ==
  ASSUME RefInv, NEW c \in Client, NEW b \in Bus,
         BusSleep(c, b) \/ BusEnable(c, b)
  PROVE  RefInv' /\ (BusCoherent /\ (powered[b] \/ BusEnable(c, b)) => BusCoherent')
<1> USE DEF RefInv, Kept, BusSleep, BusEnable, software, users, hardware
<1>1. TypeOK'
  BY DEF TypeOK
<1>2. RefcountsExact' /\ NoDangling' /\ HoldersHoldBus'
  BY DEF RefcountsExact, NoDangling, HoldersHoldBus
<1>3. NoClock \notin Nat /\ handle[b]
  BY LadderAssumption DEF NoDangling
<1>4. ASSUME BusCoherent, powered[b] \/ BusEnable(c, b) PROVE BusCoherent'
  <2> USE <1>3, <1>4 DEF BusCoherent
  <2>1. ClockCoherent'
    BY DEF TypeOK, ClockCoherent
  <2>2. OffUnlessHeld'
    BY DEF TypeOK, OffUnlessHeld
  <2> QED BY <2>1, <2>2
<1> QED BY <1>1, <1>2, <1>4

LEMMA SetClockKept ==
  ASSUME RefInv, NEW c \in Client, NEW d \in Device, NEW hz \in Request,
         DeviceSetClock(c, d, hz)
  PROVE  Kept
<1> USE DEF RefInv, Kept, DeviceSetClock, hardware, users
<1>0. SelectClock(hz) \in Nat
  BY SelectClockSupported, LadderAssumption
<1>1. TypeOK'
  BY <1>0 DEF TypeOK
<1>2. RefcountsExact' /\ NoDangling' /\ HoldersHoldBus'
  BY DEF RefcountsExact, NoDangling, HoldersHoldBus
<1>3. ASSUME BusCoherent PROVE BusCoherent'
  BY <1>3 DEF BusCoherent, ClockCoherent, OffUnlessHeld
<1> QED BY <1>1, <1>2, <1>3

(* Using a device of a bus that is awake: the clock register follows the   *)
(* cache.                                                                  *)
LEMMA UseKept ==
  ASSUME RefInv, NEW c \in Client, NEW d \in Device, Use(c, d)
  PROVE  RefInv' /\ (BusCoherent /\ powered[d[1]] => BusCoherent')
<1> USE DEF RefInv, users
<1>1. ASSUME UpdateClock(d),
             UNCHANGED <<handle, bus_refcount, parent, clock, dev_refcount,
                         powered, saved, pins, mosi, users>>,
             selected' \in [Bus -> SUBSET CS],
             \A b \in Bus \ {d[1]} : selected'[b] = selected[b]
      PROVE  RefInv' /\ (BusCoherent /\ powered[d[1]] => BusCoherent')
  <2> USE DEF UpdateClock, Configured
  <2>1. TypeOK'
    BY <1>1, DeviceParts DEF TypeOK
  <2>2. RefcountsExact' /\ NoDangling' /\ HoldersHoldBus'
    BY <1>1 DEF RefcountsExact, NoDangling, HoldersHoldBus
  <2>3. ASSUME BusCoherent, powered[d[1]] PROVE BusCoherent'
    <3>1. ClockCoherent'
      BY <1>1, <2>3, DeviceParts DEF TypeOK, BusCoherent, ClockCoherent
    <3>2. OffUnlessHeld'
      BY <1>1, <2>3, DeviceParts DEF TypeOK, BusCoherent, OffUnlessHeld
    <3> QED BY <3>1, <3>2 DEF BusCoherent
  <2> QED BY <2>1, <2>2, <2>3
<1>2. ASSUME NEW continue \in BOOLEAN, Transfer(c, d, continue)
      PROVE  RefInv' /\ (BusCoherent /\ powered[d[1]] => BusCoherent')
  BY <1>1, <1>2, DeviceParts DEF Transfer, TypeOK
<1>3. CASE Toggle(c, d)
  BY <1>1, <1>3, DeviceParts DEF Toggle, TypeOK
<1>4. CASE DeviceHoldMosi(c, d) \/ DeviceReleaseMosi(c, d)
  <2> USE <1>4 DEF DeviceHoldMosi, DeviceReleaseMosi, software
  <2>1. TypeOK'
    BY DeviceParts DEF TypeOK
  <2>2. RefcountsExact' /\ NoDangling' /\ HoldersHoldBus'
    BY DEF RefcountsExact, NoDangling, HoldersHoldBus
  <2>3. ASSUME BusCoherent, powered[d[1]] PROVE BusCoherent'
    BY <2>3, DeviceParts DEF TypeOK, BusCoherent, ClockCoherent, OffUnlessHeld
  <2> QED BY <2>1, <2>2, <2>3
<1> QED BY <1>2, <1>3, <1>4 DEF Use

LEMMA LifecycleKept == ASSUME RefInv, Lifecycle PROVE Kept
BY BusGetKept, BusReleaseKept, BusClearKept, PowerKept, DeviceDeinitKept,
   DeviceGetKept, SetClockKept DEF Lifecycle, Kept

LEMMA StutterKept == ASSUME RefInv, UNCHANGED vars PROVE Kept
BY DEF RefInv, Kept, BusCoherent, TypeOK, RefcountsExact, NoDangling, HoldersHoldBus,
   ClockCoherent, OffUnlessHeld, vars, software, hardware, users

LEMMA NextIInv == IInv /\ [Next]_vars => IInv'
<1> SUFFICES ASSUME IInv, [Next]_vars PROVE IInv'
  OBVIOUS
<1>1. CASE Lifecycle
  BY <1>1, LifecycleKept DEF IInv, Kept
<1>2. CASE \E c \in Client, b \in Bus : powered[b] /\ BusSleep(c, b)
  BY <1>2, PowerKept DEF IInv
<1>3. CASE \E c \in Client, d \in Device : powered[d[1]] /\ Use(c, d)
  BY <1>3, UseKept DEF IInv
<1>4. CASE UNCHANGED vars
  BY <1>4, StutterKept DEF IInv, Kept
<1> QED BY <1>1, <1>2, <1>3, <1>4 DEF Next

(* The inductive invariant holds throughout.                               *)
THEOREM Invariance == Spec => []IInv
<1>1. Init => IInv
  BY InitIInv
<1>2. IInv /\ [Next]_vars => IInv'
  BY NextIInv
<1> QED BY <1>1, <1>2, PTL DEF Spec

(* Type correctness.                                                       *)
THEOREM TypeCorrect == Spec => []TypeOK
BY Invariance, PTL DEF IInv, RefInv

(* Reference counts count references, and nobody holds a cleared entry,    *)
(* for clients that use, or put to sleep, a bus that sleeps as well.       *)
THEOREM ReferencesSound == (Spec \/ SpecUnchecked) => []ReferencesExact
<1>1. RefInv => ReferencesExact
  BY DEF RefInv, ReferencesExact
<1>2. Init => RefInv
  BY InitIInv DEF IInv
<1>3. RefInv /\ [Next \/ NextUnchecked]_vars => RefInv'
  BY LifecycleKept, PowerKept, UseKept, StutterKept DEF Next, NextUnchecked, Kept
<1>4. /\ [Next]_vars => [Next \/ NextUnchecked]_vars
      /\ [NextUnchecked]_vars => [Next \/ NextUnchecked]_vars
  OBVIOUS
<1> QED BY <1>1, <1>2, <1>3, <1>4, PTL DEF Spec, SpecUnchecked

(* The clock cache of spi_device_update_clock is never stale, and hardware *)
(* is powered only while it is held.                                       *)
THEOREM ClockCacheSound == Spec => []BusCoherent
<1>1. IInv => BusCoherent
  BY DEF IInv
<1> QED BY <1>1, Invariance, PTL

(* Nothing is clocked out at another clock than that of the device         *)
(* addressed: the cache is coherent before the step, so skipping the       *)
(* configuration is sound, and configuring sets the device's clock.        *)
THEOREM TransferClock == Spec => TransfersAtDeviceClock
<1> DEFINE AtDeviceClock ==
      last'.call \in {"transfer", "toggle"} /\ last'.hz # NoClock =>
        last'.hz = clock[last'.dev]
<1>1. ASSUME IInv, [Next]_vars
      PROVE  [AtDeviceClock]_vars
  <2> SUFFICES ASSUME Next PROVE AtDeviceClock
    BY <1>1
  <2>1. CASE Lifecycle
    <3>1. ASSUME NEW c \in Client, NEW b \in Bus,
                 \/ BusGetInstance(c, b)
                 \/ BusDeinitialize(c, b)
                 \/ BusEnable(c, b)
          PROVE  last'.call = "none"
      <4>1. last' = Idle
        BY <3>1, Zenon DEF BusGetInstance, BusDeinitialize, BusEnable
      <4> QED BY <4>1 DEF Idle
    <3>2. ASSUME NEW c \in Client, NEW d \in Device, DeviceDeinitialize(c, d)
          PROVE  last'.call = "none"
      BY <3>2 DEF DeviceDeinitialize, Idle
    <3>3. ASSUME NEW c \in Client, NEW d \in Device, NEW hz \in Request,
                 DeviceGetInstance(c, d, hz) \/ DeviceSetClock(c, d, hz)
          PROVE  last'.call = "none"
      BY <3>3 DEF DeviceGetInstance, DeviceSetClock, Idle
    <3> QED BY <2>1, <3>1, <3>2, <3>3 DEF Lifecycle
  <2>2. CASE \E c \in Client, b \in Bus : powered[b] /\ BusSleep(c, b)
    BY <2>2 DEF BusSleep, Idle
  <2>3. ASSUME NEW c \in Client, NEW d \in Device, powered[d[1]], Use(c, d)
        PROVE  AtDeviceClock
    <3>1. CASE DeviceHoldMosi(c, d) \/ DeviceReleaseMosi(c, d)
      BY <3>1 DEF DeviceHoldMosi, DeviceReleaseMosi, Idle
    <3>2. CASE (\E continue \in BOOLEAN : Transfer(c, d, continue)) \/ Toggle(c, d)
      <4>1. UpdateClock(d) /\ last'.dev = d /\ last'.hz = reg'[d[1]]
        BY <3>2 DEF Transfer, Toggle
      <4>2. d[1] \in Bus /\ reg[d[1]] = current_clock[d[1]]
        BY <1>1, <2>3, DeviceParts DEF IInv, BusCoherent, OffUnlessHeld, ClockCoherent
      <4>3. reg'[d[1]] = clock[d]
        BY <1>1, <2>3, <4>1, <4>2 DEF IInv, RefInv, TypeOK, UpdateClock, Configured
      <4> QED BY <4>1, <4>3
    <3> QED BY <2>3, <3>1, <3>2 DEF Use
  <2> QED BY <2>1, <2>2, <2>3 DEF Next
<1>2. Spec => []IInv
  BY Invariance
<1> QED BY <1>1, <1>2, PTL DEF Spec, TransfersAtDeviceClock
=============================================================================
