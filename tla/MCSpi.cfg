SPECIFICATION Spec
CONSTANTS
  flash = flash
  sdcard = sdcard
  bus0 = bus0
  cs0 = cs0
  cs1 = cs1
  none = none
  Client <- Clients
  Bus <- Buses
  CS <- Selects
  Ladder <- Clocks
  Request <- Requests
  BootClock = 2000000
  ConfigClock = 4000000
  NoClock = none
SYMMETRY Symmetry
INVARIANTS
  TypeOK
  ReferencesExact
  BusCoherent
PROPERTIES
  TransfersAtDeviceClock
