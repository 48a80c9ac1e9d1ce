SPECIFICATION Spec
CONSTANTS
  a = a
  erased = erased
  torn = torn
  mixed = mixed
  none = none
  NBlocks = 2
  BlockPages = 2
  Data <- Contents
  Erased = erased
  Torn = torn
  Mixed = mixed
  None = none
INVARIANTS
  TypeOK
  NoLostWrite
PROPERTIES
  DeviceSteps
  ImplementsDevice
