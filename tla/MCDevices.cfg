SPECIFICATION MCSpec
CONSTANTS
  Client = {c1, c2}
  Kind <- AllKinds
  AdcPin = {p16, p29}
  Channel0 = p16
  Outcome <- AllOutcomes
  Buffer = 2
  Depth = 3
  Calendar <- MCCalendar
  Periods <- MCPeriods
  Repeats <- MCRepeats
  Pulses = {1, 2}
INVARIANTS AllTypeOK HandlersServed CountsExact PinsOffAsleep SamplesOfPins BufferWhole
  AsAsked TimerNeverMixed SampleFresh
PROPERTIES FieldsKept SampleReturned
