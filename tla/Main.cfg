SPECIFICATION MainSpec
CONSTANTS
  Client = {main}
  Kind = {"uart", "adc"}
  AdcPin = {p16}
  Channel0 = p16
  Outcome = {"ok"}
  Buffer = 2
  Depth = 3
PROPERTY Reports
CHECK_DEADLOCK FALSE
