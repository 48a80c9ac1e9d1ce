SPECIFICATION Spec
CONSTANTS
  Load = 4
  Word = 2
  MaxJiffies = 3
  MaxSwitches = 2
INVARIANTS TypeOK DriftBounded
PROPERTIES Accurate Monotonic
