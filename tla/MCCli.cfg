SPECIFICATION Spec
CONSTANTS
  Slots = 2
  Name = {f, g}
  ring_size = 4
  Size = 2
  Char = {"a"}
  MaxTyped = 1
INVARIANTS TypeOK FilesSound HistoryRight
PROPERTY LineReturned
