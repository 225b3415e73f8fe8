CONSTANTS
  Records = {r1, r2}
  Blank = blank
  Capacity = 3
  DropValues = 3
SPECIFICATION Spec
PROPERTIES
  ImplementsFifo
