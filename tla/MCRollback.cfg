\* Two adapters that may be plugged in late, two clicks or changes of the machine.
SPECIFICATION Spec
CONSTANTS
  Adapters = {a1, a2}
  None = None
  MaxEvents = 2
SYMMETRY Symmetry
INVARIANTS
  TypeOK
  RecordedRestored
  NoThirdValue
