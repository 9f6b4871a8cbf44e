\* One adapter, nothing else going on: not every setting returns to its original.
SPECIFICATION Spec
CONSTANTS
  Adapters = {a1}
  None = None
  MaxEvents = 0
INVARIANT ExactRestore
