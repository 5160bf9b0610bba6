\* A function that appends to a pattern before it registers it.
CONSTANTS
  Parts = {"routes"}
  Programs <- AppendPrograms
  None = None
SPECIFICATION Spec
INVARIANT FoundIsRegistered
CHECK_DEADLOCK FALSE
