\* All parts.
CONSTANTS
  Parts = {"impact", "call ends", "parse ends", "diff", "routes", "flows", "variants"}
  Programs <- RoutePrograms
  None = None
SPECIFICATION Spec
INVARIANTS
  ImpactIsComplete
  TouchedDeclarations
  FoundIsRegistered
  LiveIsCurrent
  ImplementsAsWritten
PROPERTY EveryCallEnds
\* Calls end.
CHECK_DEADLOCK FALSE
