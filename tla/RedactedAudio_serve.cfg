SPECIFICATION Spec
CONSTANTS
  MaxMask = 3
  Revert = FALSE
  MaxFault = 3
INVARIANT ServedWasCurrent
INVARIANT AudioIsRemade
