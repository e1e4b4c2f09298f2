SPECIFICATION Spec
INVARIANT
  PauseAgreesAtRest
