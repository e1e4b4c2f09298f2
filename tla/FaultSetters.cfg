SPECIFICATION Spec
INVARIANTS
  LoneCallRepairs
