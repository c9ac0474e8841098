\* Two calls, a pool of one host or of two, three processes, and a breaker that
\* opens at the second crash.
SPECIFICATION Spec
CONSTANTS
  c1 = c1
  c2 = c2
  p1 = p1
  p2 = p2
  p3 = p3
  None = None
  Call <- TwoCalls
  Patient <- OnePatient
  Proc <- ThreeProcs
  Sizes <- OneOrTwo
  Threshold = 2
CHECK_DEADLOCK FALSE
INVARIANTS
  TypeOK
  RunningIsServed
  RefusedOnlyWhenFull
  PoolBounded
  PoolInvariant
PROPERTIES
  KillIsWanted
  KilledNotCounted
  CancelIsReal
