\* Four callers, one of which ignores its signal, and a capacity the user moves
\* between one and three.
SPECIFICATION Spec
CONSTANTS
  c1 = c1
  c2 = c2
  c3 = c3
  c4 = c4
  Caller <- AnyCaller
  Deaf <- OneDeaf
  Capacities <- UpToThree
INVARIANTS
  TypeOK
  SlotsAreHeld
  NoIdleSlot
  EntryAdmitted
  OutsidersAreTold
  GateInvariant
PROPERTIES
  KeepsTheLine
  Served
