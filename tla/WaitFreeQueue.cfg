\* Four slots, so three items: the ring fills, wraps and empties.
CONSTANTS
  N = 4
  Values = {v1, v2}
  NoValue = none
SPECIFICATION Spec
INVARIANTS
  TypeOK
  RingOrder
  Inv
  NoDataRace
PROPERTIES
  ImplementsFifo
  PushReturns
  PopReturns
  OldestIsTaken
  DrainsWhenQuiet
