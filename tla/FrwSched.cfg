SPECIFICATION LiveSpec
CONSTANTS
  h = h
  n1 = n1
  n2 = n2
  Queues <- MCQueues
  Policy <- MCPolicy
  Weight <- MCWeight
  MaxEvents <- MCMaxEvents
  Blocks = {b1, b2, b3}
  Posters = {p1, p2}
  FailLimit = 0
  NoBlock = none
INVARIANTS
  EventsInReach
  WeightsAddUp
  CountIsExact
  RefsExact
PROPERTIES
  EventContract
  DrainsWhenQuiet
