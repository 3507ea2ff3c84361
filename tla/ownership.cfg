SPECIFICATION LiveSpec
CONSTANTS
  w1 = w1
  w2 = w2
  g1 = g1
  Nobody = Nobody
  Workers = {w1, w2}
  Gateways = {g1}
  Asks <- Both
  Score <- FirstIsBest
  MaxFaults = 2
INVARIANT TypeOK
PROPERTIES Decided OneWorkerInTheEnd EventsPublished
CHECK_DEADLOCK FALSE
