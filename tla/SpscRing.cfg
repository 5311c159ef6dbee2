SPECIFICATION FairSpec
CONSTANTS
  Cap = 4
  Samples = {0, 1}
  Consumers = {c1}
  MaxDrains <- MCMaxDrains
  MaxPushes = 5
INVARIANTS RingInv NoSlotRace
PROPERTIES RingIsBoundedQueue EverySampleDelivered
CHECK_DEADLOCK FALSE
