SPECIFICATION FairSpec
CONSTANTS
  Thr <- Thr2
  TICK = 3
  PERUS = 2
  UINT64_MAX = 15
  Delays <- MCDelays
  MaxTime = 6
  t1 = t1
  t2 = t2
INVARIANTS
  TimerArmed
PROPERTIES
  NeverEarly
  SleepersWake
