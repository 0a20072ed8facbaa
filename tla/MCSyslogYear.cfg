SPECIFICATION YSpec
CONSTANTS
  IPs = {a}
  Threshold = 3
  Window = 2
  Times <- MCTimes
  Subscribers <- MCSubscribers
  NoEvent = NoEvent
  Year = 8
  Horizon = 13
INVARIANT BreachWithinTrueWindow
CHECK_DEADLOCK FALSE
