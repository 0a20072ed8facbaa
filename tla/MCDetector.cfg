SPECIFICATION LSpec
CONSTANTS
  IPs = {a, b}
  Threshold = 3
  Window = 2
  Times <- MCTimes
  Subscribers <- MCSubscribers
  NoEvent = NoEvent
  NoEntry = NoEntry
  Garbled = Garbled
  Repeats = {0, 1, 2, 7}
INVARIANTS
  TypeOK
  BreachAtThreshold
  BreachWithinWindow
  EverySubscriberHeard
  RepeatsAccounted
PROPERTY ImplementsSlidingWindow
