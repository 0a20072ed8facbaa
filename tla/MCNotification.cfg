SPECIFICATION NFairSpec
CONSTANTS
  MaxBreaches = 3
  MaxRuns = 2
  Missing = Missing
  Empty = Empty
  Octets = {7}
  IPv6 = IPv6
  Known = {3}
  NoPlace = NoPlace
INVARIANTS
  TypeOK
  AlertsFollowBlocks
  AlertsLostOnlyBeforeTheCount
PROPERTIES
  ReportsNeverGoBack
  CountsGetReported
  DecidedBreachesAnnounced
