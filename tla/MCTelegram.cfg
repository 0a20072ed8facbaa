SPECIFICATION FairSpec
CONSTANTS
  Chats = {c1, c2}
  TestChats = {c1, NoChat}
  NoChat = NoChat
  MaxAlerts = 3
  MaxErrors = 2
INVARIANTS
  TypeOK
  NewAlertsAreAhead
PROPERTIES
  TickedOffAfterAll
  PollerCatchesUp
  CommandsEnd
