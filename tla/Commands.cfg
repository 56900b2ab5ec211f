SPECIFICATION FairSpec
CONSTANTS
  Batch = 2
  ChatFilter = TRUE
  BotFilter = TRUE
  Traffic <- MCTraffic
  MaxUpdates = 4
  MaxRestarts = 2
INVARIANTS NoCommandLost ObeyedInOrder
PROPERTIES EveryCommandObeyed
