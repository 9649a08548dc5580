SPECIFICATION FairSpec
CONSTANTS
  Moving <- MCMoving
  MaxRestarts = 1
  Records = {"p", "q"}
  Catalog = {"c"}
  Starts <- MCStarts
  MaxRows = 4
  PerTick = 2
  MaxAttempts = 2
  Trades <- MCTrades
  Histories <- MCHistories
  Proposals <- MCProposals
  Community <- MCCommunity
  MinTrades = 2
  MinApplied = 3
  MaxRefines = 2
  Messages <- MCMessages
  Positions = {"p", "q"}
  Slots = {"job"}
  MaxMessages = 2
  MaxTools = 1
  Mints = {"a", "b"}
  Program <- MCProgram
  Worths <- MCWorths
  Retries = 2
  MaxCloses = 2
  Tools = {"deploy", "close", "read"}
  NoRetry = {"deploy"}
  Once = {"close"}
  Callers <- MCCallers
  Replies <- MCReplies
  MaxRequests = 3
INVARIANTS TrackRecord AdviceIsNarrow AckedIsHandled RequestIsValid FiresOnce
PROPERTIES ReviewEnds WithdrawnIsSold
CHECK_DEADLOCK FALSE
