SPECIFICATION WorkbenchSpec
CONSTANTS
  p1 = p1
  Helpers = {p1}
  Leader = Leader
  NoReason = NoReason
  MaxChunks = 2
  LocalLimit = 8
  HostedLimit = 1
  Batches <- Selections
  Saved <- SavedGames
  Nothing = Nothing
  Null = Null
  Failure = Failure
  MaxDemos = 2
  MaxActs = 2
  MaxFailures = 1
CHECK_DEADLOCK FALSE
INVARIANTS ResultIsWhole NothingIsLeft
PROPERTIES ParserSettles PageComesToRest
