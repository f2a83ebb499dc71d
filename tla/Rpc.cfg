SPECIFICATION FairRpcSpec
CONSTANTS
  c1 = c1
  c2 = c2
  h1 = h1
  None = None
  Calls = {c1, c2}
  Hosts = {h1}
  Answers = {"Ok"}
  Types = {"T"}
  Timeout = 1
  MaxClears = 2
INVARIANTS
  OwnAnswer
  EntryReleased
  TypeIdsHandled
PROPERTIES
  CallReturns
  EntriesExpire
