SPECIFICATION NodeSpec
CONSTANTS
  Msgs <- MCMsgs
  Record <- MCRecord
  Kind <- MCKind
  Rank <- MCRank
  Parent <- MCParent
  Ancestors <- MCAncestors
  Bucket <- MCBucket
  Scope <- MCScope
  LeafOrder <- MCLeafOrder
  Large = {}
  NoRecord = "none"
  Scopes <- MCScopes
  Engines = {"h1", "h2", "live"}
  Calls = {"h1", "h2", "l1"}
  HostCalls = {"h1", "h2"}
  LiveCalls = {"l1"}
  LiveEngine = "live"
  Ops = {"Bidirectional"}
  MaxLetters = 2
  MaxFaults = 2
  Budgets = {0, 1}
  None = None
  MaxEvents = 4
  Decisions = {"forward", "suppress", "fail"}
PROPERTY Converges
CHECK_DEADLOCK FALSE
