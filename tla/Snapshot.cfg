SPECIFICATION Spec
CONSTANTS
  oldRoot = oldRoot  newRoot = newRoot
  oldChain = oldChain  midChain = midChain  newChain = newChain
  api = api  worker = worker
  Anchor = {oldRoot, newRoot}
  Chain = {oldChain, midChain, newChain}
  Service = {api, worker}
  Scenario = {k1}
  PageSize = 2
  Rank <- Rank3
  SeedAnchor <- Roots
  SeedChain <- Chains
  SeedService <- Services
  MaxWrites = 3
CHECK_DEADLOCK FALSE
INVARIANTS TypeOK OnlyThePageCuts FrozenIsBetween FrozenGraphIsSound
