SPECIFICATION Spec
CONSTANTS
  a1 = a1  a2 = a2  c1 = c1  c2 = c2  c3 = c3
  oldRoot = oldRoot  newRoot = newRoot
  oldLeaf = oldLeaf  newLeaf = newLeaf
  Anchor = {a1, a2}
  Chain = {c1, c2, c3}
  Certificate = {oldRoot, newRoot}
  Bundle = {oldLeaf, newLeaf}
  Signs <- SignedBy
  NoOne = NoOne
  Request = {r1, r2}
  SeedAnchor <- OldRootOnly
  SeedChain <- OldLeafOnly
  MaxLog <- Bounds
SYMMETRY Symmetry
INVARIANTS TypeOK LogTellsAnchor RevocationHolds ChainLogIsWalk ChainsAreAnchored
PROPERTY ImplementsInventory
