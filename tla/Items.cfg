CONSTANTS
  info = info
  uses = uses
  MutableClasses = {uses}
  ImmutableClasses = {info}
  HashedClasses = {info}
  PrimaryClasses = {info}
  Data = {d1, d2}
  d1 = d1
  d2 = d2
  NoHash = NoHash
  Designs <- TheDesigns
  MaxTokens = 4
  MaxItems = 3
  MaxHeld = 2
  pack = pack
  shelf = shelf
  hero = hero
  house = house
  coffer = coffer
  bag = bag
  rifle = rifle
  lens = lens
  Roots = {pack, shelf}
  Actor <- ActorOfRoot
  NoActor = noactor
  Nestables = {coffer, bag, rifle, lens}
  Bearers = {coffer, bag, rifle}
  Sockets = {rifle}
  FitsIn <- LensFits
  Nowhere = nowhere
SPECIFICATION MCSpec
SYMMETRY Symmetry
CHECK_DEADLOCK FALSE
INVARIANTS
  OwnersKeepTrack
  EqualItemsHaveEqualHashes
  NestingIsATree
PROPERTIES
  OnlyOwnEditsChangeImmutables
