SPECIFICATION MCSpec
CONSTANTS
  ore = ore
  sword = sword
  ghost = ghost
  common = common
  chest = chest
  one = one
  any = any
  share = share
  all = all
  drill = drill
  saw = saw
  scrap = scrap
  Plain = {ore, ghost}
  Unique = {sword}
  Pools = {common, chest}
  NoAsset = none
  DropsOf <- Drops
  Configs = {one, any, share, all}
  Procedure <- Procedures
  Amounts <- AmountsOf
  Missing = {ghost}
  InMemory <- Memories
  NoDrop = nodrop
  MaxChecks = 12
  DriverLists <- SomeDrivers
  Sources <- SomeSources
  Items = {ore, drill, saw, scrap}
  Tools = {drill, saw}
  LastUse <- LastUses
  Scrap = scrap
  Locked = {}
  NoItem = noitem
  MaxCopies = 2
  MaxUses = 2
  Regauged = {saw}
  Payments <- CostRequests
  Marks = {"sharp", "light"}
  Mutators <- AllMutators
  MutatorDepth = 3
  UpgradeConfigs <- Upgrades
  TargetLists <- Targets
INVARIANTS
  MakesWhatWasAsked
  DrawsFollowWeights
PROPERTIES
  GenerationEnds
  FailuresCostNothing
CHECK_DEADLOCK FALSE
