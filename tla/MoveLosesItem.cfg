\* A storage and two slots: a client moves an item onto a slot that is filled.
CONSTANTS
    chest = chest
    hand = hand
    belt = belt
    ore = ore
    sword = sword
    NoOwner = NoOwner
    Nothing = Nothing
    Storages <- OneStorage
    Slots <- TwoSlots
    SingleItems <- HandOnly
    Fits <- AllFit
    CanSwapSlots = {TRUE, FALSE}
    Items <- OreAndSword
    Mutables <- Swords
    StackLimit <- Limit
    Supply <- TwoOres
    RemoveAmounts = {1, 2}
    SplitAmounts = {}
    RemovalTags = {"RemovalMoving"}
    Verdicts = {"Disallowed", "NoExplicitResponse"}
    Watched <- NoAddress
    InEditor = FALSE
    MaxEntryKey = 102
    MaxStackKey = 102
    MaxVersion = 1
    MaxSlotKey = 102
    mutable = mutable
    byKind = byKind
    Nobody = Nobody
    Filters <- OneFilter
    Passes <- PassesMutables
    Sorts <- OneSort
    Rank <- RankKinds
    Linkable <- OneStorage
    Queries <- SomeQueries
    head = head
    back = back
    DefaultIDs <- OneDefault
    SlotIDs = {head, back}
    Equipment = {sword}
    NothingEquipped = Nothing
    MaxCopies = 1
    MaxSlotObjects = 4
    MaxEquipKey = 102
SPECIFICATION MCSpec
VIEW AllButLog
CHECK_DEADLOCK FALSE
PROPERTIES
    MovesLoseNothing
