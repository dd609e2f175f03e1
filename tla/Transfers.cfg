\* Two storages, the calls that move items between them, and the grid of one of
\* them, which hears of all that comes and goes.
CONSTANTS
    chest = chest
    bag = bag
    ore = ore
    sword = sword
    NoOwner = NoOwner
    Storages <- TwoStorages
    Items <- OreAndSword
    Mutables <- Swords
    StackLimit <- Limit
    Supply <- TwoOres
    RemoveAmounts = {1}
    SplitAmounts = {1}
    RemovalTags = {"RemovalMoving"}
    Verdicts = {"Disallowed", "NoExplicitResponse"}
    Watched <- NoAddress
    InEditor = TRUE
    MaxEntryKey = 103
    MaxStackKey = 103
    MaxVersion = 2
    Gridded = chest
    StartSize <- TwoCells
    GridSizes <- ThreeCells
SPECIFICATION SimpleGridSpec
VIEW AllButLog
CHECK_DEADLOCK FALSE
INVARIANTS
    OwnerHoldsItem
PROPERTIES
    CopiesConserved
    EventsNameComingAndGoing
    ComersGetCells
