\* One storage: every call on it, additions beyond the stack limit included, and proxies
\* asked for before, while and after their stacks are there.
CONSTANTS
    chest = chest
    bag = bag
    ore = ore
    coin = coin
    sword = sword
    NoOwner = NoOwner
    Storages <- OneStorage
    Items <- OreAndSword
    Mutables <- Swords
    StackLimit <- Limit
    Supply <- FourOres
    RemoveAmounts = {1, 3}
    SplitAmounts = {1}
    RemovalTags = {"RemovalDeletion", "RemovalEject"}
    Verdicts = {"Allowed", "Disallowed", "NoExplicitResponse"}
    Watched <- ThreeAddresses
    InEditor = FALSE
    MaxEntryKey = 102
    MaxStackKey = 103
    MaxVersion = 1
SPECIFICATION Spec
VIEW AllButLog
CHECK_DEADLOCK FALSE
INVARIANTS
    ImmutablesShareAnEntry
    ProxiesOfStacksAreLive
PROPERTIES
    AddressesAreStable
