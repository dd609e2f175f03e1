\* A chain of slots in items, an actor as a parent, and changes of the first component.
CONSTANTS
    hand = hand
    scope = scope
    mount = mount
    socket = socket
    rifle = rifle
    totem = totem
    lens = lens
    lamp = lamp
    shard = shard
    gem = gem
    long = long
    tube = tube
    bone = bone
    plain = plain
    built = built
    NoToken = notoken
    NoLoad = noload
    NoMesh = nomesh
    NoItem = noitem
    Default = "Default"
    MeshesOf <- Meshes
    Slots = {hand, scope, mount, socket}
    Items = {rifle, totem, lens, lamp, shard, gem}
    ChildSlots <- OneChildEach
    Fits <- FittingItems
    TokenOf <- Tokens
    ActorItems = {totem, shard}
    Unloadable = {shard}
    LeaderSlots = {mount}
    TagOf <- Purposes
    Adjusted = {hand}
    Given <- TwoKinds
    InMemory <- NothingOrAll
    MaxPending = 3
    bag = bag
    crate = crate
    gone = gone
    Ejectables = {gem, lens, lamp}
    NoClass = noclass
    ClassOf <- ClassTokens
    DefaultClasses = {noclass, bag}
    Broken = {gone}
    MaxStored = 2
    MaxEjections = 3
    coin = coin
    pelt = pelt
    wand = wand
    Pieces = {coin, pelt, wand}
    MutablePieces = {wand}
    Unwelcome = {pelt}
    NoPiece = nopiece
    MaxPieceCopies = 2
    MaxBoxKey = 103
    pack = pack
    chest = chest
    pouch = pouch
    hero = hero
    squire = squire
    cloak = cloak
    rag = rag
    componentGroup = componentGroup
    packGroup = packGroup
    chestToken = chestToken
    chestGroup = chestGroup
    pouchToken = pouchToken
    pouchGroup = pouchGroup
    nestedGroup = nestedGroup
    limit = limit
    sorter = sorter
    filter = filter
    events = events
    limitClass = limitClass
    sorterClass = sorterClass
    eventsClass = eventsClass
    Storage = pack
    Chests = {chest, pouch}
    ComponentGroup = componentGroup
    GroupOf <- OwnGroups
    TokenGroup <- TokenGroups
    Defaults <- DefaultExtensions
    FreeLeaves = {events}
    OpenGroups = {componentGroup, packGroup, chestGroup, pouchToken}
    ExtensionClassOf <- ExtensionClasses
    NoGroup = nogroup
    Places = {hand, mount}
    ClientPlaces = {hand}
    Things = {cloak, rag}
    NoThing = nothing
    NameOf <- WornNames
    TokensOf <- WornTokens
    WearerOf <- Wearers
    HashAssets <- Outfits
SPECIFICATION MCSpec
\* Calls may end, and the bound of ejections is reached.
CHECK_DEADLOCK FALSE
INVARIANTS
    VisualsFollowEquipment
    PickupsAreEjections
    ShowsWhatItOwns
    GroupsServeTheirContainers
    WalksAgree
    ChecksumsFollowContent
PROPERTIES
    QueueDrains
