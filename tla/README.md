# Faerie Data System: models, checks and proofs

TLA+ specifications of the Faerie Data System, an Unreal Engine plugin for
inventories, equipment and crafting, with the TLC runs that check them on small
instances and the TLAPS proofs about them.  Everything is translated from the
C++ under `src/Source`; paths below are relative to it.  `PROJECT.json` maps each
definition to the lines it models and lists components, runs, mutants, findings,
hazards and theorems.

    tlc -workers 2 -config StorageCalls.cfg MCFaerieItemStorage.tla
    tlapm FaerieItemStorage_proofs.tla

## 1. The system

| Component | State | Operations | Correct when |
|---|---|---|---|
| Inventory entry (`FaerieInventory/Private/InventoryDataStructs.cpp`) | item, cached limit, key generator, sorted array of keyed stacks | construct, add to any stack or to new ones, remove from the tail, set, remove, split a stack | stacks stay sorted under keys of their generator, and no copy appears or vanishes |
| Item storage (`FaerieItemStorage.cpp`) | sorted array of entries, key generator, weak map of proxies | add, possess, remove, take, release, clear, move, merge, split, dump, save, load | equal immutable items share an entry; an address never comes to name another item; a mutable item has one owner; events name what came and went |
| Replicated entries (`FaerieDataUtils/.../FaerieFastArraySerializerHack.h`) | the server's array, the client's copy, updates under way | send, lose, receive, sort, delete, call back | the client ends with what the server has, sorted |
| Stack proxies (`ItemStackProxy.cpp`) | storage, address, version (-1: no stack) | created on request, told of creation, update and removal | a proxy of a stack that exists is live |
| Stack container, equipment slot, manager (`FaerieItemStackContainer.cpp`, `FaerieEquipment`) | one stack, its stored key, a key generator; a list of slots | set, take, swap, save, load, add slots | the key names one item for ever; no copy is in two places; a load restores |
| Client actions (`FaerieInventory/Private/Actions`, `FaerieEquipmentClientActions.cpp`) | none between calls | validated moves and swaps between any two containers | a validated move loses nothing |
| Extension groups and extensions (`ItemContainerExtensionBase.cpp`, `FaerieInventoryContent`) | a tree of groups; each extension's own cache (limit, capacity, grids, queue, data, hashes) | asked before, told before and after each change | caches agree with the containers they were set up for |
| Items and tokens (`FaerieItemData`) | an item as a list of tokens, flags, an owner's hook | duplicate, instance, add, replace, remove and edit tokens, compare | an item that cannot mutate changes by no edit of another; the owner hears of every change |
| Nested containers (`FaerieSubObjectFilter`, `FaerieItemContainerPath`) | which item lies in which container, at every depth | take and release ownership, search, resolve paths | nesting is a tree, and all that lies in an owned item is owned with it |
| Crafting runner (`FaerieItemGenerator/Private/ItemCraftingRunner.cpp`) | active actions by handle, their timers and loads | submit, finish, time out, cancel one or all | each request is answered, once |
| Generation, recipes, upgrades, slot costs (`FaerieItemGenerator`) | pending drops, produced stacks | load drivers and drops, draw, pay, produce | what was asked for is made; a failure costs nothing |
| Filters and queries (`FaerieItemTokenFilter`, `BasicItemDataFilters`, `FaerieStorageWidgetBase`) | a chain of rules; a sorted, filtered list | execute, walk, patch the list with events | advice is true; walks emit what was asked for; the list is the query's answer |
| Visuals, meshes, pickups (`EquipmentVisualizationUpdater`, `FaerieItemMesh`) | an actor or mesh component by slot, pending attachments | create, destroy, attach, load | visuals are those of what is worn |
| Item cards, editor modules, tests | engine objects | - | not modelled |

How they interact.  A client action asks a container (storage or slot) whether it
may take or give a stack, then releases from one and possesses in another.  A
container asks its extensions for a verdict before a change (`AllowsAddition`,
`AllowsRemoval`, `AllowsEdit`), calls them before it, changes its content, and
posts events afterwards; groups pass questions and calls on to their parents.  A
storage's content is a replicated fast array whose callbacks
(`PostContentAdded`, `PreContentRemoved`, `PostContentChanged`) tell the proxies, on
the server and on clients.  A mutable item holds a delegate to the container that
owns it; an item with a container token brings a container of its own.  The
crafting runner calls its clients back when an action ends.

Where it is hard.  Everything runs on the game thread, so there is no data race.
What is hard is long sequences of legal calls (keys, joins, splits, clears); two
containers changed in one request, with refusals in between; callbacks that call
back into the object that calls them; caches and handles (addresses, proxies,
action handles) that outlive what they name; timers and asynchronous loads that
come for something gone; updates to clients that are lost; and saves loaded over
live content.  The 40 hazards of `PROJECT.json` name the lines.

## 2. The modules

| Module | Models | Correspondence |
|---|---|---|
| `InventoryEntry` | an entry and its `FMutableAccess` as operators | `e.stacks` maps stack keys to copies; the array's order is that of the keys.  Each operator is the closed form of one method |
| `InventoryEntryLoops` | the loops behind those closed forms, one iteration a step | `stacks` is the array itself; `captured` is the amount held by the lambda of `AddToNewStacks` |
| `FaerieItemStorage` | storages: all calls on one and moves between two | `store[s]` holds entries, `keyGen`, versions of proxies; `owner` is the hook of a mutable item; `loose` what callers have in hand; `log` the batches of the last call; `halted` a failed `checkf` |
| `StableNames` | abstract: a name stands for one thing while it is there and for nothing ever after | implemented by addresses of storages and by keys of slots |
| `EntryReplication` | a storage's entries on the server and on a client, and the client's proxies | an update is what changed since the state it was made from (`base`, `retired`); `received` is the client's array, `itemMap` its map, which a deletion drops |
| `EquipmentSlots` (extends `FaerieItemStorage`) | slots beside storages, `TrySwapSlots`, `Server_RequestMoveAction` | a request goes through several containers in one call, so it is a chain of operators on the record `World`; `gone` counts copies that a call let go of |
| `EquipmentManager` | default and added slots, saves and loads of them | `objects` are all slot objects ever made, `managed` those in `Slots` |
| `SimpleGrid` (extends `FaerieItemStorage`) | the grid of single cells of a storage | hears the batches in `log`; what it may answer is its verdict |
| `GridShapes`, `SpatialGrid` | shapes and their turns; a grid on which items have shapes, any finite ones | `occupied` is the bit array of cells; `content` the placements; `skewed`, a history variable that no guard reads, says that a step has placed one shape in two ways |
| `ContainerExtensions` | two storages in a tree of groups, with item limit and capacity, bulk additions and `Dump` | `limit`, `capacity` are the caches; `stray` remembers events heard before initialisation |
| `ContainerSaves` | data that extensions keep about stacks; saves and loads of a storage and a chest in it | `unclaimed` is saved data that no extension has claimed yet |
| `ExtensionGroups` | groups, parents, searches, replication lists, iterators, verdicts | `tree` holds the groups, `within` what lies where |
| `ContentHashes` | checksums of what is worn, on server and client; relevant actors; hash assets | a hash is what it was made of |
| `EjectionQueue` | stacks that wait for their pickup's class, and pickups | `queue` with its head in work while `streaming` |
| `ItemPickups` | an actor that owns one stack, shows it, saves it | `box` is the plain stack container |
| `EquipmentVisuals` (extends `ItemMesh`) | visuals of slots and of slots in items | `pending` is the list of attachments that wait for a parent's mesh |
| `ItemInstances` | items and tokens, edits, hooks, registration, comparison | `seen` is what was there when the owner was last told |
| `NestedContainers` | containers in items in containers | `lies`, `outer`, `hook`, `net`: where an item is, by four accounts that should agree |
| `ItemPools`, `ItemGeneration` | weighted draws; the action from its drivers to its stacks | `pending` are drops that wait for a load |
| `CraftingCosts` | recipes, upgrades, slot costs | `stock` is the storage they pay from |
| `CraftingRunner` | submission, loads, timeouts, cancellation, callbacks | `frames` is the stack of calls that wait for a callback; `timers` and `loads` are delegates that will come with their handle |
| `CraftingAnswers` | abstract: a request is answered at most once and the answer stands | implemented by `CraftingRunner` |
| `ItemFilters`, `FilterIterators` | rules with their logs and advice; walks over tokens and stacks | one question, and one walk, per behaviour |
| `StorageWidget` | the list of a storage by a query | `listed` is the list in order, patched event by event between two queries; the walk over the storage is a function of the number of steps |
| `*_proofs` | lemmas and theorems | section 4 |
| `MC*` | values for constants; modules that are run together | with the `.cfg` files |

One call of the code is one step, since calls run to completion on the game
thread; only where code outside the component runs in the middle (a callback, a
load) or where the loop itself is the subject are there steps inside a call.  The
verdict of extensions on a change to a storage or a slot is chosen freely for each
question asked, so that whatever they do between two questions of one call is covered.

Which modules run together: `MCFaerieItemStorage` (a storage alone), `MCTransfers`
(two storages with a simple grid on one), `MCEquipmentSlots` (slots and a storage,
a widget on the storage, and the manager), `MCInventoryEntryLoops`
(the loops, replication, filters and walks: four subjects that do not touch, in one
run), `MCItemGeneration` (generation and costs), `MCEquipmentVisuals` (visuals,
queue, pickups, groups and hashes, one in each behaviour), `MCItemInstances` (items, and
nested containers), `MCSpatialGrid`, `MCContainerExtensions`, `MCContainerSaves`.
`Crafting.cfg` runs `CraftingRunner` itself.

Operators preceded by a comment "Mutated:" are plausible wrong versions of the one
that follows.  With the operator replaced by it, the run named in `PROJECT.json`
finds the property violated; no specification uses them.

Worth knowing when reading:

- A key generator starts at 100 and gives 101, 102, ... (`FaerieItemKey.h`).
- An amount of -1 is "the entire stack"; a limit of -1 is "no limit".  The model
  uses the same numbers, because some defects come from that.
- Removing a whole stack, or lowering one, sets no bit in the change mask, so
  `PostContentChanged` then updates no proxy.  The mask is modelled by that effect.
- `AddToNewStacks` captures its amount by value when the lambda is made, so copies
  come from nothing when more than one stack is needed.  Properties about copies
  exclude exactly such an addition (`Oversized`); it is a finding.
- Recursive operators, and folds over data, appear only in modules that no theorem is
  about.  Elsewhere a loop is a function from the number of its steps to what it has
  done so far, a search through nested containers is reachability, and sorting is by
  rank.

## 3. The runs

| Run | States | Bounds | Shows |
|---|---|---|---|
| `StorageCalls` | 37,316 | one storage; ore (limit 2, 4 copies), a mutable sword; removals of 1, 3 and all; three addresses watched | every sequence of calls on a storage keeps immutable items in one entry, proxies of stacks live, and addresses stable (`StableNames`) |
| `Transfers` | 40,718 | two storages, 2 ores and a sword; a simple grid of 2x1 that grows to 3x1 | moves conserve copies; a mutable item is owned where it lies; events name what came and went; what comes gets a cell while one is free.  As in the editor, where `Clear` resets the generator |
| `EntryLoops` | 656,619 | entries of up to three stacks, limits -1, 1, 2, 3; two entries replicated with up to 4 array keys, 2 updates under way, 2 losses; all rules of ItemFilters on small views; lists of three | loops give the closed forms, the client follows the server, filters' advice is true, walks emit what was asked for |
| `Equipment` | 54,959 | a chest, two slots, 2 ores and a sword; manager with one default slot, two identifiers, 4 slot objects | no copy is in two places, hooks follow items, slot keys are stable, the widget's list follows its storage, a manager's load restores its slots |
| `Crafting` | 81,484 | three requests, two handles, two loads each, callbacks that submit | `CraftingAnswers` is implemented; each request is answered unless it was displaced |
| `Grid` | 84,026 | 3x3 cells that can lose a column and get it back; single cell, bar of three, corner; 2 entries, 2 stacks | until a step that the code places in two ways, cells tell the placements and items do not overlap; what fits somewhere unturned is not refused |
| `Extensions` | 70,314 | two storages, a shared group, one item, 3 copies | limit and capacity count what is there; `Dump` loses nothing |
| `Saves` | 582,232 | a storage, a chest inside its box, two kinds of data, 2 edits | tags stay on their item, a load restores data |
| `Generation` | 344,127 | four configs over two pools, loaded in any order, 12 steps of a check; recipes and upgrades over drill, saw, ore | what was asked for is made by the weights; generation ends; a failure costs nothing |
| `Visuals` | 120,249 | a worn item with a slot in it; a queue of 3 ejections; 3 items in a pickup; 4 groups; 19 outfits | visuals follow equipment; pickups are ejections and the queue drains; a pickup shows what it owns; groups serve their containers, walks agree; checksums follow content |
| `Items` | 525,296 | an asset of two tokens, one of three that forbids mutability; 4 tokens of two classes, 3 items, lists of 2; two roots and three bearers nested at will | an item that cannot mutate changes only by an edit of a token that it alone holds, owners keep track, equal items have equal hashes, nesting is a tree |
| `MoveLosesItem` | violation | as `Equipment` | a move that passed its validation loses its item |

The violation contradicts the comment at `FaerieInventoryClient.cpp:217`.  Properties of
the passing runs are worded around defects, not around the code that has
them: `EveryCopyIsSomewhere` counts the copies a move lets go of and says that none
is duplicated whatever is refused, while `MovesLoseNothing` says none is let go of.

Storages, slots, queue and runner may stop for good (all copies used up, every
request answered, bounds of replication or of edits reached), so only `Grid`, where
something can always be added, removed or asked, checks for deadlock.

### Why the bounds are enough

- A bar of three in 3x3 cells is the least shape that `Rotate` displaces; beside items in its
  way it is added turned, moved and turned again, so that grids before and after the first
  `skewed` step are reached.
- Two is the least limit at which a stack can be part full; every branch over
  limits (unlimited, one, more) is in `EntryLoops`.  Four copies are two full
  stacks, or a join that needs two more stacks.
- `MaxEntryKey` and `MaxStackKey` stop generators after two or three keys, enough for
  a removal in the middle, a join after a split and a key that follows a removed one.
  `MaxVersion` caps a proxy's version, which is only compared with -1 and its past.
- `SplitAmounts` are positive: a split of zero or fewer copies, which `SplitStack`
  accepts, makes an empty or negative stack.
- `EntryReplication` was also run with three keys, three updates under way and two
  losses (1.9 million states, no error); its theorem has no bounds.
- The `VIEW`s leave out what only records the last call (`log`); no guard reads it, and
  properties read only `log'` in a step.
- `MaxChecks` (12) bounds the steps of one `LoadCheck`, of which pools in a cycle would take
  endlessly many; the pools of the run need fewer.  `MutatorDepth` (3) is how deep the run's
  mutators nest, `RuleDepth` (3) how deep its rules do.
- In `Items` the two values of token data are symmetric, since nothing orders them.

### Fairness

`Crafting` has weak fairness of each timer and of the return of callbacks: the
engine's timer manager fires a timer whose time has come, and a callback is a
function that returns.  There is none for loads (an asset may never arrive,
which the timeout is for), submissions or cancellations.  `Generation` has weak fairness of the end
of a load, and `Visuals` of the end of the queue's load: the engine calls the delegate of a
streaming request in the end, with or without the asset.  The loops' own
specification has `WF_vars(Next)`; the run they are in checks only their safety.  Others state no
fairness, since they only react.

### What the crafting run says precisely

A handle is `FMath::Rand()`, which can come up again while its action is active;
the set then replaces the action, whose timer and load go on and find the
newcomer.  `EveryRequestAnswered` excuses such displaced requests: nothing in the
code would tell them.  Callbacks in this run submit requests.  One that cancels its own
action is answered again, since the action is still in the set while its callback
runs; no comment forbids it or says what should happen.

## 4. The proofs

Eight modules hold theorems.  They use the named assumptions of the modules they are
about, which TLC evaluates in the runs, and what the statement of a theorem says: of
extensions, that an item's weight, volume and efficiency are not negative (`ClampMin` in
`CapacityStructs.h`), that a call adds and removes a positive amount, and that an extension
is a default of one group (they are instanced objects), that identifiers of extensions differ
(`ContainerSavesAssumption`), and of token classes that one is its own and its
parents' kind (`FilterIteratorsAssumption`), of mutators that they nest to some depth and of
costs that no amount is negative (`CraftingCostsAssumption`), and of pools and configs that
they refer to assets there are (`ItemPoolsAssumption`, `ItemGenerationAssumption`).

| Theorem | Says | Under |
|---|---|---|
| `FaerieItemStorage_proofs!Invariance`, `TypeCorrect`, `KeysStayBelow`, `ImmutablesShare`, `OwnersStayStorages`, `EventsName` | the invariant, types, keys below generators, equal immutable items in one entry, owners are storages, events name what came and went | no hypothesis |
| `AddressesStable` | storages implement `StableNames` | `~InEditor` (`Clear` in the editor gives keys out again) |
| `ProxiesLearn` | a proxy of a stack that exists is live | splits are positive |
| `OwnersHoldTheirItems` | a mutable item in one copy is owned by the storage it lies in, and lies in no other | splits are positive, at most one copy of a mutable item is supplied |
| `CopiesStay` | copies change only by what comes in or goes out | finitely many storages |
| `AllTypesHold`, `SlotKeysStayStable` (of `EquipmentSlots`, in the same module) | types; slots implement `StableNames` | no hypothesis |
| `CopiesStaySomewhere` | no copy is made or lost in storages, slots and hands but what a step is seen to let go of | finitely many storages and slots |
| `HooksFollow` | the hook of a mutable item in one copy is its container's | as `OwnersHoldTheirItems` |
| `ComersAlwaysGetCells` (of `SimpleGrid`, in the same module) | whatever comes gets a cell while one is free, and keeps it | no step makes the grid smaller (`GridGrows`) |
| `ListAlwaysFollows` (of `StorageWidget`, in the same module) | a widget with no query due lists stacks that are there, once and in order; a tick lists just what the query shows; between ticks what comes is listed and what leaves has lost copies | splits are positive |
| `InventoryEntryLoops_proofs!LoopsAreClosedForms` | the loops end in the closed forms that the storage's model uses | no hypothesis |
| `AdviceAlwaysTrue` (of `ItemFilters`, in the same module) | what a rule logs and advises agrees with what it lets pass | a mutable stack is one copy, no class is less mutable than one it descends from |
| `EntryReplication_proofs!BasesAreCovered`, `ClientsAlwaysFollow` | the invariant; a client whose server has nothing left to send holds its entries, sorted, and its proxies have heard | no hypothesis |
| `DataAlwaysFollows`, `TagsStay`, `LoadsRestoreData` (of `ContainerSaves`, in the same module) | the invariant; what was said of an item never shows on another; a load gives back what was saved | no hypothesis |
| `SlotsStayOwn`, `LoadsRestoreSlots` (of `EquipmentManager`, in the same module) | slots are objects of different IDs; a load gives back the slots with their stacks | no hypothesis |
| `WalksEmit` (of `FilterIterators`, in the same module) | a walk stops at just what its filter asks for, in order | no hypothesis |
| `SpatialGrid_proofs!GridInvariant`, `CellsAlwaysMatch`, `ItemsNeverOverlap`, `OnlyStoredStay`, `RequestedAlwaysOnGrid`, `NothingThatFitsIsRefused` | the invariant; cells tell placements and no overlap until a step skews the grid; nothing removed stays; a requested stack is there; no refusal of what fits | no hypothesis (shapes are finite) |
| `CompactItemsStayInStep` | no step skews the grid: cells tell placements and nothing overlaps, ever | no turn displaces a shape (`CompactShapes`), the grid only grows (`GridGrows`) |
| `CraftingRunner_proofs!TypesHold` | types, the stack of waiting calls included | finitely many handles |
| `AnswersComeOnce` | the runner implements `CraftingAnswers` | finitely many handles, callbacks that only submit |
| `FailuresAreFree` (of `CraftingCosts`, in the same module) | a request that fails costs no copies, no uses and, under `ApplyAll`, no marks | no hypothesis |
| `DrawsAreShares` (of `ItemPools`, in the same module) | each drop gets the share of its weight, for any positive weights | no hypothesis |
| `GenerationMakesWhatWasAsked` (of `ItemGeneration`, in the same module) | what completes has made what its configs asked for | no hypothesis |
| `ContainerExtensions_proofs!CachesAlwaysFollow`, `CachesStayContent` | the invariant; the capacity's totals are the measure of what is in the containers it is set up for, the item limit counts the only container in use | finitely many containers |
| `DumpKeepsAll` | what `Dump` takes out arrives | finitely many containers |
| `ItemInstances_proofs!ItemsStaySound`, `OwnersAlwaysKeepTrack`, `ImmutablesChangeByOwnEdits`, `ComparesByHashes` | the invariant; the owner has seen all; an item that cannot mutate changes only by an edit of its own token; equality is by equal hashes, each as often | no hypothesis |
| `PickupsShowWhatTheyOwn` (of `ItemPickups`, in the same module) | a pickup shows what lies in it | no hypothesis |
| `EjectionsAreKept` (of `EjectionQueue`, in the same module) | pickups are the ejections that can be spawned, in order | no hypothesis |
| `NestingStaysATree` (of `NestedContainers`, in the same module) | containers in items in containers are a tree, and its four accounts agree | slots in items take no storages, and descend (`TemplatesDescend`) |

Why the hypotheses.  A split of a negative amount makes an entry that is not valid,
and `PostContentChanged` then tells its proxies nothing; a split of zero copies off
a mutable item leaves an empty stack behind.  A mutable item is one object, so
one copy of it is supplied.  Sums of copies count units, hence finite sets.  Handles are
the 32-bit values of `FMath::Rand()`.  A simple grid that shrinks forgets the marks of the cells
it loses and keeps what is placed there (`FCellGrid::Resize`), so that a cell handed out
again would have two stacks.  A slot in an item that takes
a storage, or the kind of item that it is a slot of, can come to lie in itself, since `CanSetInSlot`
asks the slot's template and not where the slot lies.

The inductive invariants.  None of the properties is inductive as it stands; TLC
checked each invariant below on an instance before it was proved.

- *Storages* (`IInv`).  That equal immutable items share an entry needs that a new
  entry takes a key no entry has: that keys are below the generator, in turn that each
  operation of an entry keeps its stacks' keys below the entry's own generator.
  `InventoryEntry_proofs` shows of each operator that its result `Continues` the
  entry; the lemmas `...Sound` lift this to what each call does to one storage, and
  `OneStorageChanges` to actions.  Ownership (`OwnInv`) also says that a mutable item in a
  storage lies in one stack of one copy, and is nowhere else.  Proxies (`LiveInv`) need
  that an entry that is valid stays so.  Conservation counts units: the pairs of a
  stack and a number up to its copies, since a sum by recursion cannot be reasoned about.
- *Slots*.  A call is a chain of operators on worlds, and the lemmas say what one
  link keeps (types and keys; copies in the world and let go of; hooks), so that each
  theorem puts the same chains together anew.
- *Loops* (`Progress`).  For each loop, what it has done to the stacks it went
  through, in terms of the stacks the call began with.  `Copies` before an index are
  compared with the closed form's sums by splitting off one stack at a time.
- *Replication* (`Follows`).  The argument is about the states from which an update may
  yet be made: those of the updates not answered for, in order, and the next one's.
  Of each state that the client has had all updates before (`Reached`), the client
  `Covers` what it tells: every entry unchanged since is there as it is, and an element that
  came before it is one the state knows, so that the next update names it if it is gone.
  An implicit deletion takes only elements that came with an update which no longer counts,
  and that the update at hand, made from a state before them, would have named.  When nothing is under way
  and all is answered, the one state left is the server's.
- *Spatial grid* (`GridInv`).  An event still to be handled explains each difference of the
  placements from the storage, and cells and placements agree unless `skewed`.  `Rotate`
  moves a shape whose sides differ by two cells or more off its corner, and
  callers then place it normalised (`MoveItem`, the old cells of `RotateItem`,
  exclusion sets) or not (`AddItemToGrid`, `RemoveItem`, the search for an obstacle,
  the new cells of `RotateItem`).  `skewed` becomes true with a move or a turn for which these differ, and when the grid shrinks
  over an item.  Additions and removals, at any rotation, agree.
- *Runner*.  Each pending frame's action has its answer already; a handle in the
  set belongs to a request without one; and what a frame will still do is for its copy.
- *Costs* (`CostInv`).  An upgrade that waits has a mutator, targets and a payment
  there are.  What a mutator makes of an instance that is apart from the stored item leaves
  the stored marks alone; this is kept from one level of nesting to the next, and through
  the loops over children, so that `ApplyAll` leaves them whatever its children are.
- *Draws*.  The sums of weights go up, so that the first sum not below a draw is the one
  whose stretch the draw is in; the draws in a stretch are as many as its weight.
- *Generation* (`GenInv`).  Without expansion, what is pending while assets load counts
  what the resolved configs asked for, each procedure's split of its amount included; the
  check of loads changes neither order nor count, and resolving gives at most a copy for each
  count, just as many where no draw comes to nothing (`NothingIsDrawn`).
- *Extensions* (`CachesInv`).  An extension sits in one group; a container's group has that
  container only, and the shared one has those whose parent it is, so that whoever leaves a
  group was told of by it.  Where no event was stray, the capacity's table of a container is
  that of its entries if it is set up for it and empty if not; the totals are the sums of
  the tables even then.  An event patches the table right because the keys it names
  cover what changed (`Covers`).  That the item limit is right is said of a container while
  no other has given out a key, since its cache is by key only.  For `Dump`, a
  removal makes both caches smaller (`AllowsMore`), so what was allowed alone stays so, and
  an addition adds at least what it is asked for, also where `AddToNewStacks` adds more.
- *Pickups* (`PickupInv`).  A mutable item in the box is hooked to it, so that each edit is
  heard; an empty box has no copies and no key; a save names a key and copies if it names
  an item.
- *Simple grid* (`SimpleGridInv`).  Every stack lies alone on its cell, the marked cells
  are these, and only what is stored is placed.  `Tells` relates the batches of each call to
  the storage before and after: an addition's addresses are all that came, a
  removal's are all that may have gone; the loop over a batch is then followed step by step.
- *Widget* (`WidgetInv`).  A constructed widget listens to its storage alone and, while no query
  is due, lists stored stacks, each once and in its place (`IsListing`).  What `Tells`
  says is not enough for it: entries that stay must keep their items, or the order breaks, and
  what a removal names must have lost copies (`Falls`), which needs that entries
  are full, hence `LiveInv` and its hypothesis.  The walk over the storage and the patching of the
  list by a batch are loops, followed step by step.
- *Saved data* (`DataFollows`).  Nothing is said of an address that has no stack, and what
  is said was said of the item there, in the containers, in the save and in what is not
  claimed yet, whose keys no generator gives again.  It is said of what did not go
  astray: data made for a stack that is not there, or saved under the name of an extension
  of another container, comes to lie at other stacks (findings).
- *Manager* (`SlotsAreOwn`).  A slot has a stack just while it has a key; that IDs differ in the
  list and in a save makes `FindSlot` find the slot that was saved.
- *Filters* (`AdviceAtLevels`).  Rules that nest `d` deep have answers, logs and advice that agree,
  by induction over `d`; a log of several rules takes the first that fails.  A mutable item has one copy
  and a limit of one, so that it passes no rule that asks for more.
- *Walks* (`WalkInv`).  `Says` relates a filter to the calls that made it, whatever their
  order and number; the iterator stands at an element that passes or at the end, and what it
  passed over and wanted is what was emitted.
- *Ejections* (`EjectionInv`).  What was ejected is the pickups, what could not be
  spawned and the queue, in this order; the head is in work exactly while its class loads.
- *Nesting* (`NestInv`).  Nothing lies inside itself, and what a slot in an item holds fits
  there.  An actor replicates just what lies in its roots, groups are linked just
  there, and a group's parent is that of a container around it.  Paths have an end because there are
  finitely many containers and none comes twice.
- *Items* (`Sound`).  Lists hold tokens that exist, once; the item that holds a mutable
  token is its outer; an owned item can mutate, is seen as it is, and its mutable tokens
  are registered.  `ComparesByHashes` counts places in lists (`RemoveAllSwap` keeps each
  that stays, once) and matches them by pigeonhole.

Induction over data.  The library's induction theorems take an operator as a
parameter, which no installed prover can instantiate.  Where a proof needs
induction it takes the least counterexample instead (`MinimalSubset`, `LeastInteger` in
`InventoryEntry_proofs`, `LeastNatural` in `SpatialGrid_proofs`), from well-foundedness.  Of a
loop, given as a function of the number of steps, `LoopInduction` (in
`InventoryEntry_proofs` and `CraftingRunner_proofs`) does so with the first step that
breaks what the loop keeps, `LoopExists` (`LoopRuns` in `InventoryEntry_proofs`) says that
there is such a function, and `LoopStays` that its values are of the type that its steps keep.  Rules in rules, and mutators in mutators,
are functions of how deep they nest.

### Only model-checked, and why

| Property | Why no theorem |
|---|---|
| `EveryRequestAnswered`, `GenerationEnds`, `QueueDrains` | liveness under fairness |
| `VisualsFollowEquipment`, `GroupsServeTheirContainers`, `WalksAgree`, `ChecksumsFollowContent` | recursive operators: groups in groups, slots in slots, hashes of lists |

## 5. Defects met while modelling

`PROJECT.json` lists under `findings` those that contradict a comment, a document or an
assertion: among them the captured amount of `AddToNewStacks`, the inverted guards of
`MergeStacks` and `RemoveSlot`, `Clear`'s assertion, the proxies that are not told of a
removed stack, `TrySwapSlots` and moves that write over items, `CancelAllActions`,
`GetKeyAt` of the spatial grid, `Or` that is an `And`, `CompareTokens`, searches that stop at
the first level, duplicates that lose their flags, keys that a slot's load gives again,
groups that become their own ancestors, the spatial grid's two ways to place a shape, and
`GetMutableToken`, which gives tokens of items that cannot mutate.  Others, which no comment contradicts:

- Items: the comparison by hashes ignores a token's class; `EditToken` on a token without an
  item dereferences null (`FaerieItemToken.cpp:78`); immutable tokens added to an owned item are
  not registered, while `TakeOwnership` registers all.
- Storages and slots: `AddItemStackWithLog` always returns false (`FaerieItemStorage.cpp:1138`);
  the proxy of a stack releases by entry (`ItemStackProxy.cpp:62`); a refused deletion
  while a slot loads is written over (`FaerieItemStackContainer.cpp:88`).
- Grids: `TrySwapItems` tests an item against itself; `FitsInGridAnyRotation` loses the
  translation; shrinking a grid leaves placements outside, unmarked; views turn opposite to shapes.
- Saves: data is saved under an identifier, not a container; loaded mutable items get no
  hook; an extension that comes late claims data of stacks that are gone.
- Extensions: events before initialisation leave stale capacity; the bounds' change does not
  re-derive the volume; `MaxEntries` refuses merges; limit caches collide between containers.
- Generation and costs: pools that load late are not expanded; a missing asset is
  dereferenced; pools in a cycle never end; `ConsumeSlotCosts` returns right after paying
  uses; one stack in two slots underpays; an item released for an upgrade that fails is lost.
- Visuals: a stale pending parent is dereferenced
  (`EquipmentVisualizationUpdater.cpp:230`); the order in a mesh list beats purpose.
- Filters: a container filter's `ByImmutable` is never read; two item filters
  dereference null (`FaerieContainerIterator.h:117`).

## 6. Not modelled

Item cards, widgets' layout, editor modules, logging, serialized formats, Blueprint
wrappers that forward a call, network relevancy.  Inside what is modelled:

- Replication: loads on the server; the engine's sending half is external; the order of
  elements within an update is left out, since the client sorts.
- Slots and manager: removing slots (its guard refuses every slot), child-slot notices.
- Grids: rotation and shrinking of simple grids; `CanAddItemsToGrid` and the test of a group;
  the client's rebuild of its cells.
- Groups: groups added while the game runs, an extension in two groups, `ValidateGroup`.
- Items: references between tokens, template and static references.
- Nested containers: more than one container in an item; `ValidateItemData`.
- Hashes: collisions, `HashProps`, `FindActor`, 32-bit widths.
- Filters: null children, invalid views, tag queries; `Mask`, whose result ignores class and flags.
- Visuals: `OnRep` functions, the cached loader, `MoveAttachment`, visibility, components that others destroy.
- Ejection and pickups: `SpawnActor` is taken to succeed; an extension that refuses a removal from a pickup.

Assumptions about code outside: a token's editing function says whether it changed
something, tokens are got for an edit through `MutateCast` and `GetMutableToken`, makers keep
no tokens of new items, an actor uses the registered list of subobjects.

## 7. What is left

In this order: the walks of `ExtensionGroups` and the removal in `EquipmentVisuals`
written as reachability, as in `NestedContainers`; the hashes of `ContentHashes`.
