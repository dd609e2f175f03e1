------------------------ MODULE ContainerExtensions ------------------------
(***************************************************************************)
(* Extension groups on item storages (UItemContainerExtensionGroup), with   *)
(* two extensions that keep count of what the containers hold: the item     *)
(* limit and the capacity.  Each container has a group of its own, named    *)
(* like the container, whose parent can be the group Shared (that of an     *)
(* inventory component).  An extension sits in one group at a time.  The    *)
(* contents are entries as in InventoryEntry; all items are immutable.      *)
(***************************************************************************)
EXTENDS InventoryEntry, Sequences

CONSTANTS
  Containers, Shared, NoGroup,
  Items,
  StackLimit,         \* the stack limit of each item
  Capacity,           \* of each item with a token: weight, volume, efficiency, large
  Checks,             \* the checks of the capacity's configuration
  Maxima,             \* the capacities SetMaxCapacity is called with
  StartMaximum,       \* the one configured at first
  MaxEntries,         \* of the item limit; 0 is none
  MaxTotalItemCopies, \* of the item limit; 0 is none
  Defaults,           \* the extensions each group has from the start
  Amounts,            \* the copies added and removed by a call
  MaxKey, MaxStackKey, MaxCopies  \* bounds: entry keys, stack keys, copies in a container

ASSUME ItemsAssumption ==
  /\ StackLimit \in [Items -> Limits]
  /\ DOMAIN Capacity \subseteq Items
  /\ Capacity \in [DOMAIN Capacity ->
                    [weight : Nat, volume : Nat, efficiency : Nat, large : BOOLEAN]]
  /\ Maxima \cup {StartMaximum} \subseteq [weight : Int, volume : Int]
  /\ MaxEntries \in Int /\ MaxTotalItemCopies \in Int
  /\ Amounts \subseteq Nat \ {0}
  /\ IsFiniteSet(Containers)
  /\ Shared \notin Containers /\ NoGroup \notin Containers \cup {Shared}

VARIABLES
  content,     \* of each container: its key generator and its entries
  parent,      \* ParentGroup of each container's group
  registered,  \* Containers of each group
  dynamic,     \* DynamicExtensions of each group
  limit,       \* EntryAmountCache, CurrentTotalItemCopies
  capacity,    \* ServerCapacityCache, State and the configured maximum
  stray        \* history: containers heard of by an extension not set up for them

contentVars == content
groupVars == <<parent, registered, dynamic>>
cacheVars == <<limit, capacity, stray>>
vars == <<content, groupVars, cacheVars>>

Groups == Containers \cup {Shared}
Extensions == {"limit", "capacity"}

ASSUME DefaultsAssumption ==
  /\ Defaults \in [Groups -> SUBSET Extensions]
  /\ \A g, h \in Groups : Defaults[g] \cap Defaults[h] # {} => g = h

(* The iterator over a group: its extensions, the dynamic ones, its parent. *)
ExtensionsOf(g) == Defaults[g] \cup dynamic[g]
Asked(c) ==
  ExtensionsOf(c) \cup (IF parent[c] = Shared THEN ExtensionsOf(Shared) ELSE {})

(* The groups whose extensions were told of a container.                    *)
SetUp(x, c) ==
  \E g \in Groups : x \in ExtensionsOf(g) /\ c \in registered[g]

Empty == << >>
Only(f, S) == [ k \in DOMAIN f \cap S |-> f[k] ]
Without(f, S) == [ k \in DOMAIN f \ S |-> f[k] ]
Over(f, g) ==
  [ k \in DOMAIN f \cup DOMAIN g |-> IF k \in DOMAIN f THEN f[k] ELSE g[k] ]
With(f, key, value) == Over([ k \in {key} |-> value ], f)
SumOf(f) == SumOver(f, DOMAIN f)

-----------------------------------------------------------------------------
(* Weight and volume.                                                       *)

Measure(weight, volume) == [weight |-> weight, volume |-> volume]
SumOfMeasures(f) ==
  Measure(SumOf([ k \in DOMAIN f |-> f[k].weight ]), SumOf([ k \in DOMAIN f |-> f[k].volume ]))
SumOfCaches(f) == SumOfMeasures([ c \in DOMAIN f |-> SumOfMeasures(f[c]) ])
Plus(a, b) == Measure(a.weight + b.weight, a.volume + b.volume)
Minus(a, b) == Measure(a.weight - b.weight, a.volume - b.volume)

(* The first copy of a stack takes its volume, the others what the          *)
(* efficiency (in tenths) leaves of it, rounded down together.              *)
GetWeightOfStack(item, n) == Capacity[item].weight * n
GetVolumeOfStack(item, n) ==
  Capacity[item].volume + (Capacity[item].volume * (n - 1) * Capacity[item].efficiency) \div 10

GetEntryWeightAndVolume(e) ==
  IF e.item \in DOMAIN Capacity
  THEN Measure(GetWeightOfStack(e.item, StackSum(e)),
               SumOf([ k \in DOMAIN e.stacks |-> GetVolumeOfStack(e.item, e.stacks[k]) ]))
  ELSE Measure(0, 0)

-----------------------------------------------------------------------------
(* The item limit.                                                          *)

(* UpdateCacheForEntry, of all the keys an event names.                     *)
LimitUpdated(l, entries, keys) ==
  LET cache == Over([ k \in DOMAIN entries \cap keys |-> StackSum(entries[k]) ],
                    Without(l.cache, keys))
  IN  [ cache |-> cache, total |-> l.total + SumOf(cache) - SumOf(l.cache) ]

LimitDeinitialized(l, keys) ==
  [ cache |-> Without(l.cache, keys), total |-> l.total - SumOf(Only(l.cache, keys)) ]

LimitContains(l, n) ==
  /\ MaxEntries > 0 => Cardinality(DOMAIN l.cache) < MaxEntries
  /\ MaxTotalItemCopies > 0 => l.total + n <= MaxTotalItemCopies

-----------------------------------------------------------------------------
(* The capacity.                                                            *)

(* CheckCapacityLimit, after every change of the state or the maximum.      *)
Checked(total, maximum) ==
  [ weight |-> total.weight > maximum.weight, volume |-> total.volume > maximum.volume ]

(* The totals follow the cache: each update adds the new measure of an      *)
(* entry and takes off the one that was cached.                             *)
Recached(p, cache) ==
  LET total == Plus(p.total, Minus(SumOfCaches(cache), SumOfCaches(p.cache)))
  IN  [ cache |-> cache, total |-> total, maximum |-> p.maximum,
        over |-> Checked(total, p.maximum) ]

CachedOf(p, c) == IF c \in DOMAIN p.cache THEN p.cache[c] ELSE Empty

CapacityUpdated(p, c, entries, keys) ==
  LET cache == Over([ k \in DOMAIN entries \cap keys |-> GetEntryWeightAndVolume(entries[k]) ],
                    Without(CachedOf(p, c), keys))
  IN  Recached(p, With(p.cache, c, cache))

CapacityDeinitialized(p, cs) == Recached(p, Without(p.cache, cs))

CapacityContains(p, item, n) ==
  IF item \notin DOMAIN Capacity
  THEN "Token" \notin Checks
  ELSE /\ "Bounds" \in Checks => ~Capacity[item].large
       /\ "Weight" \in Checks =>
            p.total.weight + GetWeightOfStack(item, n) <= p.maximum.weight
       /\ "Volume" \in Checks =>
            p.total.volume + GetVolumeOfStack(item, n) <= p.maximum.volume

SetMaxCapacity(new) ==
  /\ new # capacity.maximum
  /\ capacity' = [ cache |-> capacity.cache, total |-> capacity.total, maximum |-> new,
                   over |-> Checked(capacity.total, new) ]
  /\ UNCHANGED <<contentVars, groupVars, limit, stray>>

-----------------------------------------------------------------------------
(* Groups tell their extensions.  A call may tell them more than once, so   *)
(* what the extensions know is passed along as one record.                  *)

Known == [ limit |-> limit, capacity |-> capacity, stray |-> stray ]
Knows(w) == limit' = w.limit /\ capacity' = w.capacity /\ stray' = w.stray

(* PostEventBatch of a container's group, whether or not the container is   *)
(* registered with it.                                                      *)
PostEventBatch(w, c, entries, keys) ==
  [ limit    |-> IF "limit" \in Asked(c) THEN LimitUpdated(w.limit, entries, keys) ELSE w.limit,
    capacity |-> IF "capacity" \in Asked(c)
                 THEN CapacityUpdated(w.capacity, c, entries, keys) ELSE w.capacity,
    stray    |-> IF \E x \in Asked(c) : ~SetUp(x, c) THEN w.stray \cup {c} ELSE w.stray ]

(* InitializeExtension of some extensions for some containers.  Where two   *)
(* containers have an entry key in common, the last one is what the item    *)
(* limit keeps; the order is that of a hash set.                            *)
Orders(cs) == { f \in [cs -> 1 .. Cardinality(cs)] : \A c, d \in cs : c # d => f[c] # f[d] }
Entries(c) == content[c].entries
LastHolder(order, cs, k) ==
  CHOOSE c \in cs : /\ k \in DOMAIN Entries(c)
                    /\ \A d \in cs : k \in DOMAIN Entries(d) => order[d] <= order[c]

InitializeExtensions(xs, cs) ==
  LET keys == UNION { DOMAIN Entries(c) : c \in cs }
  IN  /\ \E order \in Orders(cs) :
           limit' = IF "limit" \in xs
                    THEN LimitUpdated(limit,
                           [ k \in keys |-> Entries(LastHolder(order, cs, k))[k] ], keys)
                    ELSE limit
      /\ capacity' = IF "capacity" \in xs
                     THEN Recached(capacity,
                            Over([ c \in { d \in cs : Entries(d) # Empty } |->
                                     Over([ k \in DOMAIN Entries(c) |->
                                              GetEntryWeightAndVolume(Entries(c)[k]) ],
                                          CachedOf(capacity, c)) ],
                                 capacity.cache))
                     ELSE capacity
      /\ UNCHANGED stray

DeinitializeExtensions(xs, cs) ==
  /\ limit' = IF "limit" \in xs
              THEN LimitDeinitialized(limit, UNION { DOMAIN Entries(c) : c \in cs })
              ELSE limit
  /\ capacity' = IF "capacity" \in xs THEN CapacityDeinitialized(capacity, cs) ELSE capacity
  /\ UNCHANGED stray

(* UFaerieItemContainerBase::InitializeNetObject: the container's group,    *)
(* and its parent as one of its extensions.                                 *)
JoinsParent(c) == parent[c] = Shared /\ c \notin registered[Shared]
LeavesParent(c) == parent[c] = Shared /\ c \in registered[Shared]

InitializeNetObject(c) ==
  /\ c \notin registered[c]
  /\ registered' = [ g \in Groups |->
                       IF g = c \/ (g = Shared /\ JoinsParent(c))
                       THEN registered[g] \cup {c} ELSE registered[g] ]
  /\ InitializeExtensions(ExtensionsOf(c) \cup
                            (IF JoinsParent(c) THEN ExtensionsOf(Shared) ELSE {}), {c})
  /\ UNCHANGED <<content, parent, dynamic>>

DeinitializeNetObject(c) ==
  /\ c \in registered[c]
  /\ registered' = [ g \in Groups |->
                       IF g = c \/ (g = Shared /\ LeavesParent(c))
                       THEN registered[g] \ {c} ELSE registered[g] ]
  /\ DeinitializeExtensions(ExtensionsOf(c) \cup
                              (IF LeavesParent(c) THEN ExtensionsOf(Shared) ELSE {}), {c})
  /\ UNCHANGED <<content, parent, dynamic>>

SetParentGroup(c) ==
  /\ parent[c] = NoGroup
  /\ parent' = [parent EXCEPT ![c] = Shared]
  /\ LET cs == registered[c] \ registered[Shared]
     IN  /\ registered' = [registered EXCEPT ![Shared] = @ \cup cs]
         /\ InitializeExtensions(ExtensionsOf(Shared), cs)
  /\ UNCHANGED <<content, dynamic>>

(* Mutated: the parent is forgotten before it is told.                      *)
ForgottenParent(c) ==
  /\ parent[c] = Shared
  /\ parent' = [parent EXCEPT ![c] = NoGroup]
  /\ UNCHANGED <<content, registered, dynamic, cacheVars>>

ClearParentGroup(c) ==
  /\ parent[c] = Shared
  /\ parent' = [parent EXCEPT ![c] = NoGroup]
  /\ LET cs == registered[c] \cap registered[Shared]
     IN  /\ registered' = [registered EXCEPT ![Shared] = @ \ cs]
         /\ DeinitializeExtensions(ExtensionsOf(Shared), cs)
  /\ UNCHANGED <<content, dynamic>>

AddExtension(g, x) ==
  /\ \A h \in Groups : x \notin ExtensionsOf(h)
  /\ dynamic' = [dynamic EXCEPT ![g] = @ \cup {x}]
  /\ InitializeExtensions({x}, registered[g])
  /\ UNCHANGED <<content, parent, registered>>

RemoveExtension(g, x) ==
  /\ x \in dynamic[g]
  /\ dynamic' = [dynamic EXCEPT ![g] = @ \ {x}]
  /\ DeinitializeExtensions({x}, registered[g])
  /\ UNCHANGED <<content, parent, registered>>

-----------------------------------------------------------------------------
(* The storages.                                                            *)

AllowsAddition(w, c, item, n) ==
  /\ "limit" \in Asked(c) => LimitContains(w.limit, n)
  /\ "capacity" \in Asked(c) => CapacityContains(w.capacity, item, n)

(* AddStackImplNoBroadcast: joins the entry of the item or makes one.       *)
EntryOf(storage, item) == { k \in DOMAIN storage.entries : storage.entries[k].item = item }

Added(storage, item, n, onlyNew) ==
  IF EntryOf(storage, item) # {}
  THEN [storage EXCEPT !.entries = [ k \in DOMAIN @ |->
          IF k \in EntryOf(storage, item)
          THEN IF onlyNew THEN AddToNewStacks(@[k], n) ELSE AddToAnyStack(@[k], n)
          ELSE @[k] ]]
  ELSE [ gen |-> storage.gen + 1,
         entries |-> With(storage.entries, storage.gen + 1, NewEntry(item, StackLimit[item], n)) ]

Copies(storage, item) ==
  SumOf([ k \in EntryOf(storage, item) |-> StackSum(storage.entries[k]) ])
InBounds(storage) ==
  /\ storage.gen <= KeyGenReset + MaxKey
  /\ \A k \in DOMAIN storage.entries : storage.entries[k].gen <= KeyGenReset + MaxStackKey
  /\ \A item \in Items : Copies(storage, item) <= MaxCopies

(* The keys whose entries a change touched: those that differ.              *)
Touched(before, after) ==
  { k \in DOMAIN before \cup DOMAIN after :
      \/ k \notin DOMAIN before \cap DOMAIN after
      \/ before[k] # after[k] }

Becomes(c, storage) ==
  /\ InBounds(storage)
  /\ content' = [content EXCEPT ![c] = storage]
  /\ Knows(PostEventBatch(Known, c, storage.entries, Touched(Entries(c), storage.entries)))
  /\ UNCHANGED groupVars

AddItemStack(c, item, n, onlyNew) ==
  /\ AllowsAddition(Known, c, item, n)
  /\ Becomes(c, Added(content[c], item, n, onlyNew))

(* AddItemStacks: every stack is tested and added before any event is       *)
(* posted; the stacks that are refused are left out.  The stacks are added  *)
(* in the order of their places, of which some may be vacant.               *)
Stack(item, n) == [item |-> item, copies |-> n]
AddedAll(w, c, stacks, places) ==
  LET after[i \in 0 .. places] ==
        IF i = 0 THEN content[c]
        ELSE IF i \in DOMAIN stacks /\ AllowsAddition(w, c, stacks[i].item, stacks[i].copies)
             THEN Added(after[i - 1], stacks[i].item, stacks[i].copies, FALSE)
             ELSE after[i - 1]
  IN  after[places]

AddItemStacks(c, stacks) ==
  LET there == AddedAll(Known, c, stacks, Len(stacks))
  IN  there # content[c] /\ Becomes(c, there)

RemoveFromEntry(c, k, n) ==
  /\ k \in DOMAIN Entries(c)
  /\ Becomes(c, IF n >= StackSum(Entries(c)[k])
                THEN [content[c] EXCEPT !.entries = Without(@, {k})]
                ELSE [content[c] EXCEPT !.entries[k] = RemoveFromAnyStack(@, n)])

Split(c, k, s, n) ==
  /\ k \in DOMAIN Entries(c)
  /\ s \in DOMAIN Entries(c)[k].stacks
  /\ n < Entries(c)[k].stacks[s]
  /\ Becomes(c, [content[c] EXCEPT !.entries[k] = SplitStack(@, s, n)])

(* Dump: what the target allows, entry by entry, is removed here; then it   *)
(* is all added there, and tested once more.                                *)
DumpTo(c, d, keys) ==
  LET left   == Without(Entries(c), keys)
      w      == PostEventBatch(Known, c, left, keys)
      stacks == [ i \in { k - KeyGenReset : k \in keys } |->
                    LET e == Entries(c)[KeyGenReset + i] IN Stack(e.item, StackSum(e)) ]
      there  == AddedAll(w, d, stacks, content[c].gen - KeyGenReset)
  IN  /\ InBounds(there)
      /\ content' = [content EXCEPT ![c].entries = left, ![d] = there]
      /\ Knows(PostEventBatch(w, d, there.entries, Touched(Entries(d), there.entries)))
      /\ UNCHANGED groupVars

(* Mutated: the target is not asked before the entries are removed.         *)
DumpUnasked(c, d) ==
  /\ c # d /\ Entries(c) # Empty
  /\ DumpTo(c, d, DOMAIN Entries(c))

Dump(c, d) ==
  /\ c # d /\ Entries(c) # Empty
  /\ DumpTo(c, d, { k \in DOMAIN Entries(c) :
                      AllowsAddition(Known, d, Entries(c)[k].item, StackSum(Entries(c)[k])) })

-----------------------------------------------------------------------------

EmptyStorage == [gen |-> KeyGenReset, entries |-> Empty]

Init ==
  /\ content = [ c \in Containers |-> EmptyStorage ]
  /\ parent = [ c \in Containers |-> NoGroup ]
  /\ registered = [ g \in Groups |-> {} ]
  /\ dynamic = [ g \in Groups |-> {} ]
  /\ limit = [ cache |-> Empty, total |-> 0 ]
  /\ capacity = [ cache |-> Empty, total |-> Measure(0, 0), maximum |-> StartMaximum,
                  over |-> Checked(Measure(0, 0), StartMaximum) ]
  /\ stray = {}

(* A stray event leaves caches of which nothing can be said: the model      *)
(* stops there.                                                             *)
Heard(S) == IF stray = {} THEN S ELSE {}

GroupNext ==
  \/ \E c \in Heard(Containers) :
        \/ InitializeNetObject(c) \/ DeinitializeNetObject(c)
        \/ SetParentGroup(c) \/ ClearParentGroup(c)
  \/ \E g \in Heard(Groups), x \in Extensions : AddExtension(g, x) \/ RemoveExtension(g, x)
  \/ \E new \in Heard(Maxima) : SetMaxCapacity(new)

Keys == KeyGenReset + 1 .. KeyGenReset + MaxKey

ContentNext ==
  \/ \E c \in Heard(Containers), item \in Items, n \in Amounts, onlyNew \in BOOLEAN :
        AddItemStack(c, item, n, onlyNew)
  \/ \E c \in Heard(Containers), s, t \in [item : Items, copies : Amounts] :
        AddItemStacks(c, <<s, t>>)
  \/ \E c \in Heard(Containers), k \in Keys, n \in Amounts : RemoveFromEntry(c, k, n)
  \/ \E c \in Heard(Containers), k \in Keys, n \in Amounts,
        s \in KeyGenReset + 1 .. KeyGenReset + MaxStackKey : Split(c, k, s, n)
  \/ \E c, d \in Heard(Containers) : Dump(c, d)

Next == GroupNext \/ ContentNext

Spec == Init /\ [][Next]_vars

-----------------------------------------------------------------------------

(* As long as no extension heard of a container it was not set up for, the  *)
(* capacity's running totals are the weight and volume of what is really    *)
(* in the containers it is set up for: every event, registration, removal   *)
(* of a parent and dump took off what it had put on.                        *)
TrueMeasure(c) ==
  SumOfMeasures([ k \in DOMAIN Entries(c) |-> GetEntryWeightAndVolume(Entries(c)[k]) ])
CapacityIsContent ==
  stray = {} =>
    capacity.total = SumOfMeasures([ c \in { d \in Containers : SetUp("capacity", d) } |->
                                       TrueMeasure(c) ])

(* The item limit counts what is in a container it is set up for, as long   *)
(* as no other container has ever had an entry: its cache is by entry key   *)
(* only, and the keys of two containers coincide.                           *)
LimitIsContent ==
  \A c \in Containers :
    /\ stray = {} /\ SetUp("limit", c)
    /\ \A d \in Containers \ {c} : content[d].gen = KeyGenReset
    => /\ limit.cache = [ k \in DOMAIN Entries(c) |-> StackSum(Entries(c)[k]) ]
       /\ limit.total = SumOf(limit.cache)

(* What extensions add up from events, whoever removes a parent or dumps a  *)
(* container, stays what a fresh count would give.                          *)
CachesAreContent == CapacityIsContent /\ LimitIsContent

(* Dump tests every entry alone against a target that does not change       *)
(* meanwhile, and the target tests all of them again: no entry passes the   *)
(* first test, is removed, and fails the second.                            *)
CopiesOf(item) == SumOf([ c \in Containers |-> Copies(content[c], item) ])
DumpLosesNothing ==
  [][ \A c, d \in Containers :
        Dump(c, d) => \A item \in Items : CopiesOf(item)' >= CopiesOf(item) ]_vars
=============================================================================
