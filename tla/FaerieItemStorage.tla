-------------------------- MODULE FaerieItemStorage --------------------------
(***************************************************************************)
(* UFaerieItemStorage (FaerieItemStorage.cpp): a set of item storages on    *)
(* the server, the items they own, the proxies handed out for their stacks  *)
(* and the events they broadcast to their extensions.                       *)
(*                                                                         *)
(* A storage is a record                                                    *)
(*   entries  EntryMap: entry key -> FInventoryEntry (InventoryEntry)       *)
(*   keyGen   KeyGen.PreviousKey                                            *)
(*   proxies  LocalStackProxies: address -> LocalItemVersion, for the       *)
(*            proxies that are still alive; an address is <<entry, stack>>  *)
(*                                                                         *)
(* The server runs these calls on one thread, to completion: one call is    *)
(* one step.  A call that is refused changes nothing and is no step.        *)
(***************************************************************************)
EXTENDS InventoryEntry, Sequences

CONSTANTS
    Storages,      \* the storages
    Items,         \* the items; an immutable item stands for all that compare equal
    Mutables,      \* the items whose CanMutate() is true
    StackLimit,    \* UFaerieStackLimiterToken::GetItemStackLimit of each item
    Supply,        \* how many copies of each item there are, stored or not
    RemoveAmounts, \* the amounts passed to removals
    SplitAmounts,  \* the amounts passed to SplitStack
    RemovalTags,   \* the tags passed to removals
    Verdicts,      \* the answers the storages' extension groups give
    Watched,       \* the addresses somebody may ask a proxy for
    InEditor,      \* GEngine->IsEditor() in a WITH_EDITOR build
    NoOwner,       \* the owner of an item no storage owns
    MaxEntryKey, MaxStackKey, MaxVersion  \* bounds of the counters

ASSUME ItemsAssumption ==
    /\ Mutables \subseteq Items
    /\ StackLimit \in [Items -> Limits]
    /\ \A i \in Mutables : StackLimit[i] = 1
    /\ Supply \in [Items -> Nat]

ASSUME InputsAssumption ==
    /\ RemoveAmounts \subseteq Nat \ {0}
    /\ SplitAmounts \subseteq Int
    /\ RemovalTags \subseteq {"RemovalDeletion", "RemovalMoving", "RemovalEject"}
    /\ Verdicts \subseteq {"Allowed", "Disallowed", "NoExplicitResponse"}
    /\ InEditor \in BOOLEAN
    /\ NoOwner \notin Storages
    /\ MaxEntryKey \in Nat /\ MaxEntryKey >= KeyGenReset
    /\ MaxStackKey \in Nat /\ MaxVersion \in Nat

VARIABLES
    store,   \* the storages' records
    owner,   \* the owner bound to each mutable item's mutation hook
    loose,   \* the copies of each item that are in no storage
    log,     \* the batches the last call broadcast (PostEventBatch), in order
    halted   \* a check() failed and the process is gone

vars == <<store, owner, loose, log, halted>>

RemovalTagsAllowedByDefault == {"RemovalDeletion", "RemovalMoving"}

-----------------------------------------------------------------------------
(* Events.                                                                  *)

Event(k, amount, stackKeys) ==
    [entry |-> k, amount |-> amount, addresses |-> {<<k, j>> : j \in stackKeys}]

Batch(s, type, data) == [storage |-> s, type |-> type, data |-> data]

TouchedBy(batch) == UNION {d.addresses : d \in batch.data}

\* Addresses one after another, by entry key and then by stack key: the n-th has
\* n - 1 before it.
AddressBefore(a, b) == a[1] < b[1] \/ (a[1] = b[1] /\ a[2] < b[2])

InOrder(addresses) ==
    [n \in 1 .. Cardinality(addresses) |->
        CHOOSE a \in addresses :
            Cardinality({b \in addresses : AddressBefore(b, a)}) = n - 1]

-----------------------------------------------------------------------------
(* Proxies.  These are the storage's PostContentAdded, PreContentRemoved    *)
(* and PostContentChanged, on the map of the live proxies.                  *)

\* NotifyUpdate counts a version up (to MaxVersion here).
Bump(version) == Lesser(version + 1, MaxVersion)

\* Mutated: a proxy that was there before its stack is not told.
PostContentAddedQuietly(proxies, k, e) == proxies

\* None of the three does anything for an entry that is not valid.
PostContentAdded(proxies, k, e) ==
    [a \in DOMAIN proxies |->
        IF IsValidEntry(e) /\ a[1] = k /\ a[2] \in DOMAIN e.stacks
        THEN 0 ELSE proxies[a]]

PreContentRemoved(proxies, k, e) ==
    [a \in {b \in DOMAIN proxies :
               ~(IsValidEntry(e) /\ b[1] = k /\ b[2] \in DOMAIN e.stacks)} |->
        proxies[a]]

PostContentChanged(proxies, k, e) ==
    IF IsValidEntry(e)
    THEN [a \in {b \in DOMAIN proxies : b[1] = k => b[2] \in DOMAIN e.stacks} |->
             IF a[1] = k THEN Bump(proxies[a]) ELSE proxies[a]]
    ELSE proxies

-----------------------------------------------------------------------------
(* The storage's internal implementations, on one storage record st.        *)

Holding(st, i) == {k \in DOMAIN st.entries : st.entries[k].item = i}
Contains(st, k, j) == k \in DOMAIN st.entries /\ j \in DOMAIN st.entries[k].stacks

\* FindEntry goes through the entries in key order.
FindEntry(st, i) == CHOOSE k \in Holding(st, i) : \A j \in Holding(st, i) : k <= j

\* Mutated: only what stacks without limit joins an entry.
JoinsUnlimited(st, i) ==
    i \notin Mutables /\ StackLimit[i] = UnlimitedStack /\ Holding(st, i) # {}

\* Mutated: only an entry with room in a stack is joined.
JoinsRoom(st, i) ==
    /\ i \notin Mutables
    /\ \E k \in Holding(st, i) : \E j \in DOMAIN st.entries[k].stacks :
          st.entries[k].stacks[j] < StackLimit[i]

\* Only an immutable item joins an entry that already holds an equal one.
Joins(st, i) == i \notin Mutables /\ Holding(st, i) # {}

SetEntry(st, k, e) ==
    [st EXCEPT !.entries = [j \in DOMAIN @ \cup {k} |-> IF j = k THEN e ELSE @[j]]]

\* Mutated: the key before the count, and the key after the last entry's.
PreviousKey(st) == st.keyGen

KeyAfterLast(st) ==
    CHOOSE k \in (KeyGenReset + 1)..(st.keyGen + 1) :
        /\ \A j \in DOMAIN st.entries : j < k
        /\ k > KeyGenReset + 1 => k - 1 \in DOMAIN st.entries

NextKey(st) == st.keyGen + 1
NextStackKey(e) == e.gen + 1

\* AddStackImplNoBroadcast: the storage after it, and the event it returns.
Joined(st, i, n, forceNewStack) ==
    LET k == FindEntry(st, i)
        e == IF forceNewStack THEN AddToNewStacks(st.entries[k], n)
                              ELSE AddToAnyStack(st.entries[k], n)
    IN  [SetEntry(st, k, e) EXCEPT !.proxies = PostContentChanged(@, k, e)]

Appended(st, i, n) ==
    LET k == NextKey(st)
        e == NewEntry(i, StackLimit[i], n)
    IN  [entries |-> SetEntry(st, k, e).entries,
         keyGen  |-> k,
         proxies |-> PostContentAdded(st.proxies, k, e)]

Added(st, i, n, forceNewStack) ==
    IF Joins(st, i) THEN Joined(st, i, n, forceNewStack) ELSE Appended(st, i, n)

\* Mutated: the stacks of a new entry are not reported.
AdditionEventOfJoins(st, i, n, forceNewStack) ==
    LET k   == IF Joins(st, i) THEN FindEntry(st, i) ELSE NextKey(st)
        new == Added(st, i, n, forceNewStack).entries[k]
    IN  Event(k, n, IF Joins(st, i) THEN DOMAIN new.stacks \ DOMAIN st.entries[k].stacks ELSE {})

AdditionEvent(st, i, n, forceNewStack) ==
    LET k   == IF Joins(st, i) THEN FindEntry(st, i) ELSE NextKey(st)
        new == Added(st, i, n, forceNewStack).entries[k]
        old == IF Joins(st, i) THEN DOMAIN st.entries[k].stacks ELSE {}
    IN  Event(k, n, DOMAIN new.stacks \ old)

\* Mutated: the entry is told off but not removed.
WithoutEntryKept(st, k) ==
    [entries |-> st.entries,
     keyGen  |-> st.keyGen,
     proxies |-> PreContentRemoved(st.proxies, k, st.entries[k])]

\* EntryMap.Remove, of one entry and (by Clear) of several.
WithoutEntry(st, k) ==
    [entries |-> [j \in DOMAIN st.entries \ {k} |-> st.entries[j]],
     keyGen  |-> st.keyGen,
     proxies |-> PreContentRemoved(st.proxies, k, st.entries[k])]

WithoutEntries(st, ks) ==
    [entries |-> [k \in DOMAIN st.entries \ ks |-> st.entries[k]],
     keyGen  |-> st.keyGen,
     proxies |-> [a \in {b \in DOMAIN st.proxies : b[1] \in ks =>
                             b \in DOMAIN PreContentRemoved(st.proxies, b[1], st.entries[b[1]])}
                     |-> st.proxies[a]]]

\* Mutated: an entry that loses just what it has is edited, not removed.
RemovesMoreThanEntry(st, k, amount) ==
    amount = EntireStack \/ amount > StackSum(st.entries[k])

RemovesEntry(st, k, amount) ==
    amount = EntireStack \/ amount >= StackSum(st.entries[k])

\* RemoveFromEntryImplNoBroadcast.  Stacks that are removed whole leave no bit
\* in the change mask, so the content change is announced only when the removal
\* ended inside a stack.
RemovedFromEntry(st, k, amount) ==
    IF RemovesEntry(st, k, amount) THEN WithoutEntry(st, k)
    ELSE LET e == RemoveFromAnyStack(st.entries[k], amount)
         IN  [SetEntry(st, k, e) EXCEPT !.proxies =
                 IF PartlyRemoved(st.entries[k], amount) = {}
                 THEN @ ELSE PostContentChanged(@, k, e)]

\* Mutated: the event names only the stack the removal ended in.
EntryRemovalEventOfPart(st, k, amount) ==
    IF RemovesEntry(st, k, amount)
    THEN Event(k, StackSum(st.entries[k]), DOMAIN st.entries[k].stacks)
    ELSE Event(k, amount, PartlyRemoved(st.entries[k], amount))

EntryRemovalEvent(st, k, amount) ==
    IF RemovesEntry(st, k, amount)
    THEN Event(k, StackSum(st.entries[k]), DOMAIN st.entries[k].stacks)
    ELSE Event(k, amount, ReachedFromTail(st.entries[k], amount))

\* RemoveFromStackImpl.  Neither removing one of several stacks nor setting a
\* stack to less leaves a bit in the change mask.
StackRemovalAmount(st, k, j, amount) ==
    IF amount = EntireStack THEN st.entries[k].stacks[j]
    ELSE Lesser(amount, st.entries[k].stacks[j])

RemovesOnlyStack(st, k, j, amount) ==
    /\ StackRemovalAmount(st, k, j, amount) = st.entries[k].stacks[j]
    /\ IsOnlyStack(st.entries[k], j)

\* Mutated: a stack that loses some of its copies is left as it was.
RemovedFromStackWhole(st, k, j, amount) ==
    LET e == st.entries[k]
        n == StackRemovalAmount(st, k, j, amount)
    IN  IF RemovesOnlyStack(st, k, j, amount) THEN WithoutEntry(st, k)
        ELSE IF n = e.stacks[j] THEN SetEntry(st, k, RemoveStack(e, j))
        ELSE st

RemovedFromStack(st, k, j, amount) ==
    LET e == st.entries[k]
        n == StackRemovalAmount(st, k, j, amount)
    IN  IF RemovesOnlyStack(st, k, j, amount) THEN WithoutEntry(st, k)
        ELSE IF n = e.stacks[j] THEN SetEntry(st, k, RemoveStack(e, j))
        ELSE SetEntry(st, k, SetStack(e, j, e.stacks[j] - n))

StackRemovalEvent(st, k, j, amount) ==
    Event(k, StackRemovalAmount(st, k, j, amount), {j})

-----------------------------------------------------------------------------
(* Permissions.  A verdict is what the storage's extension group answers;   *)
(* the group may hold any extensions, so a call sees any verdict.           *)

CanAddStack(n, verdict) == n >= 1 /\ verdict # "Disallowed"

CanRemove(tag, verdict) ==
    \/ verdict = "Allowed"
    \/ verdict = "NoExplicitResponse" /\ tag \in RemovalTagsAllowedByDefault

\* Splits and merges are allowed by default.
CanEdit(verdict) == verdict # "Disallowed"

-----------------------------------------------------------------------------
(* Ownership of mutable items (FaerieItemStorageStatics.cpp), the copies    *)
(* outside the storages, and the bounds of the key generators.              *)

TakeOwnership(own, s, i) == IF i \in Mutables THEN [own EXCEPT ![i] = s] ELSE own

\* Mutated: the mutation hook stays bound.
ReleaseNothing(own, is) == own

ReleaseOwnership(own, is) ==
    [i \in Mutables |-> IF i \in is THEN NoOwner ELSE own[i]]

WithinBounds(st) ==
    /\ st.keyGen <= MaxEntryKey
    /\ \A k \in DOMAIN st.entries : st.entries[k].gen <= MaxStackKey

EmptyStorage == [entries |-> <<>>, keyGen |-> KeyGenReset, proxies |-> <<>>]

Init ==
    /\ store = [s \in Storages |-> EmptyStorage]
    /\ owner = [i \in Mutables |-> NoOwner]
    /\ loose = Supply
    /\ log = <<>>
    /\ halted = FALSE

-----------------------------------------------------------------------------
(* The calls on one storage.                                                *)

\* AddItemStack, AddEntryFromItemObject (one copy) and Possess (any stack).
AddItemStack(s, i, n, forceNewStack, verdict) ==
    /\ CanAddStack(n, verdict)
    /\ n <= loose[i]
    /\ store' = [store EXCEPT ![s] = Added(@, i, n, forceNewStack)]
    /\ WithinBounds(store'[s])
    /\ owner' = TakeOwnership(owner, s, i)
    /\ loose' = [loose EXCEPT ![i] = @ - n]
    /\ log' = <<Batch(s, "Addition", {AdditionEvent(store[s], i, n, forceNewStack)})>>
    /\ UNCHANGED halted

\* RemoveEntry, TakeEntry and Release by key.
RemoveFromEntry(s, k, amount, tag, verdict) ==
    LET i == store[s].entries[k].item
        event == EntryRemovalEvent(store[s], k, amount)
    IN  /\ CanRemove(tag, verdict)
        /\ store' = [store EXCEPT ![s] = RemovedFromEntry(@, k, amount)]
        /\ owner' = IF RemovesEntry(store[s], k, amount)
                    THEN ReleaseOwnership(owner, {i}) ELSE owner
        /\ loose' = [loose EXCEPT ![i] = @ + event.amount]
        /\ log' = <<Batch(s, tag, {event})>>
        /\ UNCHANGED halted

\* RemoveStack, TakeStack and Release by address.
RemoveFromStack(s, k, j, amount, tag, verdict) ==
    LET i == store[s].entries[k].item
        event == StackRemovalEvent(store[s], k, j, amount)
    IN  /\ CanRemove(tag, verdict)
        /\ store' = [store EXCEPT ![s] = RemovedFromStack(@, k, j, amount)]
        /\ owner' = IF RemovesOnlyStack(store[s], k, j, amount)
                    THEN ReleaseOwnership(owner, {i}) ELSE owner
        /\ loose' = [loose EXCEPT ![i] = @ + event.amount]
        /\ log' = <<Batch(s, tag, {event})>>
        /\ UNCHANGED halted

\* Clear asks whether each entry may be moved, whatever its tag, and leaves the
\* entries an extension keeps; then it checks that none is left.
Cleared(st, kept) ==
    LET left == WithoutEntries(st, DOMAIN st.entries \ kept)
    IN  IF InEditor /\ kept = {} THEN [left EXCEPT !.keyGen = KeyGenReset] ELSE left

ClearedCopies(st, kept, i) ==
    LET gone == {k \in DOMAIN st.entries \ kept : st.entries[k].item = i}
    IN  SumOver([k \in gone |-> StackSum(st.entries[k])], gone)

Clear(s, kept, tag) ==
    LET st == store[s]
        gone == DOMAIN st.entries \ kept
    IN  /\ store' = [store EXCEPT ![s] = Cleared(@, kept)]
        /\ owner' = ReleaseOwnership(owner, {st.entries[k].item : k \in gone})
        /\ loose' = [i \in Items |-> loose[i] + ClearedCopies(st, kept, i)]
        /\ log' = <<Batch(s, tag, {EntryRemovalEvent(st, k, EntireStack) : k \in gone})>>
        /\ halted' = (kept # {})

\* A stack is split when it holds more than the amount.
SplitOff(st, k, j, amount) ==
    LET e == SplitStack(st.entries[k], j, amount)
    IN  [SetEntry(st, k, e) EXCEPT !.proxies = PostContentChanged(@, k, e)]

Split(s, k, j, amount, verdict) ==
    /\ CanEdit(verdict)
    /\ amount < store[s].entries[k].stacks[j]
    /\ store' = [store EXCEPT ![s] = SplitOff(@, k, j, amount)]
    /\ WithinBounds(store'[s])
    /\ log' = <<Batch(s, "Split", {Event(k, amount, {j, NextStackKey(store[s].entries[k])})})>>
    /\ UNCHANGED <<owner, loose, halted>>

\* MergeStacks refuses whenever the first stack exists.  What it lets pass is a
\* stack that does not exist, merged into one of -1 copies: the array's range
\* check stops that.
MergeStacksRefuses(e, from, to) ==
    LET copiesB == IF to \in DOMAIN e.stacks THEN e.stacks[to] ELSE 0
    IN  from \in DOMAIN e.stacks \/ copiesB # -1 \/ copiesB = e.limit

MergeStacks(s, k, from, to, verdict) ==
    /\ CanEdit(verdict)
    /\ ~MergeStacksRefuses(store[s].entries[k], from, to)
    /\ halted' = TRUE
    /\ UNCHANGED <<store, owner, loose, log>>

\* A token of a stored mutable item changes: the hook tells the item's owner
\* (OnItemMutated), which looks the item up by its pointer.
MutateItem(i) ==
    /\ owner[i] \in Storages
    /\ Holding(store[owner[i]], i) # {}
    /\ LET st == store[owner[i]]
           k  == FindEntry(st, i)
       IN  store' = [store EXCEPT ![owner[i]].proxies =
                        PostContentChanged(@, k, st.entries[k])]
    /\ UNCHANGED <<owner, loose, log, halted>>

\* Proxy(address) makes a proxy when no live one is registered; it starts at
\* version 0 if the stack exists and at -1 if it does not (yet).
RequestProxy(s, a) ==
    /\ a \notin DOMAIN store[s].proxies
    /\ store' = [store EXCEPT ![s].proxies =
                    [b \in DOMAIN @ \cup {a} |->
                        IF b # a THEN @[b]
                        ELSE IF Contains(store[s], a[1], a[2]) THEN 0 ELSE -1]]
    /\ UNCHANGED <<owner, loose, log, halted>>

\* Nobody holds the proxy any more: the storage's weak pointer goes stale.
DropProxy(s, a) ==
    /\ a \in DOMAIN store[s].proxies
    /\ store' = [store EXCEPT ![s].proxies = [b \in DOMAIN @ \ {a} |-> @[b]]]
    /\ UNCHANGED <<owner, loose, log, halted>>

-----------------------------------------------------------------------------
(* The calls that move items from storage s to storage t.                   *)

\* Mutated: the item is added to t before s releases it.
MovedReleasedLast(s, t, taken, i, n, forceNewStack, released, event) ==
    /\ store' = [store EXCEPT ![s] = taken,
                              ![t] = Added(@, i, n, forceNewStack)]
    /\ WithinBounds(store'[t])
    /\ owner' = IF released THEN ReleaseOwnership(TakeOwnership(owner, t, i), {i})
                ELSE TakeOwnership(owner, t, i)
    /\ log' = <<Batch(s, "RemovalMoving", {event}),
                Batch(t, "Addition", {AdditionEvent(store[t], i, n, forceNewStack)})>>
    /\ UNCHANGED <<loose, halted>>

Moved(s, t, taken, i, n, forceNewStack, released, event) ==
    /\ store' = [store EXCEPT ![s] = taken,
                              ![t] = Added(@, i, n, forceNewStack)]
    /\ WithinBounds(store'[t])
    /\ owner' = TakeOwnership(IF released THEN ReleaseOwnership(owner, {i}) ELSE owner, t, i)
    /\ log' = <<Batch(s, "RemovalMoving", {event}),
                Batch(t, "Addition", {AdditionEvent(store[t], i, n, forceNewStack)})>>
    /\ UNCHANGED <<loose, halted>>

MoveStack(s, t, k, j, amount, forceNewStack, leave, enter) ==
    LET st == store[s]
        n  == StackRemovalAmount(st, k, j, amount)
    IN  /\ s # t
        /\ CanRemove("RemovalMoving", leave)
        /\ st.entries[k].stacks[j] > 0
        /\ CanAddStack(n, enter)
        /\ Moved(s, t, RemovedFromStack(st, k, j, amount), st.entries[k].item, n,
                 forceNewStack, RemovesOnlyStack(st, k, j, amount),
                 StackRemovalEvent(st, k, j, amount))

MoveEntry(s, t, k, forceNewStack, leave, enter) ==
    LET st == store[s]
        n  == StackSum(st.entries[k])
    IN  /\ s # t
        /\ CanRemove("RemovalMoving", leave)
        /\ CanAddStack(n, enter)
        /\ Moved(s, t, WithoutEntry(st, k), st.entries[k].item, n,
                 forceNewStack, TRUE, EntryRemovalEvent(st, k, EntireStack))

-----------------------------------------------------------------------------
StackKeys == (KeyGenReset + 1)..MaxStackKey
EntryKeys == (KeyGenReset + 1)..MaxEntryKey
Amounts == RemoveAmounts \cup {EntireStack}

StorageCall(s) ==
    \/ \E i \in Items : \E n \in 1..loose[i], f \in BOOLEAN, v \in Verdicts :
          AddItemStack(s, i, n, f, v)
    \/ \E tag \in RemovalTags, kept \in SUBSET DOMAIN store[s].entries :
          Clear(s, kept, tag)
    \/ \E k \in DOMAIN store[s].entries, v \in Verdicts :
          \/ \E n \in Amounts, tag \in RemovalTags : RemoveFromEntry(s, k, n, tag, v)
          \/ \E j \in DOMAIN store[s].entries[k].stacks :
                \/ \E n \in Amounts, tag \in RemovalTags : RemoveFromStack(s, k, j, n, tag, v)
                \/ \E n \in SplitAmounts : Split(s, k, j, n, v)
                \/ \E from \in StackKeys : MergeStacks(s, k, from, j, v)
    \/ \E a \in Watched : RequestProxy(s, a) \/ DropProxy(s, a)

TransferCall(s, t) ==
    \E k \in DOMAIN store[s].entries, f \in BOOLEAN, v, w \in Verdicts :
        \/ MoveEntry(s, t, k, f, v, w)
        \/ \E j \in DOMAIN store[s].entries[k].stacks, n \in Amounts :
              MoveStack(s, t, k, j, n, f, v, w)

Next ==
    /\ ~halted
    /\ \/ \E s \in Storages : StorageCall(s)
       \/ \E i \in Mutables : MutateItem(i)
       \/ \E s, t \in Storages : TransferCall(s, t)

Spec == Init /\ [][Next]_vars

-----------------------------------------------------------------------------
(* Properties.                                                              *)

EntryOK(e) ==
    /\ e \in [item : Items, limit : Limits, gen : KeyGenReset..MaxStackKey,
              stacks : [DOMAIN e.stacks -> Int]]
    /\ DOMAIN e.stacks \subseteq StackKeys

StorageOK(st) ==
    /\ st = [entries |-> st.entries, keyGen |-> st.keyGen, proxies |-> st.proxies]
    /\ st.entries = [k \in DOMAIN st.entries |-> st.entries[k]]
    /\ DOMAIN st.entries \subseteq EntryKeys
    /\ \A k \in DOMAIN st.entries : EntryOK(st.entries[k])
    /\ st.keyGen \in KeyGenReset..MaxEntryKey
    /\ DOMAIN st.proxies \subseteq Watched
    /\ st.proxies \in [DOMAIN st.proxies -> Int]

\* The type invariant: entry and stack keys are keys a generator gives out,
\* entries hold items with a limit a limiter can have (FaerieItemStorage.h).
TypeOK ==
    /\ store = [s \in Storages |-> store[s]]
    /\ \A s \in Storages : StorageOK(store[s])
    /\ owner \in [Mutables -> Storages \cup {NoOwner}]
    /\ loose = [i \in Items |-> loose[i]]
    /\ \A i \in Items : loose[i] \in Int
    /\ halted \in BOOLEAN

\* The next key of every generator is above every key in use: appending keeps
\* EntryMap and the stacks of an entry sorted, which their binary searches rely
\* on (comment in AddStackImplNoBroadcast).
KeysBelowGenerator(st) ==
    /\ \A k \in DOMAIN st.entries : k <= st.keyGen
    /\ \A k \in DOMAIN st.entries : \A j \in DOMAIN st.entries[k].stacks :
          j <= st.entries[k].gen

KeysBelowGenerators == \A s \in Storages : KeysBelowGenerator(store[s])

\* Equal immutable items are never spread over two entries of one storage,
\* whatever was split, moved away and moved back (FindEntry, UseCompareWith).
ImmutablesShareAnEntry ==
    \A s \in Storages : \A k, j \in DOMAIN store[s].entries :
        /\ store[s].entries[k].item = store[s].entries[j].item
        /\ store[s].entries[k].item \notin Mutables
        => k = j

\* A mutable item tells its mutations to the storage that holds it, and to
\* nobody once it is out of every storage (TakeOwnership, ReleaseOwnership).
HeldBy(i) == {s \in Storages : Holding(store[s], i) # {}}

OwnerHoldsItem ==
    \A i \in Mutables : HeldBy(i) = (IF owner[i] = NoOwner THEN {} ELSE {owner[i]})

\* Every entry passes FInventoryEntry::IsValid, the test PostContentChanged
\* ensures before it tells the proxies.
EntriesValid ==
    \A s \in Storages : \A k \in DOMAIN store[s].entries : IsValidEntry(store[s].entries[k])

\* A proxy of a stack that is there has been told so: its version is not -1
\* (ItemStackProxy.h, LocalItemVersion).
ProxiesOfStacksAreLive ==
    \A s \in Storages : \A a \in DOMAIN store[s].proxies :
        Contains(store[s], a[1], a[2]) => store[s].proxies[a] >= 0

\* The other direction: a proxy that counts as live stands for a stack that is
\* there (PostContentChanged: "called when stacks are removed as well").
LiveProxiesHaveStacks ==
    \A s \in Storages : \A a \in DOMAIN store[s].proxies :
        store[s].proxies[a] >= 0 => Contains(store[s], a[1], a[2])

\* The version of a live proxy counts the updates it saw and never goes back:
\* a key is not given out again while a proxy still stands for it
\* (ItemStackProxy.h, LocalItemVersion; NotifyCreation starts again at 0).
VersionsCountUp ==
    [][\A s \in Storages : \A a \in DOMAIN store[s].proxies \cap DOMAIN store'[s].proxies :
          store[s].proxies[a] <= store'[s].proxies[a]]_vars

\* Copies of an item, stored and loose.
Stored(st, i) == SumOver([k \in Holding(st, i) |-> StackSum(st.entries[k])], Holding(st, i))
InWorld(i) == loose[i] + SumOver([s \in Storages |-> Stored(store[s], i)], Storages)

\* The last call gave an entry that was there more copies than one stack takes.
Oversized ==
    \E b \in {log'[n] : n \in DOMAIN log'} : \E d \in b.data :
        /\ b.type = "Addition" /\ b.storage \in Storages
        /\ d.entry \in DOMAIN store[b.storage].entries
        /\ store[b.storage].entries[d.entry].limit \in 1..(d.amount - 1)

\* No call makes or loses a copy, unless it is such an addition.
CopiesConserved == [][~Oversized => \A i \in Items : InWorld(i)' = InWorld(i)]_vars

\* No stack holds more than the limit of its item allows.
StackLimitsKept ==
    \A s \in Storages : \A k \in DOMAIN store[s].entries :
        LET e == store[s].entries[k]
        IN  \A j \in DOMAIN e.stacks :
                e.limit # UnlimitedStack => e.stacks[j] <= e.limit

\* What the events of the last call name in storage s.
Named(s) ==
    UNION {UNION {d.addresses : d \in b.data} :
              b \in {log'[n] : n \in {m \in DOMAIN log' : log'[m].storage = s}}}

AddressesOf(st) ==
    {a \in EntryKeys \X StackKeys : Contains(st, a[1], a[2])}

\* Every address that appears or disappears is named in an event: the grids and
\* the per-stack data of extensions hear of nothing else.
EventsNameComingAndGoing ==
    [][\A s \in Storages :
          /\ AddressesOf(store'[s]) \ AddressesOf(store[s]) \subseteq Named(s)
          /\ AddressesOf(store[s]) \ AddressesOf(store'[s]) \subseteq Named(s)]_vars

\* The addresses of a storage as the names StableNames speaks of.  An address
\* is spent once its entry's key is given out, unless that entry is there and
\* has not yet come to the stack key.
ItemAt(st) == [a \in AddressesOf(st) |-> st.entries[a[1]].item]

Spent(st) ==
    {a \in EntryKeys \X StackKeys :
        /\ a[1] <= st.keyGen
        /\ a[1] \in DOMAIN st.entries => a[2] <= st.entries[a[1]].gen}

Addresses == INSTANCE StableNames WITH
    Containers <- Storages,
    bound      <- [s \in Storages |-> ItemAt(store[s])],
    spent      <- [s \in Storages |-> Spent(store[s])]

\* An address stands for one item as long as its stack is there and for nothing
\* ever after, so that a stale handle never reaches another item (KeyGen;
\* Footnote1 of FaerieItemStorage.cpp).  In the editor Clear gives keys out anew.
AddressesAreStable == Addresses!Spec

\* Clear empties the storage; its checkf says so.
NeverHalted == ~halted

\* A storage that takes ownership of a mutable item takes it from nobody:
\* the previous owner has released it (checkfSlow in TakeOwnership).
TakesOnlyReleased ==
    [][\A i \in Mutables :
          owner[i] # NoOwner /\ owner'[i] \notin {NoOwner, owner[i]}
          => HeldBy(i)' \cap {owner[i]} = {}]_vars

\* MergeStacks accepts two different stacks of which the second is not full
\* ("Ensure both stacks exist and B isn't already full").
MergesWhatCanMerge ==
    \A s \in Storages : \A k \in DOMAIN store[s].entries :
        LET e == store[s].entries[k]
        IN  \A from, to \in DOMAIN e.stacks :
                from # to /\ e.stacks[to] # e.limit => ~MergeStacksRefuses(e, from, to)
=============================================================================
