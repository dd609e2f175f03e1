----------------------- MODULE FaerieItemStorage_proofs -----------------------
(* Theorems of FaerieItemStorage for every set of storages and items, every *)
(* stack limit, supply and bound: its types, the keys below their           *)
(* generators, one entry for equal immutable items, addresses that are      *)
(* never given out again; and what its calls do to stacks, owners, proxies  *)
(* and copies.  Then the same for the slots and the moves between slots and *)
(* storages: a call there is a chain of operators on worlds, so each lemma  *)
(* says what one link keeps, and the theorems put the links together.       *)
(* Last, who hears the batches of the calls: the simple grid of a storage,  *)
(* and the widget that lists its stacks.                                    *)
EXTENDS EquipmentSlots, SimpleGrid, StorageWidget, InventoryEntry_proofs

\* One storage record, its entries, its generator and its proxies.
IsStorage(st) ==
    /\ st = [entries |-> st.entries, keyGen |-> st.keyGen, proxies |-> st.proxies]
    /\ st.entries = [k \in DOMAIN st.entries |-> st.entries[k]]
    /\ st.keyGen \in Int /\ st.keyGen >= KeyGenReset
    /\ DOMAIN st.entries \subseteq (KeyGenReset + 1)..st.keyGen
    /\ \A k \in DOMAIN st.entries : IsEntry(st.entries[k]) /\ st.entries[k].item \in Items
    /\ DOMAIN st.proxies \subseteq Watched
    /\ st.proxies \in [DOMAIN st.proxies -> Int]

IsProxies(p) == DOMAIN p \subseteq Watched /\ p \in [DOMAIN p -> Int]

SharesEntries(st) ==
    \A k, j \in DOMAIN st.entries :
        st.entries[k].item = st.entries[j].item /\ st.entries[k].item \notin Mutables
        => k = j

\* What a call keeps of the names of a storage: entries that stay continue, and
\* entries that come take new keys.
KeepsNames(st, tt) ==
    /\ tt.keyGen >= st.keyGen
    /\ \A k \in DOMAIN tt.entries :
          IF k \in DOMAIN st.entries THEN Continues(st.entries[k], tt.entries[k])
          ELSE k > st.keyGen

Sound(st) == IsStorage(st) /\ SharesEntries(st)
SoundStep(st, tt) == Sound(tt) /\ KeepsNames(st, tt)

-----------------------------------------------------------------------------
(* The proxies.                                                             *)

\* A version stays a number when an update counts it up.
LEMMA BumpInt == ASSUME NEW v \in Int PROVE Bump(v) \in Int
BY InputsAssumption DEF Bump, Lesser

\* The three notifications keep a map of proxies one.
LEMMA ProxiesStayProxies ==
    ASSUME NEW p, IsProxies(p), NEW k, NEW e
    PROVE  /\ IsProxies(PostContentAdded(p, k, e))
           /\ IsProxies(PreContentRemoved(p, k, e))
           /\ IsProxies(PostContentChanged(p, k, e))
<1>1. IsProxies(PostContentAdded(p, k, e))
  BY DEF IsProxies, PostContentAdded
<1>2. IsProxies(PreContentRemoved(p, k, e))
  BY DEF IsProxies, PreContentRemoved
<1>3. IsProxies(PostContentChanged(p, k, e))
  BY BumpInt DEF IsProxies, PostContentChanged
<1> QED
  BY <1>1, <1>2, <1>3

-----------------------------------------------------------------------------
(* The implementations on one storage.                                      *)

\* An entry replaced by one that continues it.
LEMMA EntryContinues ==
    ASSUME NEW st, Sound(st), NEW k \in DOMAIN st.entries, NEW e, NEW p,
           IsEntry(e), Continues(st.entries[k], e), IsProxies(p)
    PROVE  /\ SoundStep(st, SetEntry(st, k, e))
           /\ SoundStep(st, [SetEntry(st, k, e) EXCEPT !.proxies = p])
<1> DEFINE entries == [j \in DOMAIN st.entries \cup {k} |-> IF j = k THEN e ELSE st.entries[j]]
           made(q) == [entries |-> entries, keyGen |-> st.keyGen, proxies |-> q]
<1>1. SetEntry(st, k, e) = made(st.proxies)
  BY DEF SetEntry, Sound, IsStorage
<1>2. [SetEntry(st, k, e) EXCEPT !.proxies = p] = made(p)
  BY <1>1
<1>3. ASSUME NEW q, IsProxies(q) PROVE SoundStep(st, made(q))
  <2> DEFINE tt == made(q)
  <2>1. /\ DOMAIN entries = DOMAIN st.entries
        /\ entries[k] = e
        /\ \A j \in DOMAIN st.entries : j # k => entries[j] = st.entries[j]
    OBVIOUS
  <2>2. tt.entries = entries /\ tt.keyGen = st.keyGen /\ tt.proxies = q
    OBVIOUS
  <2>3. entries = [j \in DOMAIN entries |-> entries[j]]
    OBVIOUS
  <2>4. tt = [entries |-> tt.entries, keyGen |-> tt.keyGen, proxies |-> tt.proxies]
    OBVIOUS
  <2> HIDE DEF entries, tt
  <2>5. \A j \in DOMAIN entries : entries[j].item = st.entries[j].item
    BY <2>1 DEF Continues
  <2>6. IsStorage(tt)
    BY <1>3, <2>1, <2>2, <2>3, <2>4, <2>5 DEF IsStorage, Sound, IsProxies
  <2>7. SharesEntries(tt)
    BY <2>1, <2>2, <2>5 DEF SharesEntries, Sound
  <2>8. \A j \in DOMAIN st.entries : Continues(st.entries[j], st.entries[j])
    BY DEF Continues, Sound, IsStorage, IsEntry
  <2>9. KeepsNames(st, tt)
    BY <2>1, <2>2, <2>8 DEF KeepsNames, Sound, IsStorage
  <2> QED
    BY <2>6, <2>7, <2>9 DEF SoundStep, Sound, tt
<1>4. IsProxies(st.proxies)
  BY DEF Sound, IsStorage, IsProxies
<1> QED
  BY <1>1, <1>2, <1>3, <1>4

\* The amounts of a storage are integers.
LEMMA SumsInt ==
    ASSUME NEW st, Sound(st), NEW k \in DOMAIN st.entries
    PROVE  /\ StackSum(st.entries[k]) \in Int
           /\ st.entries[k].stacks \in [DOMAIN st.entries[k].stacks -> Int]
BY StackSumInt DEF Sound, IsStorage, IsEntry

\* The storage after an addition.
LEMMA AddedSound ==
    ASSUME NEW st, Sound(st), NEW i \in Items, NEW n \in Nat \ {0}, NEW f \in BOOLEAN
    PROVE  SoundStep(st, Added(st, i, n, f))
<1> USE DEF Sound
<1>1. CASE Joins(st, i)
  <2> DEFINE k == FindEntry(st, i)
             e == IF f THEN AddToNewStacks(st.entries[k], n)
                       ELSE AddToAnyStack(st.entries[k], n)
  <2>1. k \in Holding(st, i)
    \* All the entries that hold an immutable item are one.
    <3>1. PICK j \in Holding(st, i) : TRUE
      BY <1>1 DEF Joins
    <3>2. \A l \in Holding(st, i) : l = j
      BY <1>1, <3>1 DEF Joins, Holding, SharesEntries
    <3>3. j \in Int
      BY <3>1 DEF Holding, IsStorage
    <3>4. \A l \in Holding(st, i) : j <= l
      BY <3>2, <3>3
    <3> QED
      BY <3>1, <3>4 DEF FindEntry
  <2>2. k \in DOMAIN st.entries
    BY <2>1 DEF Holding
  <2>3. IsEntry(st.entries[k])
    BY <2>2 DEF IsStorage
  <2> HIDE DEF k
  <2>4. IsEntry(e) /\ Continues(st.entries[k], e)
    BY <2>3, AddToNewStacksContinues, AddToAnyStackContinues
  <2>5. IsProxies(PostContentChanged(st.proxies, k, e))
    BY ProxiesStayProxies DEF IsStorage, IsProxies
  <2> HIDE DEF e
  <2>6. SetEntry(st, k, e).proxies = st.proxies
    BY DEF SetEntry, IsStorage
  <2>7. Added(st, i, n, f)
          = [SetEntry(st, k, e) EXCEPT !.proxies = PostContentChanged(@, k, e)]
    BY <1>1 DEF Added, Joined, k, e
  <2>8. Added(st, i, n, f)
          = [SetEntry(st, k, e) EXCEPT !.proxies = PostContentChanged(st.proxies, k, e)]
    BY <2>6, <2>7
  <2> QED
    BY <2>2, <2>4, <2>5, <2>8, EntryContinues
<1>2. CASE ~Joins(st, i)
  <2> DEFINE k == NextKey(st)
             e == NewEntry(i, StackLimit[i], n)
             p == PostContentAdded(st.proxies, k, e)
             entries == [j \in DOMAIN st.entries \cup {k} |-> IF j = k THEN e ELSE st.entries[j]]
             tt == [entries |-> entries, keyGen |-> k, proxies |-> p]
  <2>1. IsEntry(e) /\ e.item = i
    BY NewEntryIsEntry, ItemsAssumption
  <2>2. IsProxies(p)
    BY ProxiesStayProxies DEF IsStorage, IsProxies
  <2>3. k = st.keyGen + 1
    BY DEF NextKey
  <2>4. Added(st, i, n, f) = tt
    BY <1>2 DEF Added, Appended, SetEntry, IsStorage
  <2> HIDE DEF e, p, k
  <2>5. /\ DOMAIN entries = DOMAIN st.entries \cup {k}
        /\ k \notin DOMAIN st.entries
        /\ entries[k] = e
        /\ \A j \in DOMAIN st.entries : entries[j] = st.entries[j]
    BY <2>3 DEF IsStorage
  <2>6. tt.entries = entries /\ tt.keyGen = k /\ tt.proxies = p
    OBVIOUS
  <2>7. entries = [j \in DOMAIN entries |-> entries[j]]
    OBVIOUS
  <2>8. tt = [entries |-> tt.entries, keyGen |-> tt.keyGen, proxies |-> tt.proxies]
    OBVIOUS
  <2> HIDE DEF entries, tt
  <2>9. IsStorage(tt)
    <3>1. k \in Int /\ k >= KeyGenReset /\ k \in (KeyGenReset + 1)..k
      BY <2>3 DEF IsStorage, KeyGenReset
    <3>2. (KeyGenReset + 1)..st.keyGen \subseteq (KeyGenReset + 1)..k
      BY <2>3 DEF IsStorage, KeyGenReset
    <3>3. DOMAIN entries \subseteq (KeyGenReset + 1)..k
      BY <2>5, <3>1, <3>2 DEF IsStorage
    <3>4. \A j \in DOMAIN entries : IsEntry(entries[j]) /\ entries[j].item \in Items
      BY <2>1, <2>5 DEF IsStorage
    <3> QED
      BY <2>2, <2>6, <2>7, <2>8, <3>1, <3>3, <3>4 DEF IsStorage, IsProxies
  <2>10. SharesEntries(tt)
    \* An immutable item is appended only when no entry holds it.
    <3> SUFFICES ASSUME NEW l \in DOMAIN entries, NEW j \in DOMAIN entries,
                        entries[l].item = entries[j].item,
                        entries[l].item \notin Mutables
                 PROVE  l = j
      BY <2>6 DEF SharesEntries
    <3>1. i \notin Mutables => \A m \in DOMAIN st.entries : st.entries[m].item # i
      BY <1>2 DEF Joins, Holding
    <3> QED
      BY <2>1, <2>5, <3>1 DEF SharesEntries
  <2>11. \A j \in DOMAIN st.entries : Continues(st.entries[j], st.entries[j])
    BY DEF Continues, IsStorage, IsEntry
  <2>12. KeepsNames(st, tt)
    BY <2>3, <2>5, <2>6, <2>11 DEF KeepsNames, IsStorage
  <2> QED
    BY <2>4, <2>9, <2>10, <2>12 DEF SoundStep
<1> QED
  BY <1>1, <1>2

\* The storage after entries are removed, and what removal leaves of the bounds.
LEMMA WithoutEntriesSound ==
    ASSUME NEW st, Sound(st), NEW ks, NEW p, IsProxies(p)
    PROVE  LET tt == [entries |-> [k \in DOMAIN st.entries \ ks |-> st.entries[k]],
                      keyGen  |-> st.keyGen,
                      proxies |-> p]
           IN  SoundStep(st, tt) /\ (WithinBounds(st) => WithinBounds(tt))
<1> DEFINE entries == [k \in DOMAIN st.entries \ ks |-> st.entries[k]]
           tt == [entries |-> entries, keyGen |-> st.keyGen, proxies |-> p]
<1>1. /\ DOMAIN entries \subseteq DOMAIN st.entries
      /\ \A j \in DOMAIN entries : entries[j] = st.entries[j]
  OBVIOUS
<1>2. tt.entries = entries /\ tt.keyGen = st.keyGen /\ tt.proxies = p
  OBVIOUS
<1>3. entries = [j \in DOMAIN entries |-> entries[j]]
  OBVIOUS
<1>4. tt = [entries |-> tt.entries, keyGen |-> tt.keyGen, proxies |-> tt.proxies]
  OBVIOUS
<1> HIDE DEF entries, tt
<1>5. IsStorage(tt)
  BY <1>1, <1>2, <1>3, <1>4 DEF Sound, IsStorage, IsProxies
<1>6. SharesEntries(tt)
  BY <1>1, <1>2 DEF Sound, SharesEntries
<1>7. KeepsNames(st, tt)
  BY <1>1, <1>2 DEF Sound, IsStorage, IsEntry, KeepsNames, Continues
<1>8. WithinBounds(st) => WithinBounds(tt)
  BY <1>1, <1>2 DEF WithinBounds
<1> QED
  BY <1>5, <1>6, <1>7, <1>8 DEF SoundStep, Sound, tt, entries

\* EntryMap.Remove keeps a storage sound.
LEMMA WithoutEntrySound ==
    ASSUME NEW st, Sound(st), NEW k
    PROVE  /\ SoundStep(st, WithoutEntry(st, k))
           /\ WithinBounds(st) => WithinBounds(WithoutEntry(st, k))
<1>1. IsProxies(PreContentRemoved(st.proxies, k, st.entries[k]))
  BY ProxiesStayProxies DEF Sound, IsStorage, IsProxies
<1> QED
  BY <1>1, WithoutEntriesSound DEF WithoutEntry

\* An edit of an entry that makes no stack keeps the bounds.
LEMMA BoundsKept ==
    ASSUME NEW st, Sound(st), WithinBounds(st), NEW k \in DOMAIN st.entries, NEW e,
           e.gen = st.entries[k].gen, NEW p
    PROVE  /\ WithinBounds(SetEntry(st, k, e))
           /\ WithinBounds([SetEntry(st, k, e) EXCEPT !.proxies = p])
<1> DEFINE entries == [j \in DOMAIN st.entries \cup {k} |-> IF j = k THEN e ELSE st.entries[j]]
<1>1. SetEntry(st, k, e) = [entries |-> entries, keyGen |-> st.keyGen, proxies |-> st.proxies]
  BY DEF SetEntry, Sound, IsStorage
<1>2. [SetEntry(st, k, e) EXCEPT !.proxies = p]
        = [entries |-> entries, keyGen |-> st.keyGen, proxies |-> p]
  BY <1>1
<1> QED
  BY <1>1, <1>2 DEF WithinBounds

\* RemoveFromEntryImplNoBroadcast keeps a storage sound, and its event counts
\* a number of copies.
LEMMA RemovedFromEntrySound ==
    ASSUME NEW st, Sound(st), NEW k \in DOMAIN st.entries, NEW n \in Int
    PROVE  /\ SoundStep(st, RemovedFromEntry(st, k, n))
           /\ WithinBounds(st) => WithinBounds(RemovedFromEntry(st, k, n))
<1>1. CASE RemovesEntry(st, k, n)
  BY <1>1, WithoutEntrySound DEF RemovedFromEntry
<1>2. CASE ~RemovesEntry(st, k, n)
  <2> DEFINE e == RemoveFromAnyStack(st.entries[k], n)
             p == IF PartlyRemoved(st.entries[k], n) = {}
                  THEN st.proxies ELSE PostContentChanged(st.proxies, k, e)
  <2>1. IsEntry(e) /\ Continues(st.entries[k], e) /\ e.gen = st.entries[k].gen
    BY RemoveFromAnyStackContinues DEF Sound, IsStorage
  <2>2. IsProxies(p)
    BY ProxiesStayProxies DEF Sound, IsStorage, IsProxies
  <2> HIDE DEF e
  <2>3. SetEntry(st, k, e).proxies = st.proxies
    BY DEF SetEntry, Sound, IsStorage
  <2>4. RemovedFromEntry(st, k, n) = [SetEntry(st, k, e) EXCEPT !.proxies = p]
    BY <1>2, <2>3 DEF RemovedFromEntry, e
  <2> HIDE DEF p
  <2> QED
    BY <2>1, <2>2, <2>4, EntryContinues, BoundsKept
<1> QED
  BY <1>1, <1>2

\* RemoveFromStackImpl keeps a storage sound, whatever the stack holds.
LEMMA RemovedFromStackSound ==
    ASSUME NEW st, Sound(st), NEW k \in DOMAIN st.entries,
           NEW j \in DOMAIN st.entries[k].stacks, NEW n \in Int
    PROVE  /\ SoundStep(st, RemovedFromStack(st, k, j, n))
           /\ WithinBounds(st) => WithinBounds(RemovedFromStack(st, k, j, n))
           /\ StackRemovalAmount(st, k, j, n) \in Int
<1> DEFINE m == StackRemovalAmount(st, k, j, n)
           e == st.entries[k]
<1>1. m \in Int
  BY SumsInt DEF StackRemovalAmount, Lesser
<1>2. CASE RemovesOnlyStack(st, k, j, n)
  BY <1>1, <1>2, WithoutEntrySound DEF RemovedFromStack
<1>3. CASE ~RemovesOnlyStack(st, k, j, n)
  <2>1. IsEntry(e)
    BY DEF Sound, IsStorage
  <2>2. e.stacks[j] - m \in Int
    BY <1>1, SumsInt
  <2>3. IsProxies(st.proxies)
    BY DEF Sound, IsStorage, IsProxies
  <2>4. PICK x : /\ RemovedFromStack(st, k, j, n) = SetEntry(st, k, x)
                 /\ IsEntry(x) /\ Continues(e, x) /\ x.gen = e.gen
    BY <1>3, <2>1, <2>2, RemoveStackContinues, SetStackContinues DEF RemovedFromStack
  <2> QED
    BY <1>1, <2>3, <2>4, EntryContinues, BoundsKept
<1> QED
  BY <1>2, <1>3

-----------------------------------------------------------------------------
(* The inductive invariant.                                                 *)

StoreInv ==
    /\ store = [s \in Storages |-> store[s]]
    /\ \A s \in Storages : Sound(store[s]) /\ WithinBounds(store[s])

IsHooks(own) == own = [i \in Mutables |-> own[i]]

RestInv ==
    /\ IsHooks(owner)
    /\ loose = [i \in Items |-> loose[i]]
    /\ \A i \in Items : loose[i] \in Int
    /\ halted \in BOOLEAN

IInv == StoreInv /\ RestInv

AllKeepNames == \A s \in Storages : KeepsNames(store[s], store'[s])

\* A storage that a call leaves alone keeps its addresses.
LEMMA KeepsNamesReflexive ==
    ASSUME NEW st, Sound(st)
    PROVE  KeepsNames(st, st)
BY DEF Sound, IsStorage, IsEntry, KeepsNames, Continues

\* A call that changes one storage soundly.
LEMMA OneStorageChanges ==
    ASSUME StoreInv, NEW s \in Storages, NEW tt, store' = [store EXCEPT ![s] = tt],
           Sound(tt), WithinBounds(tt)
    PROVE  /\ StoreInv'
           /\ KeepsNames(store[s], tt) => AllKeepNames
<1>1. /\ store'[s] = tt
      /\ \A x \in Storages : x # s => store'[x] = store[x]
      /\ store' = [x \in Storages |-> store'[x]]
  BY DEF StoreInv
<1>2. StoreInv'
  <2>1. \A x \in Storages : Sound(store'[x]) /\ WithinBounds(store'[x])
    BY <1>1 DEF StoreInv
  <2> QED
    BY <1>1, <2>1 DEF StoreInv
<1>3. \A x \in Storages : KeepsNames(store[x], store[x])
  BY KeepsNamesReflexive DEF StoreInv
<1> QED
  BY <1>1, <1>2, <1>3 DEF AllKeepNames

\* A call that leaves the storages and the loose copies alone keeps the
\* invariant of the storages and the addresses.
LEMMA SameStore ==
    ASSUME StoreInv, UNCHANGED store
    PROVE  StoreInv' /\ AllKeepNames
<1>1. StoreInv'
  BY DEF StoreInv, Sound, IsStorage, SharesEntries, WithinBounds
<1> QED
  BY <1>1, KeepsNamesReflexive DEF StoreInv, AllKeepNames

\* Every storage of the invariant, at hand for the actions.
LEMMA StorageFacts ==
    ASSUME StoreInv, NEW s \in Storages
    PROVE  /\ Sound(store[s]) /\ WithinBounds(store[s])
           /\ store[s] = [entries |-> store[s].entries, keyGen |-> store[s].keyGen,
                          proxies |-> store[s].proxies]
           /\ IsProxies(store[s].proxies)
           /\ \A k \in DOMAIN store[s].entries :
                 store[s].entries[k].item \in Items /\ StackSum(store[s].entries[k]) \in Int
BY SumsInt DEF StoreInv, Sound, IsStorage, IsProxies

\* Taking and releasing ownership bind the hook of each item anew, to a storage
\* or to nobody.
LEMMA OwnershipTyped ==
    ASSUME NEW own, IsHooks(own), NEW s
    PROVE  /\ \A i : IsHooks(TakeOwnership(own, s, i))
           /\ \A is : IsHooks(ReleaseOwnership(own, is))
           /\ \A i : \A x \in Mutables : TakeOwnership(own, s, i)[x] \in {s, own[x]}
           /\ \A is : \A x \in Mutables : ReleaseOwnership(own, is)[x] \in {NoOwner, own[x]}
BY DEF IsHooks, TakeOwnership, ReleaseOwnership

-----------------------------------------------------------------------------
(* The actions.                                                             *)

\* AddItemStack keeps the invariant and the addresses.
LEMMA AddItemStackStep ==
    ASSUME IInv, NEW s \in Storages, NEW i \in Items, NEW n \in Int,
           NEW f \in BOOLEAN, NEW v, AddItemStack(s, i, n, f, v)
    PROVE  IInv' /\ AllKeepNames
<1> DEFINE tt == Added(store[s], i, n, f)
<1> USE DEF IInv
<1>1. n \in Nat \ {0}
  BY DEF AddItemStack, CanAddStack
<1>2. SoundStep(store[s], tt)
  BY <1>1, AddedSound, StorageFacts
<1>3. store' = [store EXCEPT ![s] = tt]
  BY DEF AddItemStack
<1>4. WithinBounds(tt)
  <2>1. store'[s] = tt
    BY <1>3 DEF StoreInv
  <2> QED
    BY <2>1 DEF AddItemStack
<1> HIDE DEF tt
<1>5. StoreInv' /\ AllKeepNames
  BY <1>2, <1>3, <1>4, OneStorageChanges DEF SoundStep
<1>6. RestInv'
  <2>1. IsHooks(owner')
    BY OwnershipTyped DEF AddItemStack, RestInv
  <2>2. loose' = [loose EXCEPT ![i] = @ - n] /\ UNCHANGED halted
    BY DEF AddItemStack
  <2> QED
    BY <2>1, <2>2 DEF RestInv
<1> QED
  BY <1>5, <1>6

\* RemoveEntry, TakeEntry and Release keep the invariant and the addresses.
LEMMA RemoveFromEntryStep ==
    ASSUME IInv, NEW s \in Storages, NEW k \in DOMAIN store[s].entries, NEW n \in Int,
           NEW tag, NEW v, RemoveFromEntry(s, k, n, tag, v)
    PROVE  IInv' /\ AllKeepNames
<1> DEFINE tt == RemovedFromEntry(store[s], k, n)
           i == store[s].entries[k].item
           m == EntryRemovalEvent(store[s], k, n).amount
<1> USE DEF IInv
<1>1. SoundStep(store[s], tt) /\ WithinBounds(tt)
  BY RemovedFromEntrySound, StorageFacts
<1>2. store' = [store EXCEPT ![s] = tt]
  BY DEF RemoveFromEntry
<1>3. i \in Items /\ m \in Int
  BY StorageFacts DEF EntryRemovalEvent, Event
<1>4. loose' = [loose EXCEPT ![i] = @ + m] /\ UNCHANGED halted
  BY DEF RemoveFromEntry
<1>5. IsHooks(owner')
  BY OwnershipTyped DEF RemoveFromEntry, RestInv
<1> HIDE DEF tt, i, m
<1>6. StoreInv' /\ AllKeepNames
  BY <1>1, <1>2, OneStorageChanges DEF SoundStep
<1>7. RestInv'
  BY <1>3, <1>4, <1>5 DEF RestInv
<1> QED
  BY <1>6, <1>7

\* RemoveStack and TakeStack keep the invariant and the addresses.
LEMMA RemoveFromStackStep ==
    ASSUME IInv, NEW s \in Storages, NEW k \in DOMAIN store[s].entries,
           NEW j \in DOMAIN store[s].entries[k].stacks, NEW n \in Int,
           NEW tag, NEW v, RemoveFromStack(s, k, j, n, tag, v)
    PROVE  IInv' /\ AllKeepNames
<1> DEFINE tt == RemovedFromStack(store[s], k, j, n)
           i == store[s].entries[k].item
           m == StackRemovalEvent(store[s], k, j, n).amount
<1> USE DEF IInv
<1>1. SoundStep(store[s], tt) /\ WithinBounds(tt)
  BY RemovedFromStackSound, StorageFacts
<1>2. store' = [store EXCEPT ![s] = tt]
  BY DEF RemoveFromStack
<1>3. i \in Items /\ m \in Int
  BY StorageFacts, RemovedFromStackSound DEF StackRemovalEvent, Event
<1>4. loose' = [loose EXCEPT ![i] = @ + m] /\ UNCHANGED halted
  BY DEF RemoveFromStack
<1>5. IsHooks(owner')
  BY OwnershipTyped DEF RemoveFromStack, RestInv
<1> HIDE DEF tt, i, m
<1>6. StoreInv' /\ AllKeepNames
  BY <1>1, <1>2, OneStorageChanges DEF SoundStep
<1>7. RestInv'
  BY <1>3, <1>4, <1>5 DEF RestInv
<1> QED
  BY <1>6, <1>7

\* What Clear gives back is a number of copies.
LEMMA ClearedCopiesInt ==
    ASSUME NEW st, Sound(st), NEW kept, NEW i
    PROVE  ClearedCopies(st, kept, i) \in Int
<1> DEFINE lost == {k \in DOMAIN st.entries \ kept : st.entries[k].item = i}
           sums == [k \in lost |-> StackSum(st.entries[k])]
<1>1. IsFiniteSet((KeyGenReset + 1)..st.keyGen)
  <2>1. KeyGenReset + 1 \in Int /\ st.keyGen \in Int
    BY DEF Sound, IsStorage, KeyGenReset
  <2> QED
    BY ONLY <2>1, FS_Interval
<1>2. lost \in SUBSET ((KeyGenReset + 1)..st.keyGen)
  BY DEF Sound, IsStorage
<1>3. IsFiniteSet(lost)
  BY <1>1, <1>2, FS_Subset
<1>4. \A k \in lost : sums[k] \in Int
  BY SumsInt
<1> QED
  BY <1>3, <1>4, SumOverInt DEF ClearedCopies

\* The removals of Clear keep a storage sound; outside the editor they keep its
\* addresses too.
LEMMA ClearedSound ==
    ASSUME NEW st, Sound(st), WithinBounds(st), NEW kept
    PROVE  /\ Sound(Cleared(st, kept)) /\ WithinBounds(Cleared(st, kept))
           /\ ~InEditor => KeepsNames(st, Cleared(st, kept))
<1> DEFINE lost == DOMAIN st.entries \ kept
           left == WithoutEntries(st, lost)
           reset == [left EXCEPT !.keyGen = KeyGenReset]
<1>1. SoundStep(st, left) /\ WithinBounds(left)
  <2>1. IsProxies([a \in {b \in DOMAIN st.proxies : b[1] \in lost =>
                              b \in DOMAIN PreContentRemoved(st.proxies, b[1], st.entries[b[1]])}
                      |-> st.proxies[a]])
    BY DEF IsProxies, Sound, IsStorage
  <2> QED
    BY <2>1, WithoutEntriesSound DEF WithoutEntries
<1>2. CASE InEditor /\ kept = {}
  <2>1. left.entries = [k \in DOMAIN st.entries \ lost |-> st.entries[k]]
    BY DEF WithoutEntries
  <2>2. DOMAIN left.entries = {}
    BY <1>2, <2>1
  <2>3. left = [entries |-> left.entries, keyGen |-> left.keyGen, proxies |-> left.proxies]
    BY DEF WithoutEntries
  <2> HIDE DEF left
  <2>4. reset = [entries |-> left.entries, keyGen |-> KeyGenReset, proxies |-> left.proxies]
    BY <2>3
  <2>5. /\ KeyGenReset <= left.keyGen /\ left.keyGen <= MaxEntryKey
        /\ KeyGenReset \in Int /\ left.keyGen \in Int /\ MaxEntryKey \in Int
    BY <1>1, InputsAssumption DEF SoundStep, Sound, IsStorage, WithinBounds, KeyGenReset
  <2>6. reset.entries = left.entries /\ reset.keyGen = KeyGenReset /\ reset.proxies = left.proxies
    BY <2>4
  <2>7. Cleared(st, kept) = reset
    BY <1>2 DEF Cleared, left
  <2> HIDE DEF reset
  <2>8. IsStorage(reset)
    <3>1. reset = [entries |-> reset.entries, keyGen |-> reset.keyGen, proxies |-> reset.proxies]
      BY <2>4, <2>6
    <3>2. /\ left.entries = [k \in DOMAIN left.entries |-> left.entries[k]]
          /\ DOMAIN left.proxies \subseteq Watched
          /\ left.proxies \in [DOMAIN left.proxies -> Int]
      BY <1>1 DEF SoundStep, Sound, IsStorage
    <3> HIDE DEF lost
    <3> QED
      BY <2>2, <2>5, <2>6, <3>1, <3>2 DEF IsStorage
  <2>9. SharesEntries(reset) /\ WithinBounds(reset)
    BY <2>2, <2>5, <2>6 DEF SharesEntries, WithinBounds
  <2> QED
    BY <1>2, <2>7, <2>8, <2>9 DEF Sound
<1>3. CASE ~(InEditor /\ kept = {})
  <2>1. Cleared(st, kept) = left
    BY <1>3 DEF Cleared
  <2> QED
    BY <1>1, <2>1 DEF SoundStep
<1> QED
  BY <1>2, <1>3

\* Clear keeps the invariant, and outside the editor the addresses.
LEMMA ClearStep ==
    ASSUME IInv, NEW s \in Storages, NEW kept, NEW tag, Clear(s, kept, tag)
    PROVE  IInv' /\ (~InEditor => AllKeepNames)
<1> DEFINE tt == Cleared(store[s], kept)
<1> USE DEF IInv
<1>1. /\ Sound(tt) /\ WithinBounds(tt)
      /\ ~InEditor => KeepsNames(store[s], tt)
  BY ClearedSound, StorageFacts
<1>2. store' = [store EXCEPT ![s] = tt]
  BY DEF Clear
<1> HIDE DEF tt
<1>3. StoreInv' /\ (~InEditor => AllKeepNames)
  BY <1>1, <1>2, OneStorageChanges
<1>4. RestInv'
  <2>1. IsHooks(owner')
    BY OwnershipTyped DEF Clear, RestInv
  <2>2. \A i \in Items : ClearedCopies(store[s], kept, i) \in Int
    BY ClearedCopiesInt, StorageFacts
  <2>3. /\ loose' = [i \in Items |-> loose[i] + ClearedCopies(store[s], kept, i)]
        /\ halted' \in BOOLEAN
    BY DEF Clear
  <2> QED
    BY <2>1, <2>2, <2>3 DEF RestInv
<1> QED
  BY <1>3, <1>4

\* SplitStack keeps the invariant and the addresses, whatever the amount.
LEMMA SplitStep ==
    ASSUME IInv, NEW s \in Storages, NEW k \in DOMAIN store[s].entries,
           NEW j, NEW n \in Int, NEW v, Split(s, k, j, n, v)
    PROVE  IInv' /\ AllKeepNames
<1> DEFINE e == SplitStack(store[s].entries[k], j, n)
           tt == SplitOff(store[s], k, j, n)
<1> USE DEF IInv
<1>1. IsEntry(e) /\ Continues(store[s].entries[k], e)
  BY SplitStackContinues, StorageFacts DEF Sound, IsStorage
<1>2. IsProxies(PostContentChanged(store[s].proxies, k, e))
  BY ProxiesStayProxies, StorageFacts
<1> HIDE DEF e
<1>3. SetEntry(store[s], k, e).proxies = store[s].proxies
  BY StorageFacts DEF SetEntry
<1>4. store' = [store EXCEPT ![s] = tt]
  BY DEF Split
<1>5. tt = [SetEntry(store[s], k, e) EXCEPT !.proxies = PostContentChanged(store[s].proxies, k, e)]
  BY <1>3 DEF SplitOff, e
<1>6. SoundStep(store[s], tt) /\ WithinBounds(tt)
  <2>1. store'[s] = tt
    BY <1>4 DEF StoreInv
  <2> HIDE DEF tt
  <2>2. SoundStep(store[s], tt)
    BY <1>1, <1>2, <1>5, EntryContinues, StorageFacts
  <2> QED
    BY <2>1, <2>2 DEF Split
<1> HIDE DEF tt
<1>7. StoreInv' /\ AllKeepNames
  BY <1>4, <1>6, OneStorageChanges DEF SoundStep
<1>8. RestInv'
  BY DEF Split, RestInv
<1> QED
  BY <1>7, <1>8

\* MergeStacks changes nothing when it gets through its guard.
LEMMA MergeStacksStep ==
    ASSUME IInv, NEW s, NEW k, NEW from, NEW to, NEW v, MergeStacks(s, k, from, to, v)
    PROVE  IInv' /\ AllKeepNames
<1>1. StoreInv' /\ AllKeepNames
  BY SameStore DEF IInv, MergeStacks
<1>2. RestInv'
  BY DEF IInv, RestInv, MergeStacks
<1> QED
  BY <1>1, <1>2 DEF IInv

\* A call that changes nothing but the proxies of a storage.
LEMMA ProxiesChange ==
    ASSUME IInv, NEW s \in Storages, NEW p, IsProxies(p),
           store' = [store EXCEPT ![s].proxies = p],
           UNCHANGED <<owner, loose, halted>>
    PROVE  IInv' /\ AllKeepNames
<1> DEFINE st == store[s]
           tt == [entries |-> st.entries, keyGen |-> st.keyGen, proxies |-> p]
<1>1. store' = [store EXCEPT ![s] = tt]
  <2>1. [st EXCEPT !.proxies = p] = tt
    <3>1. st = [entries |-> st.entries, keyGen |-> st.keyGen, proxies |-> st.proxies]
      BY StorageFacts DEF IInv
    <3> HIDE DEF st
    <3> QED
      BY <3>1
  <2>2. store' = [store EXCEPT ![s] = [st EXCEPT !.proxies = p]]
    OBVIOUS
  <2> QED
    BY ONLY <2>1, <2>2
<1>2. tt.entries = st.entries /\ tt.keyGen = st.keyGen /\ tt.proxies = p
  OBVIOUS
<1>3. tt = [entries |-> tt.entries, keyGen |-> tt.keyGen, proxies |-> tt.proxies]
  OBVIOUS
<1>4. Sound(st) /\ WithinBounds(st)
  BY StorageFacts DEF IInv
<1> HIDE DEF tt, st
<1>5. Sound(tt) /\ WithinBounds(tt)
  BY <1>2, <1>3, <1>4 DEF Sound, IsStorage, SharesEntries, WithinBounds, IsProxies
<1>6. KeepsNames(st, tt)
  BY <1>2, <1>4, KeepsNamesReflexive DEF KeepsNames
<1>7. StoreInv' /\ AllKeepNames
  BY <1>1, <1>5, <1>6, OneStorageChanges DEF IInv, st
<1>8. RestInv'
  BY DEF IInv, RestInv
<1> QED
  BY <1>7, <1>8 DEF IInv

\* A mutation of a stored item touches proxies only.
LEMMA MutateItemStep ==
    ASSUME IInv, NEW i \in Mutables, MutateItem(i)
    PROVE  IInv' /\ AllKeepNames
<1> DEFINE s == owner[i]
           k == FindEntry(store[s], i)
           p == PostContentChanged(store[s].proxies, k, store[s].entries[k])
<1>1. s \in Storages
  BY DEF MutateItem
<1>2. IsProxies(p)
  BY <1>1, StorageFacts, ProxiesStayProxies DEF IInv
<1>3. store' = [store EXCEPT ![s].proxies = p] /\ UNCHANGED <<owner, loose, halted>>
  BY DEF MutateItem
<1> HIDE DEF s, p
<1> QED
  BY <1>1, <1>2, <1>3, ProxiesChange

\* Proxies that are asked for and dropped leave entries and keys alone.
LEMMA ProxySteps ==
    ASSUME IInv, NEW s \in Storages, NEW a \in Watched,
           RequestProxy(s, a) \/ DropProxy(s, a)
    PROVE  IInv' /\ AllKeepNames
<1> DEFINE proxies == store[s].proxies
<1>1. IsProxies(proxies)
  BY StorageFacts DEF IInv
<1>2. CASE RequestProxy(s, a)
  <2> DEFINE p == [b \in DOMAIN proxies \cup {a} |->
                      IF b # a THEN proxies[b]
                      ELSE IF Contains(store[s], a[1], a[2]) THEN 0 ELSE -1]
  <2>1. IsProxies(p)
    BY <1>1 DEF IsProxies
  <2>2. store' = [store EXCEPT ![s].proxies = p] /\ UNCHANGED <<owner, loose, halted>>
    BY <1>2 DEF RequestProxy
  <2> HIDE DEF p
  <2> QED
    BY <2>1, <2>2, ProxiesChange
<1>3. CASE DropProxy(s, a)
  <2> DEFINE p == [b \in DOMAIN proxies \ {a} |-> proxies[b]]
  <2>1. IsProxies(p)
    BY <1>1 DEF IsProxies
  <2>2. store' = [store EXCEPT ![s].proxies = p] /\ UNCHANGED <<owner, loose, halted>>
    BY <1>3 DEF DropProxy
  <2> HIDE DEF p
  <2> QED
    BY <2>1, <2>2, ProxiesChange
<1> QED
  BY <1>2, <1>3

\* A move takes soundly from one storage and adds soundly to another.
LEMMA MovedStep ==
    ASSUME IInv, NEW s \in Storages, NEW t \in Storages, s # t,
           NEW taken, NEW i \in Items, NEW n \in Nat \ {0}, NEW f \in BOOLEAN,
           NEW released \in BOOLEAN, NEW event,
           SoundStep(store[s], taken), WithinBounds(taken),
           Moved(s, t, taken, i, n, f, released, event)
    PROVE  IInv' /\ AllKeepNames
<1> DEFINE added == Added(store[t], i, n, f)
<1>1. SoundStep(store[t], added)
  BY AddedSound, StorageFacts DEF IInv
<1>2. /\ store'[s] = taken /\ store'[t] = added
      /\ \A x \in Storages \ {s, t} : store'[x] = store[x]
      /\ store' = [x \in Storages |-> store'[x]]
  BY DEF Moved, IInv, StoreInv
<1>3. WithinBounds(added)
  BY <1>2 DEF Moved
<1> HIDE DEF added
<1>4. StoreInv'
  <2>1. \A x \in Storages : Sound(store'[x]) /\ WithinBounds(store'[x])
    BY <1>1, <1>2, <1>3 DEF IInv, StoreInv, SoundStep
  <2> QED
    BY <1>2, <2>1 DEF StoreInv
<1>5. AllKeepNames
  <2>1. \A x \in Storages : KeepsNames(store[x], store[x])
    BY KeepsNamesReflexive DEF IInv, StoreInv
  <2> QED
    BY <1>1, <1>2, <2>1 DEF AllKeepNames, SoundStep
<1>6. RestInv'
  <2>1. IsHooks(owner')
    BY OwnershipTyped DEF Moved, IInv, RestInv
  <2> QED
    BY <2>1 DEF Moved, IInv, RestInv
<1> QED
  BY <1>4, <1>5, <1>6 DEF IInv

\* MoveStack keeps the invariant and the addresses of both storages.
LEMMA MoveStackStep ==
    ASSUME IInv, NEW s \in Storages, NEW t \in Storages,
           NEW k \in DOMAIN store[s].entries, NEW j \in DOMAIN store[s].entries[k].stacks,
           NEW n \in Int, NEW f \in BOOLEAN, NEW v, NEW w,
           MoveStack(s, t, k, j, n, f, v, w)
    PROVE  IInv' /\ AllKeepNames
<1> DEFINE taken == RemovedFromStack(store[s], k, j, n)
           m == StackRemovalAmount(store[s], k, j, n)
           i == store[s].entries[k].item
           released == RemovesOnlyStack(store[s], k, j, n)
           event == StackRemovalEvent(store[s], k, j, n)
<1>1. SoundStep(store[s], taken) /\ WithinBounds(taken) /\ m \in Int /\ i \in Items
  BY RemovedFromStackSound, StorageFacts DEF IInv
<1>2. m \in Nat \ {0} /\ s # t
  BY <1>1 DEF MoveStack, CanAddStack
<1>3. Moved(s, t, taken, i, m, f, released, event)
  BY DEF MoveStack
<1>4. released \in BOOLEAN
  BY DEF RemovesOnlyStack
<1> HIDE DEF taken, m, i, released, event
<1> QED
  BY <1>1, <1>2, <1>3, <1>4, MovedStep

\* MoveEntry keeps the invariant and the addresses of both storages.
LEMMA MoveEntryStep ==
    ASSUME IInv, NEW s \in Storages, NEW t \in Storages,
           NEW k \in DOMAIN store[s].entries, NEW f \in BOOLEAN, NEW v, NEW w,
           MoveEntry(s, t, k, f, v, w)
    PROVE  IInv' /\ AllKeepNames
<1> DEFINE taken == WithoutEntry(store[s], k)
           m == StackSum(store[s].entries[k])
           i == store[s].entries[k].item
           event == EntryRemovalEvent(store[s], k, EntireStack)
<1>1. SoundStep(store[s], taken) /\ WithinBounds(taken) /\ m \in Int /\ i \in Items
  BY WithoutEntrySound, StorageFacts DEF IInv
<1>2. m \in Nat \ {0} /\ s # t
  BY <1>1 DEF MoveEntry, CanAddStack
<1>3. Moved(s, t, taken, i, m, f, TRUE, event)
  BY DEF MoveEntry
<1> HIDE DEF taken, m, i, event
<1> QED
  BY <1>1, <1>2, <1>3, MovedStep

-----------------------------------------------------------------------------
(* The theorems.                                                            *)

\* The empty storages satisfy the invariant.
THEOREM InitInv == Init => IInv
<1> SUFFICES ASSUME Init PROVE IInv
  OBVIOUS
<1>1. Sound(EmptyStorage) /\ WithinBounds(EmptyStorage)
  <2> DEFINE st == EmptyStorage
  <2>1. st.entries = <<>> /\ st.keyGen = KeyGenReset /\ st.proxies = <<>>
    BY DEF EmptyStorage
  <2>2. st = [entries |-> st.entries, keyGen |-> st.keyGen, proxies |-> st.proxies]
    BY DEF EmptyStorage
  <2>3. DOMAIN <<>> = {}
    OBVIOUS
  <2>4. <<>> = [k \in {} |-> <<>>[k]] /\ <<>> \in [{} -> Int]
    OBVIOUS
  <2> HIDE DEF st
  <2>5. IsStorage(st)
    BY <2>1, <2>2, <2>3, <2>4 DEF IsStorage, KeyGenReset
  <2>6. SharesEntries(st)
    BY <2>1, <2>3 DEF SharesEntries
  <2>7. WithinBounds(st)
    BY <2>1, <2>3, InputsAssumption DEF WithinBounds
  <2> QED
    BY <2>5, <2>6, <2>7 DEF Sound, st
<1>2. StoreInv
  BY <1>1 DEF Init, StoreInv
<1>3. RestInv
  <2>1. IsHooks(owner)
    BY DEF Init, IsHooks
  <2>2. loose = [i \in Items |-> loose[i]] /\ \A i \in Items : loose[i] \in Int
    BY ItemsAssumption DEF Init
  <2> QED
    BY <2>1, <2>2 DEF Init, RestInv
<1> QED
  BY <1>2, <1>3 DEF IInv

\* Every step keeps the invariant and, outside the editor, the names.
THEOREM StepInv ==
    ASSUME IInv, [Next]_vars
    PROVE  IInv' /\ (~InEditor => AllKeepNames)
<1> USE InputsAssumption
<1>1. CASE UNCHANGED vars
  BY <1>1, SameStore DEF vars, IInv, RestInv
<1>2. ASSUME NEW s \in Storages, StorageCall(s)
      PROVE  IInv' /\ (~InEditor => AllKeepNames)
  <2>1. \A n \in Amounts : n \in Int
    BY DEF Amounts, EntireStack
  <2>2. ASSUME NEW i \in Items, NEW n \in 1..loose[i], NEW f \in BOOLEAN, NEW v \in Verdicts,
               AddItemStack(s, i, n, f, v)
        PROVE  IInv' /\ AllKeepNames
    BY <2>2, AddItemStackStep
  <2>3. ASSUME NEW tag \in RemovalTags, NEW kept \in SUBSET DOMAIN store[s].entries,
               Clear(s, kept, tag)
        PROVE  IInv' /\ (~InEditor => AllKeepNames)
    BY <2>3, ClearStep
  <2>4. ASSUME NEW k \in DOMAIN store[s].entries, NEW v \in Verdicts,
               NEW n \in Amounts, NEW tag \in RemovalTags, RemoveFromEntry(s, k, n, tag, v)
        PROVE  IInv' /\ AllKeepNames
    BY <2>1, <2>4, RemoveFromEntryStep
  <2>5. ASSUME NEW k \in DOMAIN store[s].entries, NEW v \in Verdicts,
               NEW j \in DOMAIN store[s].entries[k].stacks,
               NEW n \in Amounts, NEW tag \in RemovalTags, RemoveFromStack(s, k, j, n, tag, v)
        PROVE  IInv' /\ AllKeepNames
    BY <2>1, <2>5, RemoveFromStackStep
  <2>6. ASSUME NEW k \in DOMAIN store[s].entries, NEW v \in Verdicts,
               NEW j \in DOMAIN store[s].entries[k].stacks,
               NEW n \in SplitAmounts, Split(s, k, j, n, v)
        PROVE  IInv' /\ AllKeepNames
    BY <2>6, SplitStep
  <2>7. ASSUME NEW k \in DOMAIN store[s].entries, NEW v \in Verdicts,
               NEW j \in DOMAIN store[s].entries[k].stacks,
               NEW from \in StackKeys, MergeStacks(s, k, from, j, v)
        PROVE  IInv' /\ AllKeepNames
    BY <2>7, MergeStacksStep
  <2>8. ASSUME NEW a \in Watched, RequestProxy(s, a) \/ DropProxy(s, a)
        PROVE  IInv' /\ AllKeepNames
    BY <2>8, ProxySteps
  <2> QED
    BY <1>2, <2>2, <2>3, <2>4, <2>5, <2>6, <2>7, <2>8 DEF StorageCall
<1>3. ASSUME NEW i \in Mutables, MutateItem(i)
      PROVE  IInv' /\ AllKeepNames
  BY <1>3, MutateItemStep
<1>4. ASSUME NEW s \in Storages, NEW t \in Storages, TransferCall(s, t)
      PROVE  IInv' /\ AllKeepNames
  <2>1. \A n \in Amounts : n \in Int
    BY DEF Amounts, EntireStack
  <2>2. ASSUME NEW k \in DOMAIN store[s].entries, NEW f \in BOOLEAN,
               NEW v \in Verdicts, NEW w \in Verdicts, MoveEntry(s, t, k, f, v, w)
        PROVE  IInv' /\ AllKeepNames
    BY <2>2, MoveEntryStep
  <2>3. ASSUME NEW k \in DOMAIN store[s].entries, NEW f \in BOOLEAN,
               NEW v \in Verdicts, NEW w \in Verdicts,
               NEW j \in DOMAIN store[s].entries[k].stacks, NEW n \in Amounts,
               MoveStack(s, t, k, j, n, f, v, w)
        PROVE  IInv' /\ AllKeepNames
    BY <2>1, <2>3, MoveStackStep
  <2> QED
    BY <1>4, <2>2, <2>3 DEF TransferCall
<1> QED
  BY <1>1, <1>2, <1>3, <1>4 DEF Next

\* The inductive invariant holds of every behaviour of the storages.
THEOREM Invariance == Spec => []IInv
<1>1. IInv /\ [Next]_vars => IInv'
  BY StepInv
<1> QED
  BY <1>1, InitInv, PTL DEF Spec

\* A hook that is bound to a storage, bound to nobody, or as it was.
HooksBound == \A i \in Mutables : owner'[i] \in Storages \cup {NoOwner, owner[i]}

\* Every call leaves a hook as it was, binds it to its storage or unbinds it.
LEMMA NextBindsHooks ==
    ASSUME IsHooks(owner), Next
    PROVE  HooksBound
<1>1. ASSUME NEW s \in Storages, StorageCall(s) PROVE HooksBound
  <2>1. ASSUME NEW i, NEW n, NEW f, NEW v, AddItemStack(s, i, n, f, v)
        PROVE  HooksBound
    BY <2>1, OwnershipTyped DEF AddItemStack, HooksBound
  <2>2. ASSUME NEW is, owner' = ReleaseOwnership(owner, is) PROVE HooksBound
    BY <2>2, OwnershipTyped DEF HooksBound
  <2>3. ASSUME owner' = owner PROVE HooksBound
    BY <2>3 DEF HooksBound
  <2>4. ASSUME NEW k, NEW n, NEW tag, NEW v, RemoveFromEntry(s, k, n, tag, v)
        PROVE  HooksBound
    <3>1. \/ owner' = owner
          \/ owner' = ReleaseOwnership(owner, {store[s].entries[k].item})
      BY <2>4 DEF RemoveFromEntry
    <3> QED
      BY <2>2, <2>3, <3>1
  <2>5. ASSUME NEW k, NEW j, NEW n, NEW tag, NEW v, RemoveFromStack(s, k, j, n, tag, v)
        PROVE  HooksBound
    <3>1. \/ owner' = owner
          \/ owner' = ReleaseOwnership(owner, {store[s].entries[k].item})
      BY <2>5 DEF RemoveFromStack
    <3> QED
      BY <2>2, <2>3, <3>1
  <2>6. ASSUME NEW tag, NEW kept, Clear(s, kept, tag) PROVE HooksBound
    BY <2>2, <2>6 DEF Clear
  <2> QED
    BY <1>1, <2>1, <2>3, <2>4, <2>5, <2>6
    DEF StorageCall, Split, MergeStacks, RequestProxy, DropProxy
<1>2. ASSUME NEW i \in Mutables, MutateItem(i) PROVE HooksBound
  BY <1>2 DEF MutateItem, HooksBound
<1>3. ASSUME NEW s, NEW t \in Storages, NEW taken, NEW i, NEW n, NEW f, NEW released, NEW d,
             Moved(s, t, taken, i, n, f, released, d)
      PROVE  HooksBound
  <2> DEFINE own == IF released THEN ReleaseOwnership(owner, {i}) ELSE owner
  <2>1. IsHooks(own) /\ \A x \in Mutables : own[x] \in {NoOwner, owner[x]}
    BY OwnershipTyped
  <2>2. owner' = TakeOwnership(own, t, i)
    BY <1>3 DEF Moved
  <2> HIDE DEF own
  <2>3. \A x \in Mutables : owner'[x] \in {t, own[x]}
    BY <2>1, <2>2, OwnershipTyped
  <2> QED
    BY <2>1, <2>3 DEF HooksBound
<1>4. ASSUME NEW s \in Storages, NEW t \in Storages, TransferCall(s, t)
      PROVE  HooksBound
  <2>1. ASSUME NEW k, NEW f, NEW v, NEW w, MoveEntry(s, t, k, f, v, w) PROVE HooksBound
    BY <1>3, <2>1 DEF MoveEntry
  <2>2. ASSUME NEW k, NEW j, NEW n, NEW f, NEW v, NEW w, MoveStack(s, t, k, j, n, f, v, w)
        PROVE  HooksBound
    BY <1>3, <2>2 DEF MoveStack
  <2> QED
    BY <1>4, <2>1, <2>2 DEF TransferCall
<1> QED
  BY <1>1, <1>2, <1>4 DEF Next

\* A hook is bound to a storage or to nobody.
OwnersAreStorages == \A i \in Mutables : owner[i] \in Storages \cup {NoOwner}

\* Where no one else takes ownership, hooks are bound to storages or to nobody.
THEOREM OwnersStayStorages == Spec => []OwnersAreStorages
<1>1. Init => OwnersAreStorages
  BY DEF Init, OwnersAreStorages
<1>2. ASSUME IInv, OwnersAreStorages, [Next]_vars PROVE OwnersAreStorages'
  <2>1. CASE Next
    BY <1>2, <2>1, NextBindsHooks DEF IInv, RestInv, HooksBound, OwnersAreStorages
  <2>2. CASE UNCHANGED vars
    BY <1>2, <2>2 DEF vars, OwnersAreStorages
  <2> QED
    BY <1>2, <2>1, <2>2
<1> QED
  BY <1>1, <1>2, Invariance, PTL DEF Spec

\* The invariant implies the types.
LEMMA InvTypes == IInv /\ OwnersAreStorages => TypeOK
<1> SUFFICES ASSUME IInv, OwnersAreStorages PROVE TypeOK
  OBVIOUS
<1>1. ASSUME NEW s \in Storages PROVE StorageOK(store[s])
  <2> DEFINE st == store[s]
  <2>1. IsStorage(st) /\ WithinBounds(st)
    BY DEF IInv, StoreInv, Sound
  <2> HIDE DEF st
  <2>2. ASSUME NEW k \in DOMAIN st.entries PROVE EntryOK(st.entries[k])
    <3> DEFINE e == st.entries[k]
    <3>1. IsEntry(e) /\ e.item \in Items /\ e.gen <= MaxStackKey
      BY <2>1 DEF IsStorage, WithinBounds
    <3> HIDE DEF e
    <3>2. e.gen \in KeyGenReset..MaxStackKey
      BY <3>1, InputsAssumption DEF IsEntry, KeyGenReset
    <3>3. e \in [item : Items, limit : Limits, gen : KeyGenReset..MaxStackKey,
                  stacks : [DOMAIN e.stacks -> Int]]
      BY <3>1, <3>2 DEF IsEntry
    <3>4. DOMAIN e.stacks \subseteq StackKeys
      BY <3>1, InputsAssumption DEF IsEntry, StackKeys, KeyGenReset
    <3> QED
      BY <3>3, <3>4 DEF EntryOK, e
  <2>3. DOMAIN st.entries \subseteq EntryKeys /\ st.keyGen \in KeyGenReset..MaxEntryKey
    BY <2>1, InputsAssumption DEF IsStorage, WithinBounds, EntryKeys, KeyGenReset
  <2> QED
    BY <2>1, <2>2, <2>3 DEF IsStorage, StorageOK, st
<1> QED
  BY <1>1 DEF IInv, StoreInv, RestInv, IsHooks, OwnersAreStorages, TypeOK

\* TypeOK holds in every reachable state: whatever the calls and their order,
\* entries keep items, limits and stacks of their types, and keys stay keys.
THEOREM TypeCorrect == Spec => []TypeOK
BY Invariance, OwnersStayStorages, InvTypes, PTL

\* No key in use is above its generator: appending keeps the entries and the
\* stacks sorted for the binary searches.
THEOREM KeysStayBelow == Spec => []KeysBelowGenerators
<1>1. ASSUME NEW st, IsStorage(st) PROVE KeysBelowGenerator(st)
  <2>1. \A k \in DOMAIN st.entries : k <= st.keyGen
    BY <1>1 DEF IsStorage, KeyGenReset
  <2>2. ASSUME NEW k \in DOMAIN st.entries, NEW j \in DOMAIN st.entries[k].stacks
        PROVE  j <= st.entries[k].gen
    <3>1. IsEntry(st.entries[k])
      BY <1>1 DEF IsStorage
    <3> QED
      BY <3>1 DEF IsEntry, KeyGenReset
  <2> QED
    BY <2>1, <2>2 DEF KeysBelowGenerator
<1>2. IInv => KeysBelowGenerators
  BY <1>1 DEF IInv, StoreInv, Sound, KeysBelowGenerators
<1> QED
  BY Invariance, <1>2, PTL

\* Equal immutable items share one entry of a storage for ever.
THEOREM ImmutablesShare == Spec => []ImmutablesShareAnEntry
<1>1. IInv => ImmutablesShareAnEntry
  BY DEF IInv, StoreInv, Sound, SharesEntries, ImmutablesShareAnEntry
<1> QED
  BY Invariance, <1>1, PTL

-----------------------------------------------------------------------------
(* The refinement.                                                          *)

\* What is kept of the entries is what StableNames asks of the addresses.
LEMMA NamesStay ==
    ASSUME NEW st, NEW tt, IsStorage(st), IsStorage(tt), WithinBounds(st), WithinBounds(tt),
           KeepsNames(st, tt)
    PROVE  /\ Spent(st) \subseteq Spent(tt)
           /\ DOMAIN ItemAt(tt) \subseteq Spent(tt)
           /\ \A a \in DOMAIN ItemAt(tt) :
                 IF a \in DOMAIN ItemAt(st) THEN ItemAt(tt)[a] = ItemAt(st)[a]
                 ELSE a \notin Spent(st)
<1>1. DOMAIN ItemAt(st) = AddressesOf(st) /\ DOMAIN ItemAt(tt) = AddressesOf(tt)
  BY DEF ItemAt
<1>2. ASSUME NEW a \in Spent(st) PROVE a \in Spent(tt)
  <2>1. /\ a \in EntryKeys \X StackKeys /\ a[1] \in Int /\ a[2] \in Int
        /\ a[1] <= st.keyGen
        /\ a[1] \in DOMAIN st.entries => a[2] <= st.entries[a[1]].gen
    BY <1>2 DEF Spent, EntryKeys, StackKeys
  <2>2. a[1] <= tt.keyGen
    BY <2>1 DEF KeepsNames, IsStorage
  <2>3. a[1] \in DOMAIN tt.entries => a[2] <= tt.entries[a[1]].gen
    <3> HAVE a[1] \in DOMAIN tt.entries
    <3>1. a[1] \in DOMAIN st.entries /\ Continues(st.entries[a[1]], tt.entries[a[1]])
      BY <2>1 DEF KeepsNames, IsStorage
    <3> QED
      BY <2>1, <3>1 DEF Continues, IsStorage, IsEntry
  <2> QED
    BY <2>1, <2>2, <2>3 DEF Spent
<1>3. ASSUME NEW a \in AddressesOf(tt) PROVE a \in Spent(tt)
  BY <1>3 DEF AddressesOf, Contains, Spent, IsStorage, IsEntry
<1>4. ASSUME NEW a \in AddressesOf(tt)
      PROVE  IF a \in AddressesOf(st) THEN ItemAt(tt)[a] = ItemAt(st)[a]
             ELSE a \notin Spent(st)
  <2>1. /\ a \in EntryKeys \X StackKeys /\ a[1] \in Int /\ a[2] \in Int
        /\ a[1] \in DOMAIN tt.entries /\ a[2] \in DOMAIN tt.entries[a[1]].stacks
    BY <1>4 DEF AddressesOf, Contains, EntryKeys, StackKeys
  <2>2. CASE a[1] \in DOMAIN st.entries
    <3>1. Continues(st.entries[a[1]], tt.entries[a[1]])
      BY <2>1, <2>2 DEF KeepsNames
    <3>2. a \in AddressesOf(st) => ItemAt(tt)[a] = ItemAt(st)[a]
      BY <1>4, <3>1 DEF ItemAt, Continues
    <3>3. a \notin AddressesOf(st) => a[2] > st.entries[a[1]].gen
      BY <2>1, <2>2, <3>1 DEF AddressesOf, Contains, Continues
    <3>4. st.entries[a[1]].gen \in Int
      BY <2>2 DEF IsStorage, IsEntry
    <3> QED
      BY <2>1, <2>2, <3>2, <3>3, <3>4 DEF Spent
  <2>3. CASE a[1] \notin DOMAIN st.entries
    <3>1. a[1] > st.keyGen
      BY <2>1, <2>3 DEF KeepsNames
    <3>2. a \notin AddressesOf(st)
      BY <2>3 DEF AddressesOf, Contains
    <3> QED
      BY <2>1, <3>1, <3>2 DEF Spent, IsStorage
  <2> QED
    BY <2>2, <2>3
<1> QED
  BY <1>1, <1>2, <1>3, <1>4

\* Outside the editor a storage implements StableNames: an address never comes
\* to stand for another item, and once its stack is gone it stays unused.
THEOREM AddressesStable == ~InEditor => (Spec => AddressesAreStable)
<1> SUFFICES ASSUME ~InEditor PROVE Spec => Addresses!Spec
  BY DEF AddressesAreStable
<1>1. Init => Addresses!Init
  <2> SUFFICES ASSUME Init PROVE Addresses!Init
    OBVIOUS
  <2>1. \A s \in Storages : store[s].entries = <<>> /\ store[s].keyGen = KeyGenReset
    BY DEF Init, EmptyStorage
  <2>2. DOMAIN <<>> = {}
    OBVIOUS
  <2>3. \A s \in Storages : AddressesOf(store[s]) = {} /\ Spent(store[s]) = {}
    BY <2>1, <2>2 DEF AddressesOf, Contains, Spent, EntryKeys, KeyGenReset
  <2>4. \A s \in Storages : ItemAt(store[s]) = <<>>
    <3> SUFFICES ASSUME NEW s \in Storages PROVE ItemAt(store[s]) = <<>>
      OBVIOUS
    <3>1. ItemAt(store[s]) = [a \in {} |-> store[s].entries[a[1]].item]
      BY <2>3 DEF ItemAt
    <3>2. [a \in {} |-> store[s].entries[a[1]].item] = <<>>
      OBVIOUS
    <3> QED
      BY <3>1, <3>2
  <2> QED
    BY <2>3, <2>4 DEF Addresses!Init
<1>2. IInv /\ IInv' /\ [Next]_vars => [Addresses!Next]_<<[s \in Storages |-> ItemAt(store[s])],
                                                  [s \in Storages |-> Spent(store[s])]>>
  <2> SUFFICES ASSUME IInv, IInv', [Next]_vars PROVE Addresses!Next
    OBVIOUS
  <2>1. AllKeepNames
    BY StepInv
  <2> SUFFICES ASSUME NEW s \in Storages PROVE Addresses!NamesStayPut(s)
    BY DEF Addresses!Next
  <2>2. /\ IsStorage(store[s]) /\ WithinBounds(store[s])
        /\ IsStorage(store'[s]) /\ WithinBounds(store'[s])
    BY DEF IInv, StoreInv, Sound
  <2>3. KeepsNames(store[s], store'[s])
    BY <2>1 DEF AllKeepNames
  <2> QED
    BY <2>2, <2>3, NamesStay DEF Addresses!NamesStayPut
<1> QED
  BY <1>1, <1>2, Invariance, PTL DEF Spec, Addresses!Spec

-----------------------------------------------------------------------------
(* What each implementation does to the entries of a storage.               *)

KeyOfAddition(st, i) == IF Joins(st, i) THEN FindEntry(st, i) ELSE NextKey(st)

EntryOfAddition(st, i, n, f) ==
    IF Joins(st, i)
    THEN IF f THEN AddToNewStacks(st.entries[FindEntry(st, i)], n)
              ELSE AddToAnyStack(st.entries[FindEntry(st, i)], n)
    ELSE NewEntry(i, StackLimit[i], n)

\* FindEntry finds the one entry of an immutable item that is stored.
LEMMA FindsEntry ==
    ASSUME NEW st, Sound(st), NEW i, Joins(st, i)
    PROVE  FindEntry(st, i) \in DOMAIN st.entries /\ st.entries[FindEntry(st, i)].item = i
<1>1. PICK j \in Holding(st, i) : TRUE
  BY DEF Joins
<1>2. \A l \in Holding(st, i) : l = j
  BY <1>1 DEF Joins, Holding, Sound, SharesEntries
<1>3. j \in Int
  BY <1>1 DEF Holding, Sound, IsStorage
<1>4. \A l \in Holding(st, i) : j <= l
  BY <1>2, <1>3
<1>5. FindEntry(st, i) \in Holding(st, i)
  BY <1>1, <1>4 DEF FindEntry
<1> QED
  BY <1>5 DEF Holding

\* SetEntry changes the entry it names and no other.
LEMMA SetEntryEntries ==
    ASSUME NEW st, Sound(st), NEW k, NEW e, NEW p
    PROVE  /\ SetEntry(st, k, e).entries
                = [j \in DOMAIN st.entries \cup {k} |-> IF j = k THEN e ELSE st.entries[j]]
           /\ [SetEntry(st, k, e) EXCEPT !.proxies = p].entries = SetEntry(st, k, e).entries
           /\ [SetEntry(st, k, e) EXCEPT !.proxies = p].proxies = p
           /\ SetEntry(st, k, e).proxies = st.proxies
<1> DEFINE entries == [j \in DOMAIN st.entries \cup {k} |-> IF j = k THEN e ELSE st.entries[j]]
           made(q) == [entries |-> entries, keyGen |-> st.keyGen, proxies |-> q]
<1>1. SetEntry(st, k, e) = made(st.proxies)
  BY DEF SetEntry, Sound, IsStorage
<1>2. [SetEntry(st, k, e) EXCEPT !.proxies = p] = made(p)
  BY <1>1
<1> HIDE DEF entries
<1>3. \A q : made(q).entries = entries /\ made(q).proxies = q
  OBVIOUS
<1> HIDE DEF made
<1>4. /\ SetEntry(st, k, e).entries = entries
      /\ SetEntry(st, k, e).proxies = st.proxies
      /\ [SetEntry(st, k, e) EXCEPT !.proxies = p].entries = entries
      /\ [SetEntry(st, k, e) EXCEPT !.proxies = p].proxies = p
  BY <1>1, <1>2, <1>3
<1> QED
  BY <1>4 DEF entries

\* An addition changes one entry, or makes one under a new key.
LEMMA AddedEntries ==
    ASSUME NEW st, Sound(st), NEW i \in Items, NEW n \in Nat \ {0}, NEW f \in BOOLEAN
    PROVE  LET k == KeyOfAddition(st, i)
           IN  /\ Added(st, i, n, f).entries
                    = [j \in DOMAIN st.entries \cup {k} |->
                          IF j = k THEN EntryOfAddition(st, i, n, f) ELSE st.entries[j]]
               /\ Joins(st, i) =>
                     /\ k \in DOMAIN st.entries
                     /\ DOMAIN st.entries[k].stacks \subseteq DOMAIN EntryOfAddition(st, i, n, f).stacks
               /\ ~Joins(st, i) => k \notin DOMAIN st.entries
<1> DEFINE k == KeyOfAddition(st, i)
           e == EntryOfAddition(st, i, n, f)
<1>1. CASE Joins(st, i)
  <2>1. k \in DOMAIN st.entries /\ k = FindEntry(st, i)
    BY <1>1, FindsEntry DEF KeyOfAddition
  <2>2. IsEntry(st.entries[k])
    BY <2>1 DEF Sound, IsStorage
  <2>3. e = IF f THEN AddToNewStacks(st.entries[k], n) ELSE AddToAnyStack(st.entries[k], n)
    BY <1>1, <2>1 DEF EntryOfAddition
  <2>4. DOMAIN st.entries[k].stacks \subseteq DOMAIN e.stacks
    BY <2>2, <2>3, AdditionsKeepStacks
  <2>5. Added(st, i, n, f)
          = [SetEntry(st, k, e) EXCEPT !.proxies = PostContentChanged(@, k, e)]
    BY <1>1, <2>1, <2>3 DEF Added, Joined
  <2> HIDE DEF k, e
  <2>6. Added(st, i, n, f)
          = [SetEntry(st, k, e) EXCEPT !.proxies = PostContentChanged(st.proxies, k, e)]
    BY <2>5, SetEntryEntries
  <2>7. Added(st, i, n, f).entries = SetEntry(st, k, e).entries
    BY <2>6, SetEntryEntries
  <2> QED
    BY <1>1, <2>1, <2>4, <2>7, SetEntryEntries DEF k, e
<1>2. CASE ~Joins(st, i)
  <2>1. k = st.keyGen + 1 /\ e = NewEntry(i, StackLimit[i], n)
    BY <1>2 DEF KeyOfAddition, NextKey, EntryOfAddition
  <2>2. k \notin DOMAIN st.entries
    BY <2>1 DEF Sound, IsStorage
  <2>3. Added(st, i, n, f).entries = SetEntry(st, k, e).entries
    BY <1>2, <2>1 DEF Added, Appended, NextKey
  <2> HIDE DEF k, e
  <2> QED
    BY <1>2, <2>2, <2>3, SetEntryEntries DEF k, e
<1> QED
  BY <1>1, <1>2

-----------------------------------------------------------------------------
(* Events.  Every address that comes or goes is named by an event.          *)

StacksOf(st, k) == IF k \in DOMAIN st.entries THEN DOMAIN st.entries[k].stacks ELSE {}

\* The two storages hold the same addresses but for those of A.
DiffersWithin(st, tt, A) ==
    \A k, j : <<k, j>> \notin A => (j \in StacksOf(st, k) <=> j \in StacksOf(tt, k))

\* One entry is replaced, made or removed: the addresses that differ are its.
LEMMA OneEntryDiffers ==
    ASSUME NEW st, NEW tt, NEW k, NEW A,
           \A l : l # k => StacksOf(tt, l) = StacksOf(st, l),
           \A j \in StacksOf(st, k) \ StacksOf(tt, k) : <<k, j>> \in A,
           \A j \in StacksOf(tt, k) \ StacksOf(st, k) : <<k, j>> \in A
    PROVE  DiffersWithin(st, tt, A)
BY DEF DiffersWithin

\* A replaced entry differs in the stacks it gained and lost.
LEMMA ReplacedDiffers ==
    ASSUME NEW st, NEW tt, NEW k, NEW e, NEW A,
           tt.entries = [j \in DOMAIN st.entries \cup {k} |->
                            IF j = k THEN e ELSE st.entries[j]],
           \A j \in StacksOf(st, k) \ DOMAIN e.stacks : <<k, j>> \in A,
           \A j \in DOMAIN e.stacks \ StacksOf(st, k) : <<k, j>> \in A
    PROVE  DiffersWithin(st, tt, A)
<1>1. StacksOf(tt, k) = DOMAIN e.stacks
  BY DEF StacksOf
<1>2. \A l : l # k => StacksOf(tt, l) = StacksOf(st, l)
  BY DEF StacksOf
<1> QED
  BY <1>1, <1>2, OneEntryDiffers

\* AddStackImplNoBroadcast reports the stacks it made.
LEMMA AddedDiffers ==
    ASSUME NEW st, Sound(st), NEW i \in Items, NEW n \in Nat \ {0}, NEW f \in BOOLEAN
    PROVE  DiffersWithin(st, Added(st, i, n, f), AdditionEvent(st, i, n, f).addresses)
<1> DEFINE k == KeyOfAddition(st, i)
           e == EntryOfAddition(st, i, n, f)
           tt == Added(st, i, n, f)
           J == DOMAIN e.stacks \ StacksOf(st, k)
<1>1. /\ tt.entries = [j \in DOMAIN st.entries \cup {k} |->
                            IF j = k THEN e ELSE st.entries[j]]
      /\ Joins(st, i) => k \in DOMAIN st.entries
      /\ ~Joins(st, i) => k \notin DOMAIN st.entries
      /\ StacksOf(st, k) \subseteq DOMAIN e.stacks
  BY AddedEntries DEF StacksOf
<1>2. AdditionEvent(st, i, n, f).addresses = {<<k, j>> : j \in J}
  <2>1. tt.entries[k] = e
    BY <1>1
  <2>2. StacksOf(st, k) = IF Joins(st, i) THEN DOMAIN st.entries[k].stacks ELSE {}
    BY <1>1 DEF StacksOf
  <2>3. AdditionEvent(st, i, n, f)
          = Event(k, n, DOMAIN tt.entries[k].stacks
                          \ (IF Joins(st, i) THEN DOMAIN st.entries[k].stacks ELSE {}))
    BY DEF AdditionEvent, KeyOfAddition
  <2> HIDE DEF k, e, tt
  <2>4. AdditionEvent(st, i, n, f) = Event(k, n, J)
    BY <2>1, <2>2, <2>3
  <2> QED
    BY <2>4 DEF Event
<1>3. tt.entries = [j \in DOMAIN st.entries \cup {k} |-> IF j = k THEN e ELSE st.entries[j]]
  BY <1>1
<1> HIDE DEF k, e, tt
<1>4. /\ \A j \in StacksOf(st, k) \ DOMAIN e.stacks : <<k, j>> \in AdditionEvent(st, i, n, f).addresses
      /\ \A j \in DOMAIN e.stacks \ StacksOf(st, k) : <<k, j>> \in AdditionEvent(st, i, n, f).addresses
  BY <1>1, <1>2
<1>5. DiffersWithin(st, tt, AdditionEvent(st, i, n, f).addresses)
  BY ONLY <1>3, <1>4, ReplacedDiffers
<1> QED
  BY <1>5 DEF tt

\* An entry that is removed takes all of its addresses along.
LEMMA WithoutEntryDiffers ==
    ASSUME NEW st, NEW k \in DOMAIN st.entries
    PROVE  DiffersWithin(st, WithoutEntry(st, k), {<<k, j>> : j \in DOMAIN st.entries[k].stacks})
<1>1. WithoutEntry(st, k).entries = [j \in DOMAIN st.entries \ {k} |-> st.entries[j]]
  BY DEF WithoutEntry
<1>2. \A l : l # k => StacksOf(WithoutEntry(st, k), l) = StacksOf(st, l)
  BY <1>1 DEF StacksOf
<1>3. StacksOf(WithoutEntry(st, k), k) = {} /\ StacksOf(st, k) = DOMAIN st.entries[k].stacks
  BY <1>1 DEF StacksOf
<1> DEFINE A == {<<k, j>> : j \in DOMAIN st.entries[k].stacks}
<1>4. \A j \in StacksOf(st, k) : <<k, j>> \in A
  BY <1>3
<1> HIDE DEF A
<1>5. DiffersWithin(st, WithoutEntry(st, k), A)
  BY <1>2, <1>3, <1>4, OneEntryDiffers
<1> QED
  BY <1>5 DEF A

\* RemoveFromEntryImplNoBroadcast reports every stack its loop came to.
LEMMA RemovedFromEntryDiffers ==
    ASSUME NEW st, Sound(st), NEW k \in DOMAIN st.entries, NEW n \in Int
    PROVE  DiffersWithin(st, RemovedFromEntry(st, k, n), EntryRemovalEvent(st, k, n).addresses)
<1>1. CASE RemovesEntry(st, k, n)
  BY <1>1, WithoutEntryDiffers DEF RemovedFromEntry, EntryRemovalEvent, Event
<1>2. CASE ~RemovesEntry(st, k, n)
  <2> DEFINE e == RemoveFromAnyStack(st.entries[k], n)
             p == IF PartlyRemoved(st.entries[k], n) = {}
                  THEN st.proxies ELSE PostContentChanged(st.proxies, k, e)
             J == ReachedFromTail(st.entries[k], n)
  <2>1. /\ DOMAIN e.stacks \subseteq DOMAIN st.entries[k].stacks
        /\ DOMAIN st.entries[k].stacks \ DOMAIN e.stacks \subseteq J
    <3>1. IsEntry(st.entries[k])
      BY DEF Sound, IsStorage
    <3> QED
      BY <3>1, RemoveFromAnyStackKeeps
  <2> HIDE DEF e
  <2>2. SetEntry(st, k, e).proxies = st.proxies
    BY DEF SetEntry, Sound, IsStorage
  <2>3. RemovedFromEntry(st, k, n) = [SetEntry(st, k, e) EXCEPT !.proxies = p]
    BY <1>2, <2>2 DEF RemovedFromEntry, e
  <2> HIDE DEF p
  <2>4. RemovedFromEntry(st, k, n).entries
          = [j \in DOMAIN st.entries \cup {k} |-> IF j = k THEN e ELSE st.entries[j]]
    BY <2>3, SetEntryEntries
  <2>5. StacksOf(st, k) = DOMAIN st.entries[k].stacks
    BY DEF StacksOf
  <2>6. EntryRemovalEvent(st, k, n).addresses = {<<k, j>> : j \in J}
    BY <1>2 DEF EntryRemovalEvent, Event
  <2> DEFINE A == EntryRemovalEvent(st, k, n).addresses
  <2>7. /\ \A j \in StacksOf(st, k) \ DOMAIN e.stacks : <<k, j>> \in A
        /\ \A j \in DOMAIN e.stacks \ StacksOf(st, k) : <<k, j>> \in A
    BY <2>1, <2>5, <2>6
  <2> HIDE DEF A
  <2>8. DiffersWithin(st, RemovedFromEntry(st, k, n), A)
    BY <2>4, <2>7, ReplacedDiffers
  <2> QED
    BY <2>8 DEF A
<1> QED
  BY <1>1, <1>2

\* RemoveFromStackImpl touches the stack it is called for and no other.
LEMMA RemovedFromStackDiffers ==
    ASSUME NEW st, Sound(st), NEW k \in DOMAIN st.entries,
           NEW j \in DOMAIN st.entries[k].stacks, NEW n \in Int
    PROVE  DiffersWithin(st, RemovedFromStack(st, k, j, n), {<<k, j>>})
<1> DEFINE e == st.entries[k]
           m == StackRemovalAmount(st, k, j, n)
<1>1. StacksOf(st, k) = DOMAIN e.stacks
  BY DEF StacksOf
<1>2. CASE RemovesOnlyStack(st, k, j, n)
  <2>1. DOMAIN e.stacks = {j}
    BY <1>2 DEF RemovesOnlyStack, IsOnlyStack
  <2>2. {<<k, l>> : l \in {j}} = {<<k, j>>}
    OBVIOUS
  <2> QED
    BY <1>2, <2>1, <2>2, WithoutEntryDiffers DEF RemovedFromStack
<1>3. CASE ~RemovesOnlyStack(st, k, j, n)
  <2>1. IsEntry(e)
    BY DEF Sound, IsStorage
  <2>2. \A l : l # j => (l \in DOMAIN RemoveStack(e, j).stacks <=> l \in DOMAIN e.stacks)
    BY <2>1 DEF RemoveStack, IsEntry
  <2>3. \A l : l # j => (l \in DOMAIN SetStack(e, j, e.stacks[j] - m).stacks <=> l \in DOMAIN e.stacks)
    BY <2>1, <2>2 DEF SetStack, IsEntry
  <2>4. PICK x : /\ RemovedFromStack(st, k, j, n) = SetEntry(st, k, x)
                 /\ \A l : l # j => (l \in DOMAIN x.stacks <=> l \in DOMAIN e.stacks)
    BY <1>3, <2>2, <2>3 DEF RemovedFromStack
  <2>5. RemovedFromStack(st, k, j, n).entries
          = [l \in DOMAIN st.entries \cup {k} |-> IF l = k THEN x ELSE st.entries[l]]
    BY <2>4 DEF SetEntry, Sound, IsStorage
  <2> HIDE DEF e
  <2> QED
    BY <1>1, <2>4, <2>5, ReplacedDiffers
<1> QED
  BY <1>2, <1>3

\* A split makes one stack.
LEMMA SplitOffDiffers ==
    ASSUME NEW st, Sound(st), NEW k \in DOMAIN st.entries, NEW j, NEW n
    PROVE  DiffersWithin(st, SplitOff(st, k, j, n), {<<k, NextStackKey(st.entries[k])>>})
<1> DEFINE e == SplitStack(st.entries[k], j, n)
           p == PostContentChanged(st.proxies, k, e)
           new == NextStackKey(st.entries[k])
<1>1. DOMAIN e.stacks = DOMAIN st.entries[k].stacks \cup {new}
  BY DEF SplitStack, NextStackKey
<1>2. StacksOf(st, k) = DOMAIN st.entries[k].stacks
  BY DEF StacksOf
<1> HIDE DEF e
<1>3. SetEntry(st, k, e).proxies = st.proxies
  BY DEF SetEntry, Sound, IsStorage
<1>4. SplitOff(st, k, j, n) = [SetEntry(st, k, e) EXCEPT !.proxies = p]
  BY <1>3 DEF SplitOff, e
<1> HIDE DEF p, new
<1>5. SplitOff(st, k, j, n).entries
        = [l \in DOMAIN st.entries \cup {k} |-> IF l = k THEN e ELSE st.entries[l]]
  BY <1>4, SetEntryEntries
<1>6. DiffersWithin(st, SplitOff(st, k, j, n), {<<k, new>>})
  BY <1>1, <1>2, <1>5, ReplacedDiffers
<1> QED
  BY <1>6 DEF new

\* Clear reports all the stacks of every entry it removes.
LEMMA ClearedDiffers ==
    ASSUME NEW st, NEW kept, NEW A,
           \A k \in DOMAIN st.entries \ kept : \A j \in DOMAIN st.entries[k].stacks : <<k, j>> \in A
    PROVE  DiffersWithin(st, Cleared(st, kept), A)
<1> DEFINE lost == DOMAIN st.entries \ kept
           left == WithoutEntries(st, lost)
<1>1. left = [entries |-> left.entries, keyGen |-> left.keyGen, proxies |-> left.proxies]
  BY DEF WithoutEntries
<1>2. left.entries = [k \in DOMAIN st.entries \ lost |-> st.entries[k]]
  BY DEF WithoutEntries
<1> HIDE DEF left
<1>3. [left EXCEPT !.keyGen = KeyGenReset].entries = left.entries
  BY <1>1
<1>4. Cleared(st, kept).entries = left.entries
  BY <1>3 DEF Cleared, left
<1>5. \A k : StacksOf(Cleared(st, kept), k)
               = IF k \in lost THEN {} ELSE StacksOf(st, k)
  BY <1>2, <1>4 DEF StacksOf
<1> QED
  BY <1>5 DEF DiffersWithin, StacksOf

-----------------------------------------------------------------------------
(* The events of a call.                                                    *)

\* What an event of a batch names is named in the batch's storage.
LEMMA BatchNames ==
    ASSUME NEW n \in DOMAIN log', NEW s, NEW type, NEW data, log'[n] = Batch(s, type, data),
           NEW d \in data
    PROVE  d.addresses \subseteq Named(s)
BY DEF Named, Batch

\* The events of a call that broadcasts one batch.
LEMMA OneBatchNames ==
    ASSUME NEW s, NEW type, NEW data, log' = <<Batch(s, type, data)>>, NEW d \in data
    PROVE  d.addresses \subseteq Named(s)
<1>1. 1 \in DOMAIN log' /\ log'[1] = Batch(s, type, data)
  OBVIOUS
<1> QED
  BY <1>1, BatchNames

\* The events of a move, which broadcasts two.
LEMMA TwoBatchesName ==
    ASSUME NEW s, NEW t, NEW type, NEW other, NEW d, NEW c,
           log' = <<Batch(s, type, {d}), Batch(t, other, {c})>>
    PROVE  d.addresses \subseteq Named(s) /\ c.addresses \subseteq Named(t)
<1>1. /\ 1 \in DOMAIN log' /\ log'[1] = Batch(s, type, {d})
      /\ 2 \in DOMAIN log' /\ log'[2] = Batch(t, other, {c})
  OBVIOUS
<1>2. d.addresses \subseteq Named(s)
  BY <1>1, BatchNames
<1>3. c.addresses \subseteq Named(t)
  BY <1>1, BatchNames
<1> QED
  BY <1>2, <1>3

AllNamed == \A s \in Storages : DiffersWithin(store[s], store'[s], Named(s))

\* Storages that differ within what is named have all their events.
LEMMA NamedIsEnough ==
    AllNamed => \A s \in Storages :
                    /\ AddressesOf(store'[s]) \ AddressesOf(store[s]) \subseteq Named(s)
                    /\ AddressesOf(store[s]) \ AddressesOf(store'[s]) \subseteq Named(s)
<1> SUFFICES ASSUME AllNamed, NEW s \in Storages, NEW a \in EntryKeys \X StackKeys, a \notin Named(s)
             PROVE  a \in AddressesOf(store'[s]) <=> a \in AddressesOf(store[s])
  BY DEF AddressesOf
<1>1. a = <<a[1], a[2]>>
  OBVIOUS
<1>2. a[2] \in StacksOf(store[s], a[1]) <=> a[2] \in StacksOf(store'[s], a[1])
  BY <1>1 DEF AllNamed, DiffersWithin
<1> QED
  BY <1>2 DEF AddressesOf, Contains, StacksOf

\* A call that changes one storage within what it names.
LEMMA OneStorageNamed ==
    ASSUME StoreInv, NEW s \in Storages, NEW tt, store' = [store EXCEPT ![s] = tt],
           NEW A, DiffersWithin(store[s], tt, A), A \subseteq Named(s)
    PROVE  AllNamed
<1>1. /\ store'[s] = tt
      /\ \A x \in Storages : x # s => store'[x] = store[x]
  BY DEF StoreInv
<1>2. DiffersWithin(store[s], tt, Named(s))
  BY DEF DiffersWithin
<1>3. \A x \in Storages : DiffersWithin(store[x], store[x], Named(x))
  BY DEF DiffersWithin
<1> QED
  BY <1>1, <1>2, <1>3 DEF AllNamed

\* A call that leaves the entries of every storage alone has nothing to name.
LEMMA SameEntriesNamed ==
    ASSUME \A s \in Storages : store'[s].entries = store[s].entries
    PROVE  AllNamed
BY DEF AllNamed, DiffersWithin, StacksOf

\* A call that changes proxies leaves the entries alone.
LEMMA ProxiesOnly ==
    ASSUME StoreInv, NEW s \in Storages, NEW p, store' = [store EXCEPT ![s].proxies = p]
    PROVE  \A x \in Storages : store'[x].entries = store[x].entries
<1> DEFINE st == store[s]
           tt == [entries |-> st.entries, keyGen |-> st.keyGen, proxies |-> p]
<1>1. st = [entries |-> st.entries, keyGen |-> st.keyGen, proxies |-> st.proxies]
  BY StorageFacts
<1>2. store' = [store EXCEPT ![s] = [st EXCEPT !.proxies = p]]
  OBVIOUS
<1> HIDE DEF st
<1>3. [st EXCEPT !.proxies = p] = tt
  BY <1>1
<1>4. store' = [store EXCEPT ![s] = tt]
  BY <1>2, <1>3
<1>5. tt.entries = st.entries
  OBVIOUS
<1> HIDE DEF tt
<1>6. store'[s] = tt /\ \A x \in Storages : x # s => store'[x] = store[x]
  BY <1>4 DEF StoreInv
<1> QED
  BY <1>5, <1>6 DEF st

\* So it has nothing to name, and nothing to be heard of.
LEMMA ProxiesNamed ==
    ASSUME StoreInv, NEW s \in Storages, NEW p, store' = [store EXCEPT ![s].proxies = p]
    PROVE  AllNamed
BY ProxiesOnly, SameEntriesNamed

\* The events of each call on one storage name what it changes.
LEMMA AddItemStackNamed ==
    ASSUME StoreInv, NEW s \in Storages, NEW i \in Items, NEW n \in Int,
           NEW f \in BOOLEAN, NEW v, AddItemStack(s, i, n, f, v)
    PROVE  AllNamed
<1> DEFINE tt == Added(store[s], i, n, f)
           d == AdditionEvent(store[s], i, n, f)
<1>1. n \in Nat \ {0}
  BY DEF AddItemStack, CanAddStack
<1>2. DiffersWithin(store[s], tt, d.addresses)
  BY <1>1, AddedDiffers, StorageFacts
<1>3. store' = [store EXCEPT ![s] = tt] /\ log' = <<Batch(s, "Addition", {d})>>
  BY DEF AddItemStack
<1> HIDE DEF tt, d
<1>4. d.addresses \subseteq Named(s)
  BY <1>3, OneBatchNames
<1> QED
  BY <1>2, <1>3, <1>4, OneStorageNamed

\* RemoveEntry, TakeEntry and Release name what they remove.
LEMMA RemoveFromEntryNamed ==
    ASSUME StoreInv, NEW s \in Storages, NEW k \in DOMAIN store[s].entries, NEW n \in Int,
           NEW tag, NEW v, RemoveFromEntry(s, k, n, tag, v)
    PROVE  AllNamed
<1> DEFINE tt == RemovedFromEntry(store[s], k, n)
           d == EntryRemovalEvent(store[s], k, n)
<1>1. DiffersWithin(store[s], tt, d.addresses)
  BY RemovedFromEntryDiffers, StorageFacts
<1>2. store' = [store EXCEPT ![s] = tt] /\ log' = <<Batch(s, tag, {d})>>
  BY DEF RemoveFromEntry
<1> HIDE DEF tt, d
<1>3. d.addresses \subseteq Named(s)
  BY <1>2, OneBatchNames
<1> QED
  BY <1>1, <1>2, <1>3, OneStorageNamed

\* RemoveStack and TakeStack name the stack.
LEMMA RemoveFromStackNamed ==
    ASSUME StoreInv, NEW s \in Storages, NEW k \in DOMAIN store[s].entries,
           NEW j \in DOMAIN store[s].entries[k].stacks, NEW n \in Int,
           NEW tag, NEW v, RemoveFromStack(s, k, j, n, tag, v)
    PROVE  AllNamed
<1> DEFINE tt == RemovedFromStack(store[s], k, j, n)
           d == StackRemovalEvent(store[s], k, j, n)
<1>1. DiffersWithin(store[s], tt, {<<k, j>>})
  BY RemovedFromStackDiffers, StorageFacts
<1>2. store' = [store EXCEPT ![s] = tt] /\ log' = <<Batch(s, tag, {d})>>
  BY DEF RemoveFromStack
<1>3. {<<k, j>>} \subseteq d.addresses
  BY DEF StackRemovalEvent, Event
<1> HIDE DEF tt, d
<1>4. d.addresses \subseteq Named(s)
  BY <1>2, OneBatchNames
<1>5. {<<k, j>>} \subseteq Named(s)
  BY <1>3, <1>4
<1> QED
  BY <1>1, <1>2, <1>5, OneStorageNamed

\* Clear names every stack of the entries it removes.
LEMMA ClearNamed ==
    ASSUME StoreInv, NEW s \in Storages, NEW kept, NEW tag, Clear(s, kept, tag)
    PROVE  AllNamed
<1> DEFINE st == store[s]
           tt == Cleared(st, kept)
           lost == DOMAIN st.entries \ kept
           data == {EntryRemovalEvent(st, k, EntireStack) : k \in lost}
<1>1. store' = [store EXCEPT ![s] = tt] /\ log' = <<Batch(s, tag, data)>>
  BY DEF Clear
<1>2. ASSUME NEW k \in lost, NEW j \in DOMAIN st.entries[k].stacks PROVE <<k, j>> \in Named(s)
  <2> DEFINE d == EntryRemovalEvent(st, k, EntireStack)
  <2>1. d \in data
    OBVIOUS
  <2>2. <<k, j>> \in d.addresses
    BY DEF EntryRemovalEvent, RemovesEntry, Event
  <2> HIDE DEF d, data
  <2>3. d.addresses \subseteq Named(s)
    BY <1>1, <2>1, OneBatchNames
  <2> QED
    BY <2>2, <2>3
<1>3. DiffersWithin(st, tt, Named(s))
  BY <1>2, ClearedDiffers
<1> HIDE DEF tt
<1> QED
  BY <1>1, <1>3, OneStorageNamed

\* SplitStack names the stack it makes.
LEMMA SplitNamed ==
    ASSUME StoreInv, NEW s \in Storages, NEW k \in DOMAIN store[s].entries,
           NEW j, NEW n, NEW v, Split(s, k, j, n, v)
    PROVE  AllNamed
<1> DEFINE tt == SplitOff(store[s], k, j, n)
           new == NextStackKey(store[s].entries[k])
           d == Event(k, n, {j, new})
<1>1. DiffersWithin(store[s], tt, {<<k, new>>})
  BY SplitOffDiffers, StorageFacts
<1>2. store' = [store EXCEPT ![s] = tt] /\ log' = <<Batch(s, "Split", {d})>>
  BY DEF Split
<1>3. {<<k, new>>} \subseteq d.addresses
  BY DEF Event
<1> HIDE DEF tt, d, new
<1>4. d.addresses \subseteq Named(s)
  BY <1>2, OneBatchNames
<1>5. {<<k, new>>} \subseteq Named(s)
  BY <1>3, <1>4
<1> QED
  BY <1>1, <1>2, <1>5, OneStorageNamed

\* A move names in both storages what it changes there.
LEMMA MovedNamed ==
    ASSUME StoreInv, NEW s \in Storages, NEW t \in Storages, s # t,
           NEW taken, NEW i \in Items, NEW n \in Nat \ {0}, NEW f \in BOOLEAN,
           NEW released, NEW d, DiffersWithin(store[s], taken, d.addresses),
           Moved(s, t, taken, i, n, f, released, d)
    PROVE  AllNamed
<1> DEFINE added == Added(store[t], i, n, f)
           c == AdditionEvent(store[t], i, n, f)
<1>1. DiffersWithin(store[t], added, c.addresses)
  BY AddedDiffers, StorageFacts
<1>2. /\ store'[s] = taken /\ store'[t] = added
      /\ \A x \in Storages \ {s, t} : store'[x] = store[x]
      /\ log' = <<Batch(s, "RemovalMoving", {d}), Batch(t, "Addition", {c})>>
  BY DEF Moved, StoreInv
<1> HIDE DEF added, c
<1>3. d.addresses \subseteq Named(s) /\ c.addresses \subseteq Named(t)
  BY <1>2, TwoBatchesName
<1>4. DiffersWithin(store[s], taken, Named(s)) /\ DiffersWithin(store[t], added, Named(t))
  BY <1>1, <1>3 DEF DiffersWithin
<1>5. \A x \in Storages : DiffersWithin(store[x], store[x], Named(x))
  BY DEF DiffersWithin
<1> QED
  BY <1>2, <1>4, <1>5 DEF AllNamed

\* MoveStack names the stack it takes and the stacks it adds.
LEMMA MoveStackNamed ==
    ASSUME StoreInv, NEW s \in Storages, NEW t \in Storages,
           NEW k \in DOMAIN store[s].entries, NEW j \in DOMAIN store[s].entries[k].stacks,
           NEW n \in Int, NEW f \in BOOLEAN, NEW v, NEW w,
           MoveStack(s, t, k, j, n, f, v, w)
    PROVE  AllNamed
<1> DEFINE taken == RemovedFromStack(store[s], k, j, n)
           m == StackRemovalAmount(store[s], k, j, n)
           i == store[s].entries[k].item
           released == RemovesOnlyStack(store[s], k, j, n)
           d == StackRemovalEvent(store[s], k, j, n)
<1>1. m \in Int /\ i \in Items
  BY RemovedFromStackSound, StorageFacts
<1>2. m \in Nat \ {0} /\ s # t
  BY <1>1 DEF MoveStack, CanAddStack
<1>3. Moved(s, t, taken, i, m, f, released, d)
  BY DEF MoveStack
<1>4. d.addresses = {<<k, j>>}
  BY DEF StackRemovalEvent, Event
<1>5. DiffersWithin(store[s], taken, d.addresses)
  <2>1. DiffersWithin(store[s], taken, {<<k, j>>})
    BY RemovedFromStackDiffers, StorageFacts
  <2> HIDE DEF taken, d
  <2> QED
    BY <1>4, <2>1
<1> HIDE DEF taken, m, i, released, d
<1> QED
  BY <1>1, <1>2, <1>3, <1>5, MovedNamed

\* MoveEntry names the stacks of the entry and the stacks it adds.
LEMMA MoveEntryNamed ==
    ASSUME StoreInv, NEW s \in Storages, NEW t \in Storages,
           NEW k \in DOMAIN store[s].entries, NEW f \in BOOLEAN, NEW v, NEW w,
           MoveEntry(s, t, k, f, v, w)
    PROVE  AllNamed
<1> DEFINE taken == WithoutEntry(store[s], k)
           m == StackSum(store[s].entries[k])
           i == store[s].entries[k].item
           d == EntryRemovalEvent(store[s], k, EntireStack)
<1>1. m \in Int /\ i \in Items
  BY StorageFacts
<1>2. m \in Nat \ {0} /\ s # t
  BY <1>1 DEF MoveEntry, CanAddStack
<1>3. Moved(s, t, taken, i, m, f, TRUE, d)
  BY DEF MoveEntry
<1>4. d.addresses = {<<k, j>> : j \in DOMAIN store[s].entries[k].stacks}
  BY DEF EntryRemovalEvent, RemovesEntry, Event
<1>5. DiffersWithin(store[s], taken, d.addresses)
  BY <1>4, WithoutEntryDiffers
<1> HIDE DEF taken, m, i, d
<1> QED
  BY <1>1, <1>2, <1>3, <1>5, MovedNamed

\* Every call names every address that it makes or removes.
LEMMA NextNamed ==
    ASSUME StoreInv, Next
    PROVE  AllNamed
<1> USE InputsAssumption
<1>1. \A n \in Amounts : n \in Int
  BY DEF Amounts, EntireStack
<1>2. ASSUME NEW s \in Storages, StorageCall(s) PROVE AllNamed
  <2>1. ASSUME NEW i \in Items, NEW n \in 1..loose[i], NEW f \in BOOLEAN, NEW v \in Verdicts,
               AddItemStack(s, i, n, f, v)
        PROVE  AllNamed
    BY <2>1, AddItemStackNamed
  <2>2. ASSUME NEW tag \in RemovalTags, NEW kept \in SUBSET DOMAIN store[s].entries,
               Clear(s, kept, tag)
        PROVE  AllNamed
    BY <2>2, ClearNamed
  <2>3. ASSUME NEW k \in DOMAIN store[s].entries, NEW v \in Verdicts,
               NEW n \in Amounts, NEW tag \in RemovalTags, RemoveFromEntry(s, k, n, tag, v)
        PROVE  AllNamed
    BY <1>1, <2>3, RemoveFromEntryNamed
  <2>4. ASSUME NEW k \in DOMAIN store[s].entries, NEW v \in Verdicts,
               NEW j \in DOMAIN store[s].entries[k].stacks,
               NEW n \in Amounts, NEW tag \in RemovalTags, RemoveFromStack(s, k, j, n, tag, v)
        PROVE  AllNamed
    BY <1>1, <2>4, RemoveFromStackNamed
  <2>5. ASSUME NEW k \in DOMAIN store[s].entries, NEW v \in Verdicts,
               NEW j \in DOMAIN store[s].entries[k].stacks,
               NEW n \in SplitAmounts, Split(s, k, j, n, v)
        PROVE  AllNamed
    BY <2>5, SplitNamed
  <2>6. ASSUME NEW k \in DOMAIN store[s].entries, NEW v \in Verdicts,
               NEW j \in DOMAIN store[s].entries[k].stacks,
               NEW from \in StackKeys, MergeStacks(s, k, from, j, v)
        PROVE  AllNamed
    BY <2>6, SameEntriesNamed DEF MergeStacks
  <2>7. ASSUME NEW a \in Watched, RequestProxy(s, a) \/ DropProxy(s, a)
        PROVE  AllNamed
    <3>1. PICK p : store' = [store EXCEPT ![s].proxies = p]
      BY <2>7 DEF RequestProxy, DropProxy
    <3> QED
      BY <3>1, ProxiesNamed
  <2> QED
    BY <1>2, <2>1, <2>2, <2>3, <2>4, <2>5, <2>6, <2>7 DEF StorageCall
<1>3. ASSUME NEW i \in Mutables, MutateItem(i) PROVE AllNamed
  <2>1. owner[i] \in Storages /\ \E p : store' = [store EXCEPT ![owner[i]].proxies = p]
    BY <1>3 DEF MutateItem
  <2> QED
    BY <2>1, ProxiesNamed
<1>4. ASSUME NEW s \in Storages, NEW t \in Storages, TransferCall(s, t) PROVE AllNamed
  <2>1. ASSUME NEW k \in DOMAIN store[s].entries, NEW f \in BOOLEAN,
               NEW v \in Verdicts, NEW w \in Verdicts, MoveEntry(s, t, k, f, v, w)
        PROVE  AllNamed
    BY <2>1, MoveEntryNamed
  <2>2. ASSUME NEW k \in DOMAIN store[s].entries, NEW f \in BOOLEAN,
               NEW v \in Verdicts, NEW w \in Verdicts,
               NEW j \in DOMAIN store[s].entries[k].stacks, NEW n \in Amounts,
               MoveStack(s, t, k, j, n, f, v, w)
        PROVE  AllNamed
    BY <1>1, <2>2, MoveStackNamed
  <2> QED
    BY <1>4, <2>1, <2>2 DEF TransferCall
<1> QED
  BY <1>2, <1>3, <1>4 DEF Next

\* Whatever is called, with any answers of the extensions, every address that
\* appears or disappears is named in an event of its storage: an extension that
\* hears the events knows which stacks there are.
THEOREM EventsName == Spec => EventsNameComingAndGoing
<1>1. IInv /\ [Next]_vars =>
        [\A s \in Storages :
            /\ AddressesOf(store'[s]) \ AddressesOf(store[s]) \subseteq Named(s)
            /\ AddressesOf(store[s]) \ AddressesOf(store'[s]) \subseteq Named(s)]_vars
  BY NextNamed, NamedIsEnough DEF IInv
<1> QED
  BY <1>1, Invariance, PTL DEF Spec, EventsNameComingAndGoing

-----------------------------------------------------------------------------
(* Proxies.  A proxy of a stack that is there was told so.                  *)

\* A storage without empty entries or stacks whose proxies know their stacks.
ProxiesKnow(st) ==
    \A a \in DOMAIN st.proxies :
        /\ st.proxies[a] >= -1
        /\ Contains(st, a[1], a[2]) => st.proxies[a] >= 0

Filling(st) == \A k \in DOMAIN st.entries : Full(st.entries[k])

Live(st) == Filling(st) /\ ProxiesKnow(st)

\* An update makes the version of a proxy that waits for its stack a count.
LEMMA BumpCounts ==
    ASSUME NEW v \in Int, v >= -1
    PROVE  Bump(v) >= 0
BY InputsAssumption DEF Bump, Lesser

\* An entry that is made or changed and tells its proxies.
LEMMA ChangedLive ==
    ASSUME NEW st, Sound(st), Live(st), NEW k, NEW e, IsEntry(e), Full(e), NEW tt,
           tt.entries = [j \in DOMAIN st.entries \cup {k} |-> IF j = k THEN e ELSE st.entries[j]],
           tt.proxies = PostContentChanged(st.proxies, k, e)
    PROVE  Live(tt)
<1> DEFINE p == st.proxies
           heard == {b \in DOMAIN p : b[1] = k => b[2] \in DOMAIN e.stacks}
<1>1. IsValidEntry(e)
  BY FullIsValid
<1>2. tt.proxies = [a \in heard |-> IF a[1] = k THEN Bump(p[a]) ELSE p[a]]
  BY <1>1 DEF PostContentChanged
<1>3. Filling(tt)
  BY DEF Live, Filling
<1>4. ASSUME NEW a \in heard
      PROVE  /\ tt.proxies[a] >= -1
             /\ Contains(tt, a[1], a[2]) => tt.proxies[a] >= 0
  <2>1. p[a] \in Int /\ p[a] >= -1
    BY DEF Live, ProxiesKnow, Sound, IsStorage
  <2>2. CASE a[1] = k
    <3>1. tt.proxies[a] = Bump(p[a])
      BY <1>2, <2>2
    <3>2. Bump(p[a]) \in Int /\ Bump(p[a]) >= 0
      BY <2>1, BumpCounts, BumpInt
    <3> QED
      BY <3>1, <3>2
  <2>3. CASE a[1] # k
    <3>1. Contains(tt, a[1], a[2]) => Contains(st, a[1], a[2])
      BY <2>3 DEF Contains
    <3>2. tt.proxies[a] = p[a]
      BY <1>2, <2>3
    <3> QED
      BY <2>1, <3>1, <3>2 DEF Live, ProxiesKnow
  <2> QED
    BY <2>2, <2>3
<1>5. DOMAIN tt.proxies = heard
  BY <1>2
<1> QED
  BY <1>3, <1>4, <1>5 DEF Live, ProxiesKnow

\* An entry that is appended tells the proxies that waited for its stacks.
LEMMA AppendedLive ==
    ASSUME NEW st, Sound(st), Live(st), NEW k, NEW e, IsEntry(e), Full(e), NEW tt,
           tt.entries = [j \in DOMAIN st.entries \cup {k} |-> IF j = k THEN e ELSE st.entries[j]],
           tt.proxies = PostContentAdded(st.proxies, k, e)
    PROVE  Live(tt)
<1> DEFINE p == st.proxies
<1>1. IsValidEntry(e)
  BY FullIsValid
<1>2. tt.proxies = [a \in DOMAIN p |->
                       IF a[1] = k /\ a[2] \in DOMAIN e.stacks THEN 0 ELSE p[a]]
  BY <1>1 DEF PostContentAdded
<1>3. Filling(tt)
  BY DEF Live, Filling
<1>4. ASSUME NEW a \in DOMAIN p
      PROVE  /\ tt.proxies[a] >= -1
             /\ Contains(tt, a[1], a[2]) => tt.proxies[a] >= 0
  <2>1. p[a] \in Int /\ p[a] >= -1
    BY DEF Live, ProxiesKnow, Sound, IsStorage
  <2>2. CASE a[1] = k /\ a[2] \in DOMAIN e.stacks
    BY <1>2, <2>2
  <2>3. CASE ~(a[1] = k /\ a[2] \in DOMAIN e.stacks)
    <3>1. Contains(tt, a[1], a[2]) => Contains(st, a[1], a[2])
      BY <2>3 DEF Contains
    <3>2. tt.proxies[a] = p[a]
      BY <1>2, <2>3
    <3> QED
      BY <2>1, <3>1, <3>2 DEF Live, ProxiesKnow
  <2> QED
    BY <2>2, <2>3
<1>5. DOMAIN tt.proxies = DOMAIN p
  BY <1>2
<1> QED
  BY <1>3, <1>4, <1>5 DEF Live, ProxiesKnow

\* Stacks and proxies that go leave the others as they are.
LEMMA ShrunkLive ==
    ASSUME NEW st, Live(st), NEW tt, Filling(tt),
           \A k, j : Contains(tt, k, j) => Contains(st, k, j),
           \A a \in DOMAIN tt.proxies : a \in DOMAIN st.proxies /\ tt.proxies[a] = st.proxies[a]
    PROVE  Live(tt)
BY DEF Live, ProxiesKnow

\* An addition leaves a storage live.
LEMMA AddedLive ==
    ASSUME NEW st, Sound(st), Live(st), NEW i \in Items, NEW n \in Nat \ {0}, NEW f \in BOOLEAN
    PROVE  Live(Added(st, i, n, f))
<1> DEFINE k == KeyOfAddition(st, i)
           e == EntryOfAddition(st, i, n, f)
           tt == Added(st, i, n, f)
<1>1. tt.entries = [j \in DOMAIN st.entries \cup {k} |-> IF j = k THEN e ELSE st.entries[j]]
  BY AddedEntries
<1>2. CASE Joins(st, i)
  <2>1. k \in DOMAIN st.entries /\ k = FindEntry(st, i)
    BY <1>2, FindsEntry DEF KeyOfAddition
  <2>2. IsEntry(st.entries[k]) /\ Full(st.entries[k])
    BY <2>1 DEF Sound, IsStorage, Live, Filling
  <2>3. e = IF f THEN AddToNewStacks(st.entries[k], n) ELSE AddToAnyStack(st.entries[k], n)
    BY <1>2, <2>1 DEF EntryOfAddition
  <2>4. tt = [SetEntry(st, k, e) EXCEPT !.proxies = PostContentChanged(@, k, e)]
    BY <1>2, <2>1, <2>3 DEF Added, Joined
  <2> HIDE DEF k, e, tt
  <2>5. IsEntry(e) /\ Full(e)
    <3>1. IsEntry(AddToNewStacks(st.entries[k], n)) /\ IsEntry(AddToAnyStack(st.entries[k], n))
      BY <2>2, AddToNewStacksContinues, AddToAnyStackContinues
    <3>2. Full(AddToNewStacks(st.entries[k], n))
      BY <2>2, AddToNewStacksHolds DEF Full
    <3>3. Full(AddToAnyStack(st.entries[k], n))
      BY <2>2, AddToAnyStackHolds
    <3> QED
      BY <2>3, <3>1, <3>2, <3>3
  <2>6. SetEntry(st, k, e).proxies = st.proxies
    BY DEF SetEntry, Sound, IsStorage
  <2>7. tt = [SetEntry(st, k, e) EXCEPT !.proxies = PostContentChanged(st.proxies, k, e)]
    BY <2>4, <2>6
  <2>8. tt.proxies = PostContentChanged(st.proxies, k, e)
    BY <2>7, SetEntryEntries
  <2>9. Live(tt)
    BY <1>1, <2>5, <2>8, ChangedLive
  <2> QED
    BY <2>9 DEF tt
<1>3. CASE ~Joins(st, i)
  <2>1. k = NextKey(st) /\ e = NewEntry(i, StackLimit[i], n)
    BY <1>3 DEF KeyOfAddition, EntryOfAddition
  <2>2. tt.proxies = PostContentAdded(st.proxies, k, e)
    BY <1>3, <2>1 DEF Added, Appended
  <2> HIDE DEF k, e, tt
  <2>3. IsEntry(e) /\ Full(e)
    BY <2>1, NewEntryIsEntry, NewEntryHolds, ItemsAssumption
  <2>4. Live(tt)
    BY <1>1, <2>2, <2>3, AppendedLive
  <2> QED
    BY <2>4 DEF tt
<1> QED
  BY <1>2, <1>3

\* So does the removal of an entry, or of several.
LEMMA WithoutEntriesLive ==
    ASSUME NEW st, Live(st), NEW ks, NEW tt,
           tt.entries = [k \in DOMAIN st.entries \ ks |-> st.entries[k]],
           \A a \in DOMAIN tt.proxies : a \in DOMAIN st.proxies /\ tt.proxies[a] = st.proxies[a]
    PROVE  Live(tt)
<1>1. Filling(tt)
  BY DEF Live, Filling
<1>2. \A k, j : Contains(tt, k, j) => Contains(st, k, j)
  BY DEF Contains
<1> QED
  BY <1>1, <1>2, ShrunkLive

\* EntryMap.Remove leaves a storage live.
LEMMA WithoutEntryLive ==
    ASSUME NEW st, Live(st), NEW k
    PROVE  Live(WithoutEntry(st, k))
<1> DEFINE tt == WithoutEntry(st, k)
<1>1. /\ tt.entries = [j \in DOMAIN st.entries \ {k} |-> st.entries[j]]
      /\ tt.proxies = PreContentRemoved(st.proxies, k, st.entries[k])
  BY DEF WithoutEntry
<1> HIDE DEF tt
<1>2. \A a \in DOMAIN tt.proxies : a \in DOMAIN st.proxies /\ tt.proxies[a] = st.proxies[a]
  BY <1>1 DEF PreContentRemoved
<1>3. Live(tt)
  BY <1>1, <1>2, WithoutEntriesLive
<1> QED
  BY <1>3 DEF tt

\* A stack that is not there is in no edited entry: an entry that only loses
\* stacks and copies, without telling its proxies.
LEMMA EditedLive ==
    ASSUME NEW st, Sound(st), Live(st), NEW k \in DOMAIN st.entries, NEW e, Full(e),
           DOMAIN e.stacks \subseteq DOMAIN st.entries[k].stacks, NEW tt,
           tt.entries = [j \in DOMAIN st.entries \cup {k} |-> IF j = k THEN e ELSE st.entries[j]],
           tt.proxies = st.proxies
    PROVE  Live(tt)
<1>1. Filling(tt)
  BY DEF Live, Filling
<1>2. \A l, j : Contains(tt, l, j) => Contains(st, l, j)
  BY DEF Contains
<1> QED
  BY <1>1, <1>2, ShrunkLive

IsAmount(n) == n \in Nat \ {0} \/ n = EntireStack

\* RemoveFromEntryImplNoBroadcast leaves a storage live.
LEMMA RemovedFromEntryLive ==
    ASSUME NEW st, Sound(st), Live(st), NEW k \in DOMAIN st.entries, NEW n, IsAmount(n)
    PROVE  Live(RemovedFromEntry(st, k, n))
<1>1. CASE RemovesEntry(st, k, n)
  BY <1>1, WithoutEntryLive DEF RemovedFromEntry
<1>2. CASE ~RemovesEntry(st, k, n)
  <2> DEFINE e == RemoveFromAnyStack(st.entries[k], n)
             told == PartlyRemoved(st.entries[k], n) # {}
             p == IF told THEN PostContentChanged(st.proxies, k, e) ELSE st.proxies
             tt == RemovedFromEntry(st, k, n)
  <2>1. IsEntry(st.entries[k]) /\ Full(st.entries[k])
    BY DEF Sound, IsStorage, Live, Filling
  <2>2. n \in Nat \ {0} /\ n < StackSum(st.entries[k])
    <3>1. StackSum(st.entries[k]) \in Int
      BY SumsInt
    <3> QED
      BY <1>2, <3>1 DEF IsAmount, RemovesEntry
  <2>3. IsEntry(e) /\ Full(e) /\ DOMAIN e.stacks \subseteq DOMAIN st.entries[k].stacks
    BY <2>1, <2>2, RemoveFromAnyStackContinues, RemoveFromAnyStackHolds, RemoveFromAnyStackKeeps
  <2> HIDE DEF e
  <2>4. SetEntry(st, k, e).proxies = st.proxies
    BY DEF SetEntry, Sound, IsStorage
  <2>5. tt = [SetEntry(st, k, e) EXCEPT !.proxies = p]
    BY <1>2, <2>4 DEF RemovedFromEntry, e
  <2> HIDE DEF tt, p
  <2>6. /\ tt.entries = [j \in DOMAIN st.entries \cup {k} |-> IF j = k THEN e ELSE st.entries[j]]
        /\ tt.proxies = p
    BY <2>5, SetEntryEntries
  <2>7. CASE told
    <3>1. Live(tt)
      BY <2>3, <2>6, <2>7, ChangedLive DEF p
    <3> QED
      BY <3>1 DEF tt
  <2>8. CASE ~told
    <3>1. Live(tt)
      BY <2>3, <2>6, <2>8, EditedLive DEF p
    <3> QED
      BY <3>1 DEF tt
  <2> QED
    BY <2>7, <2>8
<1> QED
  BY <1>1, <1>2

\* RemoveFromStackImpl leaves a storage live.
LEMMA RemovedFromStackLive ==
    ASSUME NEW st, Sound(st), Live(st), NEW k \in DOMAIN st.entries,
           NEW j \in DOMAIN st.entries[k].stacks, NEW n, IsAmount(n)
    PROVE  Live(RemovedFromStack(st, k, j, n))
<1> DEFINE e == st.entries[k]
           m == StackRemovalAmount(st, k, j, n)
           tt == RemovedFromStack(st, k, j, n)
<1>1. CASE RemovesOnlyStack(st, k, j, n)
  BY <1>1, WithoutEntryLive DEF RemovedFromStack
<1>2. CASE ~RemovesOnlyStack(st, k, j, n)
  <2>1. IsEntry(e) /\ Full(e) /\ e.stacks[j] \in Int
    BY DEF Sound, IsStorage, Live, Filling, IsEntry
  <2>2. m \in Int /\ m <= e.stacks[j]
    BY <2>1 DEF StackRemovalAmount, Lesser, IsAmount
  <2>3. PICK x : /\ tt = SetEntry(st, k, x)
                 /\ Full(x) /\ DOMAIN x.stacks \subseteq DOMAIN e.stacks
    <3>1. CASE m = e.stacks[j]
      <4>1. ~IsOnlyStack(e, j)
        BY <1>2, <3>1 DEF RemovesOnlyStack
      <4>2. Full(RemoveStack(e, j))
        BY <2>1, <4>1, RemoveStackHolds
      <4>3. DOMAIN RemoveStack(e, j).stacks \subseteq DOMAIN e.stacks
        BY <2>1 DEF RemoveStack, IsEntry
      <4>4. tt = SetEntry(st, k, RemoveStack(e, j))
        BY <1>2, <3>1 DEF RemovedFromStack
      <4> QED
        BY <4>2, <4>3, <4>4
    <3>2. CASE m # e.stacks[j]
      <4> DEFINE c == e.stacks[j] - m
                 x == SetStack(e, j, c)
      <4>1. c \in Int /\ c > 0
        BY <2>1, <2>2, <3>2
      <4>2. tt = SetEntry(st, k, x)
        BY <1>2, <3>2 DEF RemovedFromStack
      <4>3. x = [e EXCEPT !.stacks[j] = c]
        BY <4>1 DEF SetStack
      <4> HIDE DEF c
      <4>4. x.stacks = [e.stacks EXCEPT ![j] = c]
        BY <2>1, <4>3 DEF IsEntry
      <4> HIDE DEF x
      <4>5. Full(x)
        BY <2>1, <4>1, <4>4, OneStackChanges
      <4>6. DOMAIN x.stacks \subseteq DOMAIN e.stacks
        BY <4>4
      <4> QED
        BY <4>2, <4>5, <4>6
    <3> QED
      BY <3>1, <3>2
  <2> HIDE DEF tt
  <2>4. /\ tt.entries = [l \in DOMAIN st.entries \cup {k} |-> IF l = k THEN x ELSE st.entries[l]]
        /\ tt.proxies = st.proxies
    BY <2>3 DEF SetEntry, Sound, IsStorage
  <2>5. Live(tt)
    BY <2>3, <2>4, EditedLive
  <2> QED
    BY <2>5 DEF tt
<1> QED
  BY <1>1, <1>2

\* A split into two stacks with copies leaves a storage live.
LEMMA SplitOffLive ==
    ASSUME NEW st, Sound(st), Live(st), NEW k \in DOMAIN st.entries,
           NEW j \in DOMAIN st.entries[k].stacks, NEW n \in Nat \ {0},
           n < st.entries[k].stacks[j]
    PROVE  Live(SplitOff(st, k, j, n))
<1> DEFINE e == SplitStack(st.entries[k], j, n)
           p == PostContentChanged(st.proxies, k, e)
           tt == SplitOff(st, k, j, n)
<1>1. IsEntry(st.entries[k]) /\ Full(st.entries[k])
  BY DEF Sound, IsStorage, Live, Filling
<1>2. IsEntry(e) /\ Full(e)
  BY <1>1, SplitStackContinues, SplitStackHolds
<1> HIDE DEF e
<1>3. SetEntry(st, k, e).proxies = st.proxies
  BY DEF SetEntry, Sound, IsStorage
<1>4. tt = [SetEntry(st, k, e) EXCEPT !.proxies = p]
  BY <1>3 DEF SplitOff, e
<1> HIDE DEF p, tt
<1>5. /\ tt.entries = [l \in DOMAIN st.entries \cup {k} |-> IF l = k THEN e ELSE st.entries[l]]
      /\ tt.proxies = p
  BY <1>4, SetEntryEntries
<1>6. Live(tt)
  BY <1>2, <1>5, ChangedLive DEF p
<1> QED
  BY <1>6 DEF tt

\* Clear leaves a storage live.
LEMMA ClearedLive ==
    ASSUME NEW st, Live(st), NEW kept
    PROVE  Live(Cleared(st, kept))
<1> DEFINE lost == DOMAIN st.entries \ kept
           left == WithoutEntries(st, lost)
           tt == Cleared(st, kept)
<1>1. left = [entries |-> left.entries, keyGen |-> left.keyGen, proxies |-> left.proxies]
  BY DEF WithoutEntries
<1>2. left.entries = [k \in DOMAIN st.entries \ lost |-> st.entries[k]]
  BY DEF WithoutEntries
<1>3. \A a \in DOMAIN left.proxies : a \in DOMAIN st.proxies /\ left.proxies[a] = st.proxies[a]
  BY DEF WithoutEntries
<1> HIDE DEF left
<1>4. /\ [left EXCEPT !.keyGen = KeyGenReset].entries = left.entries
      /\ [left EXCEPT !.keyGen = KeyGenReset].proxies = left.proxies
  BY <1>1
<1>5. tt.entries = left.entries /\ tt.proxies = left.proxies
  BY <1>4 DEF Cleared, left
<1> HIDE DEF tt, lost
<1>6. tt.entries = [k \in DOMAIN st.entries \ lost |-> st.entries[k]]
  BY <1>2, <1>5
<1>7. \A a \in DOMAIN tt.proxies : a \in DOMAIN st.proxies /\ tt.proxies[a] = st.proxies[a]
  BY <1>3, <1>5
<1>8. Live(tt)
  BY <1>6, <1>7, WithoutEntriesLive
<1> QED
  BY <1>8 DEF tt

\* FindEntry finds an entry that holds the item whenever there is one.
LEMMA FindEntryFinds ==
    ASSUME NEW st, Sound(st), NEW i, Holding(st, i) # {}
    PROVE  FindEntry(st, i) \in DOMAIN st.entries /\ st.entries[FindEntry(st, i)].item = i
<1>1. Holding(st, i) \subseteq Int /\ IsFiniteSet(Holding(st, i))
  <2>1. KeyGenReset + 1 \in Int /\ st.keyGen \in Int
    BY DEF Sound, IsStorage, KeyGenReset
  <2>2. IsFiniteSet((KeyGenReset + 1)..st.keyGen)
    BY ONLY <2>1, FS_Interval
  <2>3. Holding(st, i) \in SUBSET ((KeyGenReset + 1)..st.keyGen)
    BY DEF Holding, Sound, IsStorage
  <2> QED
    BY <2>1, <2>2, <2>3, FS_Subset
<1>2. \E k \in Holding(st, i) : \A j \in Holding(st, i) : k <= j
  BY <1>1, LeastInteger
<1>3. FindEntry(st, i) \in Holding(st, i)
  BY <1>2 DEF FindEntry
<1> QED
  BY <1>3 DEF Holding

LiveInv == \A s \in Storages : Live(store[s])

\* A call that changes one storage and leaves it live.
LEMMA OneStorageLive ==
    ASSUME StoreInv, LiveInv, NEW s \in Storages, NEW tt, store' = [store EXCEPT ![s] = tt], Live(tt)
    PROVE  LiveInv'
<1>1. store'[s] = tt /\ \A x \in Storages : x # s => store'[x] = store[x]
  BY DEF StoreInv
<1> QED
  BY <1>1 DEF LiveInv

\* A call that changes the proxies of one storage, which know their stacks.
LEMMA ProxiesLive ==
    ASSUME StoreInv, LiveInv, NEW s \in Storages, NEW p, store' = [store EXCEPT ![s].proxies = p],
           \A a \in DOMAIN p : p[a] >= -1 /\ (Contains(store[s], a[1], a[2]) => p[a] >= 0)
    PROVE  LiveInv'
<1> DEFINE st == store[s]
           tt == [entries |-> st.entries, keyGen |-> st.keyGen, proxies |-> p]
<1>1. st = [entries |-> st.entries, keyGen |-> st.keyGen, proxies |-> st.proxies] /\ Live(st)
  BY StorageFacts DEF LiveInv
<1>2. \A a \in DOMAIN p : p[a] >= -1 /\ (Contains(st, a[1], a[2]) => p[a] >= 0)
  OBVIOUS
<1>3. store' = [store EXCEPT ![s] = [st EXCEPT !.proxies = p]]
  OBVIOUS
<1> HIDE DEF st
<1>4. [st EXCEPT !.proxies = p] = tt
  BY <1>1
<1>5. store' = [store EXCEPT ![s] = tt]
  BY <1>3, <1>4
<1>6. tt.entries = st.entries /\ tt.proxies = p
  OBVIOUS
<1> HIDE DEF tt
<1>7. Live(tt)
  BY <1>1, <1>2, <1>6 DEF Live, Filling, ProxiesKnow, Contains
<1> QED
  BY <1>5, <1>7, OneStorageLive

\* A move leaves both storages live.
LEMMA MovedLive ==
    ASSUME StoreInv, LiveInv, NEW s \in Storages, NEW t \in Storages, s # t,
           NEW taken, NEW i \in Items, NEW n \in Nat \ {0}, NEW f \in BOOLEAN,
           NEW released, NEW d, Live(taken), Moved(s, t, taken, i, n, f, released, d)
    PROVE  LiveInv'
<1>1. Live(Added(store[t], i, n, f))
  BY AddedLive, StorageFacts DEF LiveInv
<1>2. /\ store'[s] = taken /\ store'[t] = Added(store[t], i, n, f)
      /\ \A x \in Storages \ {s, t} : store'[x] = store[x]
  BY DEF Moved, StoreInv
<1> QED
  BY <1>1, <1>2 DEF LiveInv

\* Every call leaves every storage live when the amounts split off are positive.
LEMMA NextLive ==
    ASSUME SplitAmounts \subseteq Nat \ {0}, StoreInv, LiveInv, Next
    PROVE  LiveInv'
<1>1. \A n \in Amounts : IsAmount(n) /\ n \in Int
  BY InputsAssumption DEF Amounts, IsAmount, EntireStack
<1>2. ASSUME NEW s \in Storages, StorageCall(s) PROVE LiveInv'
  <2>1. Sound(store[s]) /\ Live(store[s])
    BY StorageFacts DEF LiveInv
  <2>2. ASSUME NEW i \in Items, NEW n \in 1..loose[i], NEW f \in BOOLEAN, NEW v \in Verdicts,
               AddItemStack(s, i, n, f, v)
        PROVE  LiveInv'
    <3>1. n \in Nat \ {0}
      OBVIOUS
    <3>2. Live(Added(store[s], i, n, f))
      BY <2>1, <3>1, AddedLive
    <3> QED
      BY <2>2, <3>2, OneStorageLive DEF AddItemStack
  <2>3. ASSUME NEW tag \in RemovalTags, NEW kept \in SUBSET DOMAIN store[s].entries,
               Clear(s, kept, tag)
        PROVE  LiveInv'
    <3>1. Live(Cleared(store[s], kept))
      BY <2>1, ClearedLive
    <3> QED
      BY <2>3, <3>1, OneStorageLive DEF Clear
  <2>4. ASSUME NEW k \in DOMAIN store[s].entries, NEW v \in Verdicts,
               NEW n \in Amounts, NEW tag \in RemovalTags, RemoveFromEntry(s, k, n, tag, v)
        PROVE  LiveInv'
    <3>1. Live(RemovedFromEntry(store[s], k, n))
      BY <1>1, <2>1, RemovedFromEntryLive
    <3> QED
      BY <2>4, <3>1, OneStorageLive DEF RemoveFromEntry
  <2>5. ASSUME NEW k \in DOMAIN store[s].entries, NEW v \in Verdicts,
               NEW j \in DOMAIN store[s].entries[k].stacks,
               NEW n \in Amounts, NEW tag \in RemovalTags, RemoveFromStack(s, k, j, n, tag, v)
        PROVE  LiveInv'
    <3>1. Live(RemovedFromStack(store[s], k, j, n))
      BY <1>1, <2>1, RemovedFromStackLive
    <3> QED
      BY <2>5, <3>1, OneStorageLive DEF RemoveFromStack
  <2>6. ASSUME NEW k \in DOMAIN store[s].entries, NEW v \in Verdicts,
               NEW j \in DOMAIN store[s].entries[k].stacks,
               NEW n \in SplitAmounts, Split(s, k, j, n, v)
        PROVE  LiveInv'
    <3>1. Live(SplitOff(store[s], k, j, n))
      BY <2>1, <2>6, SplitOffLive DEF Split
    <3> QED
      BY <2>6, <3>1, OneStorageLive DEF Split
  <2>7. ASSUME NEW k \in DOMAIN store[s].entries, NEW v \in Verdicts,
               NEW j \in DOMAIN store[s].entries[k].stacks,
               NEW from \in StackKeys, MergeStacks(s, k, from, j, v)
        PROVE  LiveInv'
    BY <2>7 DEF MergeStacks, LiveInv
  <2>8. ASSUME NEW a \in Watched, RequestProxy(s, a)
        PROVE  LiveInv'
    <3> DEFINE old == store[s].proxies
               p == [b \in DOMAIN old \cup {a} |->
                        IF b # a THEN old[b]
                        ELSE IF Contains(store[s], a[1], a[2]) THEN 0 ELSE -1]
    <3>1. store' = [store EXCEPT ![s].proxies = p]
      BY <2>8 DEF RequestProxy
    <3>2. \A b \in DOMAIN p : p[b] >= -1 /\ (Contains(store[s], b[1], b[2]) => p[b] >= 0)
      BY <2>1 DEF Live, ProxiesKnow
    <3> HIDE DEF p
    <3> QED
      BY <3>1, <3>2, ProxiesLive
  <2>9. ASSUME NEW a \in Watched, DropProxy(s, a)
        PROVE  LiveInv'
    <3> DEFINE old == store[s].proxies
               p == [b \in DOMAIN old \ {a} |-> old[b]]
    <3>1. store' = [store EXCEPT ![s].proxies = p]
      BY <2>9 DEF DropProxy
    <3>2. \A b \in DOMAIN p : p[b] >= -1 /\ (Contains(store[s], b[1], b[2]) => p[b] >= 0)
      BY <2>1 DEF Live, ProxiesKnow
    <3> HIDE DEF p
    <3> QED
      BY <3>1, <3>2, ProxiesLive
  <2> QED
    BY <1>2, <2>2, <2>3, <2>4, <2>5, <2>6, <2>7, <2>8, <2>9 DEF StorageCall
<1>3. ASSUME NEW i \in Mutables, MutateItem(i) PROVE LiveInv'
  <2> DEFINE s == owner[i]
             st == store[s]
             k == FindEntry(st, i)
             p == PostContentChanged(st.proxies, k, st.entries[k])
  <2>1. s \in Storages /\ Holding(st, i) # {} /\ store' = [store EXCEPT ![s].proxies = p]
    BY <1>3 DEF MutateItem
  <2>2. Sound(st) /\ Live(st)
    BY <2>1, StorageFacts DEF LiveInv
  <2>3. k \in DOMAIN st.entries
    BY <2>1, <2>2, FindEntryFinds
  <2>4. \A a \in DOMAIN p : p[a] >= -1 /\ (Contains(st, a[1], a[2]) => p[a] >= 0)
    <3> SUFFICES ASSUME NEW a \in DOMAIN p
                 PROVE  p[a] >= -1 /\ (Contains(st, a[1], a[2]) => p[a] >= 0)
      OBVIOUS
    <3>1. a \in DOMAIN st.proxies /\ (p[a] = st.proxies[a] \/ p[a] = Bump(st.proxies[a]))
      BY DEF PostContentChanged
    <3> HIDE DEF p, k, st
    <3>2. st.proxies[a] \in Int /\ st.proxies[a] >= -1
      BY <2>2, <3>1 DEF Sound, IsStorage, Live, ProxiesKnow
    <3>3. Bump(st.proxies[a]) \in Int /\ Bump(st.proxies[a]) >= 0
      BY <3>2, BumpInt, BumpCounts
    <3> QED
      BY <2>2, <3>1, <3>2, <3>3 DEF Live, ProxiesKnow
  <2> HIDE DEF p, s
  <2> QED
    BY <2>1, <2>4, ProxiesLive
<1>4. ASSUME NEW s \in Storages, NEW t \in Storages, TransferCall(s, t) PROVE LiveInv'
  <2>1. Sound(store[s]) /\ Live(store[s])
    BY StorageFacts DEF LiveInv
  <2>2. ASSUME NEW k \in DOMAIN store[s].entries, NEW f \in BOOLEAN,
               NEW v \in Verdicts, NEW w \in Verdicts, MoveEntry(s, t, k, f, v, w)
        PROVE  LiveInv'
    <3> DEFINE taken == WithoutEntry(store[s], k)
               m == StackSum(store[s].entries[k])
               i == store[s].entries[k].item
               d == EntryRemovalEvent(store[s], k, EntireStack)
    <3>1. Live(taken) /\ m \in Int /\ i \in Items
      BY <2>1, WithoutEntryLive, StorageFacts
    <3>2. m \in Nat \ {0} /\ s # t
      BY <2>2, <3>1 DEF MoveEntry, CanAddStack
    <3>3. Moved(s, t, taken, i, m, f, TRUE, d)
      BY <2>2 DEF MoveEntry
    <3> HIDE DEF taken, m, i, d
    <3> QED
      BY <3>1, <3>2, <3>3, MovedLive
  <2>3. ASSUME NEW k \in DOMAIN store[s].entries, NEW f \in BOOLEAN,
               NEW v \in Verdicts, NEW w \in Verdicts,
               NEW j \in DOMAIN store[s].entries[k].stacks, NEW n \in Amounts,
               MoveStack(s, t, k, j, n, f, v, w)
        PROVE  LiveInv'
    <3> DEFINE taken == RemovedFromStack(store[s], k, j, n)
               m == StackRemovalAmount(store[s], k, j, n)
               i == store[s].entries[k].item
               released == RemovesOnlyStack(store[s], k, j, n)
               d == StackRemovalEvent(store[s], k, j, n)
    <3>1. Live(taken) /\ m \in Int /\ i \in Items
      BY <1>1, <2>1, RemovedFromStackLive, RemovedFromStackSound, StorageFacts
    <3>2. m \in Nat \ {0} /\ s # t
      BY <2>3, <3>1 DEF MoveStack, CanAddStack
    <3>3. Moved(s, t, taken, i, m, f, released, d)
      BY <2>3 DEF MoveStack
    <3> HIDE DEF taken, m, i, released, d
    <3> QED
      BY <3>1, <3>2, <3>3, MovedLive
  <2> QED
    BY <1>4, <2>2, <2>3 DEF TransferCall
<1> QED
  BY <1>2, <1>3, <1>4 DEF Next

LEMMA InitLive == Init => LiveInv
<1> SUFFICES ASSUME Init, NEW s \in Storages PROVE Live(store[s])
  BY DEF LiveInv
<1>1. store[s].entries = <<>> /\ store[s].proxies = <<>>
  BY DEF Init, EmptyStorage
<1>2. DOMAIN <<>> = {}
  OBVIOUS
<1> QED
  BY <1>1, <1>2 DEF Live, Filling, ProxiesKnow

\* A proxy whose stack is there has a version, whether it was asked for before
\* or after the stack came: as long as no caller splits off less than one copy
\* (SplitStack lets that pass, and such an entry's proxies are told nothing).
THEOREM ProxiesLearn ==
    SplitAmounts \subseteq Nat \ {0} => (Spec => []ProxiesOfStacksAreLive)
<1> SUFFICES ASSUME SplitAmounts \subseteq Nat \ {0} PROVE Spec => []ProxiesOfStacksAreLive
  OBVIOUS
<1>1. Init => LiveInv
  BY InitLive
<1>2. IInv /\ LiveInv /\ [Next]_vars => LiveInv'
  <2> SUFFICES ASSUME IInv, LiveInv, [Next]_vars PROVE LiveInv'
    OBVIOUS
  <2>1. CASE Next
    BY <2>1, NextLive DEF IInv
  <2>2. CASE UNCHANGED vars
    BY <2>2 DEF vars, LiveInv
  <2> QED
    BY <2>1, <2>2
<1>3. LiveInv => ProxiesOfStacksAreLive
  BY DEF LiveInv, Live, ProxiesKnow, ProxiesOfStacksAreLive
<1> QED
  BY <1>1, <1>2, <1>3, Invariance, PTL DEF Spec

-----------------------------------------------------------------------------
(* Owners.  The copy of a mutable item is in one stack of one storage, the   *)
(* one its mutation hook is bound to, or loose.                              *)

MutablesIn(st) == {i \in Mutables : Holding(st, i) # {}}

\* Each mutable item a storage holds is one stack of one copy in one entry.
Solitary(st) ==
    \A k \in DOMAIN st.entries : st.entries[k].item \in Mutables =>
        /\ \E j : DOMAIN st.entries[k].stacks = {j} /\ st.entries[k].stacks[j] = 1
        /\ \A l \in DOMAIN st.entries : st.entries[l].item = st.entries[k].item => l = k

OwnInv ==
    /\ \A s \in Storages : Solitary(store[s])
    /\ \A i \in Mutables :
          /\ \A s \in Storages : i \in MutablesIn(store[s]) <=> owner[i] = s
          /\ loose[i] <= (IF owner[i] = NoOwner THEN 1 ELSE 0)

\* The stacks of such an entry sum up to the one copy.
LEMMA SolitarySum ==
    ASSUME NEW st, Sound(st), Solitary(st), NEW k \in DOMAIN st.entries,
           st.entries[k].item \in Mutables
    PROVE  StackSum(st.entries[k]) = 1
<1> DEFINE e == st.entries[k]
<1>1. PICK j : DOMAIN e.stacks = {j} /\ e.stacks[j] = 1
  BY DEF Solitary
<1>2. StackSum(e) = e.stacks[j]
  BY <1>1, SumOverOne DEF StackSum
<1> QED
  BY <1>1, <1>2

\* An edit of an entry of an immutable item.
LEMMA EditedSolitary ==
    ASSUME NEW st, Solitary(st), NEW k \in DOMAIN st.entries, NEW e, NEW tt,
           e.item = st.entries[k].item, e.item \notin Mutables,
           tt.entries = [j \in DOMAIN st.entries \cup {k} |-> IF j = k THEN e ELSE st.entries[j]]
    PROVE  Solitary(tt) /\ MutablesIn(tt) = MutablesIn(st)
<1>1. /\ DOMAIN tt.entries = DOMAIN st.entries
      /\ \A j \in DOMAIN st.entries : tt.entries[j].item = st.entries[j].item
      /\ \A j \in DOMAIN st.entries : j # k => tt.entries[j] = st.entries[j]
      /\ tt.entries[k] = e
  OBVIOUS
<1>2. Solitary(tt)
  BY <1>1 DEF Solitary
<1>3. \A i : Holding(tt, i) = Holding(st, i)
  BY <1>1 DEF Holding
<1> QED
  BY <1>2, <1>3 DEF MutablesIn

\* A new entry, of an item that was not there.
LEMMA AppendedSolitary ==
    ASSUME NEW st, Solitary(st), NEW k, k \notin DOMAIN st.entries, NEW e, NEW tt,
           e.item \in Mutables =>
               /\ e.item \notin MutablesIn(st)
               /\ \E j : DOMAIN e.stacks = {j} /\ e.stacks[j] = 1,
           tt.entries = [j \in DOMAIN st.entries \cup {k} |-> IF j = k THEN e ELSE st.entries[j]]
    PROVE  Solitary(tt) /\ MutablesIn(tt) = MutablesIn(st) \cup ({e.item} \cap Mutables)
<1>1. /\ DOMAIN tt.entries = DOMAIN st.entries \cup {k}
      /\ \A j \in DOMAIN st.entries : tt.entries[j] = st.entries[j]
      /\ tt.entries[k] = e
  OBVIOUS
<1>2. e.item \in Mutables => \A j \in DOMAIN st.entries : st.entries[j].item # e.item
  BY DEF MutablesIn, Holding
<1>3. Solitary(tt)
  BY <1>1, <1>2 DEF Solitary
<1>4. \A i : Holding(tt, i) # {} <=> Holding(st, i) # {} \/ i = e.item
  BY <1>1 DEF Holding
<1> QED
  BY <1>3, <1>4 DEF MutablesIn

\* The items of the entries whose keys are among these.
ItemsAt(st, ks) == {st.entries[k].item : k \in DOMAIN st.entries \cap ks}

\* Entries that go take their items with them.
LEMMA WithoutSolitary ==
    ASSUME NEW st, Solitary(st), NEW ks, NEW tt,
           tt.entries = [k \in DOMAIN st.entries \ ks |-> st.entries[k]]
    PROVE  /\ Solitary(tt)
           /\ MutablesIn(tt) = MutablesIn(st) \ ItemsAt(st, ks)
<1>1. /\ DOMAIN tt.entries = DOMAIN st.entries \ ks
      /\ \A j \in DOMAIN tt.entries : tt.entries[j] = st.entries[j]
  OBVIOUS
<1>2. Solitary(tt)
  BY <1>1 DEF Solitary
<1>3. ASSUME NEW i \in Mutables
      PROVE  Holding(tt, i) # {} <=>
                Holding(st, i) # {} /\ i \notin ItemsAt(st, ks)
  BY <1>1 DEF Holding, Solitary, ItemsAt
<1> QED
  BY <1>2, <1>3 DEF MutablesIn

\* One copy of a mutable item is one stack of one copy.
LEMMA NewMutableEntry ==
    ASSUME NEW i \in Mutables
    PROVE  \E j : /\ DOMAIN NewEntry(i, StackLimit[i], 1).stacks = {j}
                  /\ NewEntry(i, StackLimit[i], 1).stacks[j] = 1
<1>1. StackLimit[i] = 1
  BY ItemsAssumption
<1>2. StacksNeeded(1, 1) = 1
  BY DEF StacksNeeded, UnlimitedStack
<1> DEFINE e == NewEntry(i, 1, 1)
<1>3. e.stacks = [k \in 101..101 |-> IF 1 = -1 THEN 1 ELSE Lesser(1, 1 - 1 * (k - 100 - 1))]
  BY <1>2 DEF NewEntry, KeyGenReset, UnlimitedStack
<1>4. DOMAIN e.stacks = {101}
  BY <1>3
<1>5. e.stacks[101] = 1
  BY <1>3 DEF Lesser
<1> QED
  BY <1>1, <1>4, <1>5

\* An addition to a storage that does not hold the item if it is mutable.
LEMMA AddedSolitary ==
    ASSUME NEW st, Sound(st), Solitary(st), NEW i \in Items, NEW n \in Nat \ {0},
           NEW f \in BOOLEAN, i \in Mutables => i \notin MutablesIn(st) /\ n = 1
    PROVE  /\ Solitary(Added(st, i, n, f))
           /\ MutablesIn(Added(st, i, n, f)) = MutablesIn(st) \cup ({i} \cap Mutables)
<1> DEFINE k == KeyOfAddition(st, i)
           e == EntryOfAddition(st, i, n, f)
           tt == Added(st, i, n, f)
<1>1. tt.entries = [j \in DOMAIN st.entries \cup {k} |-> IF j = k THEN e ELSE st.entries[j]]
  BY AddedEntries
<1>2. CASE Joins(st, i)
  <2>1. k \in DOMAIN st.entries /\ k = FindEntry(st, i) /\ st.entries[k].item = i
    BY <1>2, FindsEntry DEF KeyOfAddition
  <2>2. IsEntry(st.entries[k])
    BY <2>1 DEF Sound, IsStorage
  <2>3. e.item = i
    <3>1. \/ e = AddToNewStacks(st.entries[k], n)
          \/ e = AddToAnyStack(st.entries[k], n)
      BY <1>2, <2>1 DEF EntryOfAddition
    <3> HIDE DEF e, k
    <3> QED
      BY <2>1, <2>2, <3>1, AddToNewStacksContinues, AddToAnyStackContinues DEF Continues
  <2>4. i \notin Mutables
    BY <1>2 DEF Joins
  <2> HIDE DEF e, k, tt
  <2>5. Solitary(tt) /\ MutablesIn(tt) = MutablesIn(st)
    BY <1>1, <2>1, <2>3, <2>4, EditedSolitary
  <2> QED
    BY <2>4, <2>5 DEF tt
<1>3. CASE ~Joins(st, i)
  <2>1. k \notin DOMAIN st.entries
    BY <1>3, AddedEntries
  <2>2. e = NewEntry(i, StackLimit[i], n)
    BY <1>3 DEF EntryOfAddition
  <2>3. e.item = i
    BY <2>2 DEF NewEntry
  <2>4. i \in Mutables => \E j : DOMAIN e.stacks = {j} /\ e.stacks[j] = 1
    BY <2>2, NewMutableEntry
  <2> HIDE DEF e, k, tt
  <2>5. Solitary(tt) /\ MutablesIn(tt) = MutablesIn(st) \cup ({e.item} \cap Mutables)
    BY <1>1, <2>1, <2>3, <2>4, AppendedSolitary
  <2> QED
    BY <2>3, <2>5 DEF tt
<1> QED
  BY <1>2, <1>3

\* What is left when i is removed: whole, or in part if it is not mutable.
LeftOf(st, tt, i, whole) ==
    /\ Solitary(tt)
    /\ MutablesIn(tt) = IF whole THEN MutablesIn(st) \ {i} ELSE MutablesIn(st)
    /\ i \in Mutables => whole

\* EntryMap.Remove takes the entry's item out of the storage.
LEMMA WithoutEntryLeaves ==
    ASSUME NEW st, Solitary(st), NEW k \in DOMAIN st.entries
    PROVE  LeftOf(st, WithoutEntry(st, k), st.entries[k].item, TRUE)
<1> DEFINE tt == WithoutEntry(st, k)
<1>1. tt.entries = [j \in DOMAIN st.entries \ {k} |-> st.entries[j]]
  BY DEF WithoutEntry
<1> HIDE DEF tt
<1>2. Solitary(tt) /\ MutablesIn(tt) = MutablesIn(st) \ ItemsAt(st, {k})
  BY ONLY Solitary(st), <1>1, WithoutSolitary
<1>3. ItemsAt(st, {k}) = {st.entries[k].item}
  BY DEF ItemsAt
<1> QED
  BY <1>2, <1>3 DEF LeftOf, tt

\* RemoveFromEntryImplNoBroadcast takes a mutable item out, always.
LEMMA RemovedFromEntryLeaves ==
    ASSUME NEW st, Sound(st), Solitary(st), NEW k \in DOMAIN st.entries, NEW n, IsAmount(n)
    PROVE  /\ LeftOf(st, RemovedFromEntry(st, k, n), st.entries[k].item, RemovesEntry(st, k, n))
           /\ st.entries[k].item \in Mutables => EntryRemovalEvent(st, k, n).amount = 1
<1> DEFINE i == st.entries[k].item
<1>1. i \in Mutables => StackSum(st.entries[k]) = 1
  BY SolitarySum
<1>2. i \in Mutables => RemovesEntry(st, k, n)
  BY <1>1 DEF RemovesEntry, IsAmount
<1>3. CASE RemovesEntry(st, k, n)
  <2>1. RemovedFromEntry(st, k, n) = WithoutEntry(st, k)
    BY <1>3 DEF RemovedFromEntry
  <2>2. EntryRemovalEvent(st, k, n).amount = StackSum(st.entries[k])
    BY <1>3 DEF EntryRemovalEvent, Event
  <2>3. LeftOf(st, WithoutEntry(st, k), i, TRUE)
    BY WithoutEntryLeaves
  <2> QED
    BY <1>1, <1>3, <2>1, <2>2, <2>3
<1>4. CASE ~RemovesEntry(st, k, n)
  <2> DEFINE e == RemoveFromAnyStack(st.entries[k], n)
             p == IF PartlyRemoved(st.entries[k], n) = {} THEN st.proxies
                  ELSE PostContentChanged(st.proxies, k, e)
             tt == RemovedFromEntry(st, k, n)
  <2>1. IsEntry(st.entries[k]) /\ n \in Int
    BY <1>4 DEF Sound, IsStorage, IsAmount, RemovesEntry
  <2>2. e.item = i
    BY <2>1, RemoveFromAnyStackContinues DEF Continues
  <2>3. SetEntry(st, k, e).proxies = st.proxies
    BY DEF SetEntry, Sound, IsStorage
  <2> HIDE DEF e
  <2>4. tt = [SetEntry(st, k, e) EXCEPT !.proxies = p]
    BY <1>4, <2>3 DEF RemovedFromEntry, e
  <2> HIDE DEF tt, p
  <2>5. tt.entries = [j \in DOMAIN st.entries \cup {k} |-> IF j = k THEN e ELSE st.entries[j]]
    BY <2>4, SetEntryEntries
  <2>6. Solitary(tt) /\ MutablesIn(tt) = MutablesIn(st)
    BY <1>2, <1>4, <2>2, <2>5, EditedSolitary
  <2> QED
    BY <1>2, <1>4, <2>6 DEF LeftOf, tt
<1> QED
  BY <1>3, <1>4

\* RemoveFromStackImpl does too.
LEMMA RemovedFromStackLeaves ==
    ASSUME NEW st, Sound(st), Solitary(st), NEW k \in DOMAIN st.entries,
           NEW j \in DOMAIN st.entries[k].stacks, NEW n, IsAmount(n)
    PROVE  /\ LeftOf(st, RemovedFromStack(st, k, j, n), st.entries[k].item,
                     RemovesOnlyStack(st, k, j, n))
           /\ st.entries[k].item \in Mutables => StackRemovalAmount(st, k, j, n) = 1
<1> DEFINE e == st.entries[k]
           i == e.item
           m == StackRemovalAmount(st, k, j, n)
<1>1. IsEntry(e) /\ e.stacks[j] \in Int
  BY DEF Sound, IsStorage, IsEntry
<1>2. i \in Mutables => DOMAIN e.stacks = {j} /\ e.stacks[j] = 1
  BY DEF Solitary
<1>3. i \in Mutables => m = 1
  BY <1>2 DEF StackRemovalAmount, Lesser, IsAmount, EntireStack
<1>4. i \in Mutables => RemovesOnlyStack(st, k, j, n)
  BY <1>2, <1>3 DEF RemovesOnlyStack, IsOnlyStack
<1>5. CASE RemovesOnlyStack(st, k, j, n)
  <2>1. RemovedFromStack(st, k, j, n) = WithoutEntry(st, k)
    BY <1>5 DEF RemovedFromStack
  <2>2. LeftOf(st, WithoutEntry(st, k), i, TRUE)
    BY WithoutEntryLeaves
  <2> QED
    BY <1>3, <1>5, <2>1, <2>2
<1>6. CASE ~RemovesOnlyStack(st, k, j, n)
  <2> DEFINE x == IF m = e.stacks[j] THEN RemoveStack(e, j) ELSE SetStack(e, j, e.stacks[j] - m)
             tt == RemovedFromStack(st, k, j, n)
  <2>1. tt = SetEntry(st, k, x)
    BY <1>6 DEF RemovedFromStack
  <2>2. m \in Int
    BY <1>1 DEF StackRemovalAmount, Lesser, IsAmount
  <2>3. x.item = i
    BY <1>1, <2>2, RemoveStackContinues, SetStackContinues DEF Continues
  <2> HIDE DEF x, tt
  <2>4. tt.entries = [l \in DOMAIN st.entries \cup {k} |-> IF l = k THEN x ELSE st.entries[l]]
    BY <2>1, SetEntryEntries
  <2>5. Solitary(tt) /\ MutablesIn(tt) = MutablesIn(st)
    BY <1>4, <1>6, <2>3, <2>4, EditedSolitary
  <2> QED
    BY <1>3, <1>4, <1>6, <2>5 DEF LeftOf, tt
<1> QED
  BY <1>5, <1>6

\* SplitStack finds no stack of a mutable item to split.
LEMMA SplitOffSolitary ==
    ASSUME NEW st, Sound(st), Solitary(st), NEW k \in DOMAIN st.entries,
           NEW j \in DOMAIN st.entries[k].stacks, NEW n \in Nat \ {0},
           n < st.entries[k].stacks[j]
    PROVE  Solitary(SplitOff(st, k, j, n)) /\ MutablesIn(SplitOff(st, k, j, n)) = MutablesIn(st)
<1> DEFINE e == SplitStack(st.entries[k], j, n)
           p == PostContentChanged(st.proxies, k, e)
           tt == SplitOff(st, k, j, n)
<1>1. e.item = st.entries[k].item
  BY DEF SplitStack
<1>2. st.entries[k].item \notin Mutables
  BY DEF Solitary
<1>3. SetEntry(st, k, e).proxies = st.proxies
  BY DEF SetEntry, Sound, IsStorage
<1> HIDE DEF e
<1>4. tt = [SetEntry(st, k, e) EXCEPT !.proxies = p]
  BY <1>3 DEF SplitOff, e
<1> HIDE DEF p, tt
<1>5. tt.entries = [l \in DOMAIN st.entries \cup {k} |-> IF l = k THEN e ELSE st.entries[l]]
  BY <1>4, SetEntryEntries
<1>6. Solitary(tt) /\ MutablesIn(tt) = MutablesIn(st)
  BY <1>1, <1>2, <1>5, EditedSolitary
<1> QED
  BY <1>6 DEF tt

\* Clear takes the items of the entries it removes out.
LEMMA ClearedSolitary ==
    ASSUME NEW st, Sound(st), Solitary(st), NEW kept
    PROVE  LET lost == DOMAIN st.entries \ kept
               items == {st.entries[k].item : k \in lost}
           IN  /\ Solitary(Cleared(st, kept))
               /\ MutablesIn(Cleared(st, kept)) = MutablesIn(st) \ items
               /\ \A i \in Mutables :
                     ClearedCopies(st, kept, i) = (IF i \in items THEN 1 ELSE 0)
<1> DEFINE lost == DOMAIN st.entries \ kept
           items == {st.entries[k].item : k \in lost}
           left == WithoutEntries(st, lost)
           tt == Cleared(st, kept)
<1>1. left = [entries |-> left.entries, keyGen |-> left.keyGen, proxies |-> left.proxies]
  BY DEF WithoutEntries
<1>2. left.entries = [k \in DOMAIN st.entries \ lost |-> st.entries[k]]
  BY DEF WithoutEntries
<1> HIDE DEF left
<1>3. tt.entries = left.entries
  <2>1. [left EXCEPT !.keyGen = KeyGenReset].entries = left.entries
    BY <1>1
  <2> QED
    BY <2>1 DEF Cleared, left
<1> HIDE DEF tt, lost
<1>5. tt.entries = [k \in DOMAIN st.entries \ lost |-> st.entries[k]]
  BY <1>2, <1>3
<1>6. Solitary(tt) /\ MutablesIn(tt) = MutablesIn(st) \ ItemsAt(st, lost)
  BY ONLY Solitary(st), <1>5, WithoutSolitary
<1> USE DEF lost
<1>7. ASSUME NEW i \in Mutables
      PROVE  ClearedCopies(st, kept, i) = (IF i \in items THEN 1 ELSE 0)
  <2> DEFINE held == {k \in lost : st.entries[k].item = i}
             sums == [k \in held |-> StackSum(st.entries[k])]
  <2>1. ClearedCopies(st, kept, i) = SumOver(sums, held)
    BY DEF ClearedCopies
  <2>2. CASE i \notin items
    <3>1. held = {}
      BY <2>2
    <3> QED
      BY <2>1, <2>2, <3>1, SumOverNone
  <2>3. CASE i \in items
    <3>1. PICK k \in lost : st.entries[k].item = i
      BY <2>3
    <3>2. held = {k}
      BY <3>1 DEF Solitary
    <3>3. sums[k] = 1
      BY <3>1, <3>2, SolitarySum
    <3> HIDE DEF sums, held
    <3>4. SumOver(sums, {k}) = 1
      BY <3>3, SumOverOne
    <3> QED
      BY <2>1, <2>3, <3>2, <3>4
  <2> QED
    BY <2>2, <2>3
<1>8. ItemsAt(st, lost) = items
  BY DEF ItemsAt
<1> QED
  BY <1>6, <1>7, <1>8 DEF tt

\* A call on one storage: each mutable item stays, comes or goes.
LEMMA OneStorageOwns ==
    ASSUME IInv, OwnInv, NEW s \in Storages, NEW tt, store' = [store EXCEPT ![s] = tt], Solitary(tt),
           \A i \in Mutables :
              \/ /\ i \in MutablesIn(tt) <=> i \in MutablesIn(store[s])
                 /\ owner'[i] = owner[i] /\ loose'[i] = loose[i]
              \/ /\ i \in MutablesIn(tt)
                 /\ owner[i] = NoOwner /\ owner'[i] = s /\ loose'[i] = loose[i] - 1
              \/ /\ i \in MutablesIn(store[s]) /\ i \notin MutablesIn(tt)
                 /\ owner'[i] = NoOwner /\ loose'[i] = loose[i] + 1
    PROVE  OwnInv'
<1>1. store'[s] = tt /\ \A x \in Storages : x # s => store'[x] = store[x]
  BY DEF IInv, StoreInv
<1>2. ASSUME NEW x \in Storages PROVE Solitary(store'[x])
  BY <1>1 DEF OwnInv
<1>3. ASSUME NEW i \in Mutables
      PROVE  /\ \A x \in Storages : i \in MutablesIn(store'[x]) <=> owner'[i] = x
             /\ loose'[i] <= (IF owner'[i] = NoOwner THEN 1 ELSE 0)
  <2>1. loose[i] \in Int /\ NoOwner \notin Storages /\ i \in Items
    BY InputsAssumption, ItemsAssumption DEF IInv, RestInv
  <2>2. /\ \A x \in Storages : i \in MutablesIn(store[x]) <=> owner[i] = x
        /\ loose[i] <= (IF owner[i] = NoOwner THEN 1 ELSE 0)
    BY DEF OwnInv
  <2> QED
    BY <1>1, <2>1, <2>2
<1> QED
  BY <1>2, <1>3 DEF OwnInv

\* A call that leaves entries, owners and loose copies alone.
LEMMA SameItemsOwn ==
    ASSUME IInv, OwnInv, UNCHANGED <<owner, loose>>,
           \A s \in Storages : store'[s].entries = store[s].entries
    PROVE  OwnInv'
BY DEF OwnInv, Solitary, MutablesIn, Holding

\* A mutable item that is out of every storage is one copy.
LEMMA LooseOwn ==
    ASSUME OwnInv, NEW i \in Mutables, NEW n \in 1..loose[i], loose[i] \in Int
    PROVE  n = 1 /\ owner[i] = NoOwner /\ \A s \in Storages : i \notin MutablesIn(store[s])
<1>1. /\ \A s \in Storages : i \in MutablesIn(store[s]) <=> owner[i] = s
      /\ loose[i] <= (IF owner[i] = NoOwner THEN 1 ELSE 0)
  BY DEF OwnInv
<1> QED
  BY <1>1, InputsAssumption

\* A removal from one storage that releases the item it removes whole.
LEMMA RemovalOwns ==
    ASSUME IInv, OwnInv, NEW s \in Storages, NEW tt, store' = [store EXCEPT ![s] = tt],
           NEW i \in Items, NEW whole \in BOOLEAN, NEW n \in Int, LeftOf(store[s], tt, i, whole),
           i \in Mutables => n = 1 /\ i \in MutablesIn(store[s]),
           owner' = IF whole THEN ReleaseOwnership(owner, {i}) ELSE owner,
           loose' = [loose EXCEPT ![i] = @ + n]
    PROVE  OwnInv'
<1>1. owner = [x \in Mutables |-> owner[x]] /\ loose = [x \in Items |-> loose[x]]
  BY DEF IInv, RestInv, IsHooks
<1>2. \A x \in Mutables : x \in Items
  BY ItemsAssumption
<1>3. \A x \in Mutables : x # i => owner'[x] = owner[x] /\ loose'[x] = loose[x]
  BY <1>1, <1>2 DEF ReleaseOwnership
<1>4. i \in Mutables => owner'[i] = NoOwner /\ loose'[i] = loose[i] + 1
  BY <1>1 DEF ReleaseOwnership, LeftOf
<1>5. Solitary(tt)
  BY DEF LeftOf
<1>6. \A x \in Mutables : x # i => (x \in MutablesIn(tt) <=> x \in MutablesIn(store[s]))
  BY DEF LeftOf
<1>7. i \in Mutables => i \notin MutablesIn(tt)
  BY DEF LeftOf
<1> QED
  BY <1>3, <1>4, <1>5, <1>6, <1>7, OneStorageOwns

\* A move takes the item out of s before it puts it into t.
LEMMA MovedOwns ==
    ASSUME IInv, OwnInv, NEW s \in Storages, NEW t \in Storages, s # t, NEW taken,
           NEW i \in Items, NEW n \in Nat \ {0}, NEW f \in BOOLEAN, NEW whole \in BOOLEAN, NEW d,
           LeftOf(store[s], taken, i, whole),
           i \in Mutables => n = 1 /\ i \in MutablesIn(store[s]),
           Moved(s, t, taken, i, n, f, whole, d)
    PROVE  OwnInv'
<1>1. owner = [x \in Mutables |-> owner[x]] /\ loose' = loose
  BY DEF IInv, RestInv, IsHooks, Moved
<1>2. /\ store'[s] = taken /\ store'[t] = Added(store[t], i, n, f)
      /\ \A x \in Storages \ {s, t} : store'[x] = store[x]
  BY DEF Moved, IInv, StoreInv
<1>3. \A x \in Mutables : \A y \in Storages : x \in MutablesIn(store[y]) <=> owner[x] = y
  BY DEF OwnInv
<1>4. Sound(store[t]) /\ Solitary(store[t]) /\ (i \in Mutables => i \notin MutablesIn(store[t]))
  <2>1. Sound(store[t]) /\ Solitary(store[t])
    BY StorageFacts DEF OwnInv, IInv
  <2>2. i \in Mutables => owner[i] = s
    BY <1>3
  <2> QED
    BY <1>3, <2>1, <2>2
<1>5. /\ Solitary(store'[t])
      /\ MutablesIn(store'[t]) = MutablesIn(store[t]) \cup ({i} \cap Mutables)
  BY <1>2, <1>4, AddedSolitary
<1>6. Solitary(store'[s]) /\ MutablesIn(store'[s]) = IF whole THEN MutablesIn(store[s]) \ {i} ELSE MutablesIn(store[s])
  BY <1>2 DEF LeftOf
<1>7. i \in Mutables => whole
  BY DEF LeftOf
<1>8. ASSUME NEW x \in Storages PROVE Solitary(store'[x])
  BY <1>2, <1>5, <1>6 DEF OwnInv
<1>9. \A x \in Mutables : x # i => owner'[x] = owner[x]
  BY <1>1 DEF Moved, TakeOwnership, ReleaseOwnership
<1>10. i \in Mutables => owner'[i] = t
  BY <1>1 DEF Moved, TakeOwnership, ReleaseOwnership
<1>11. ASSUME NEW x \in Mutables
       PROVE  /\ \A y \in Storages : x \in MutablesIn(store'[y]) <=> owner'[x] = y
              /\ loose'[x] <= (IF owner'[x] = NoOwner THEN 1 ELSE 0)
  <2>1. loose[x] <= (IF owner[x] = NoOwner THEN 1 ELSE 0)
    BY DEF OwnInv
  <2>2. CASE x = i
    <3>1. owner[x] = s /\ owner'[x] = t
      BY <1>3, <1>10, <2>2
    <3>2. \A y \in Storages \ {s, t} : x \notin MutablesIn(store'[y])
      BY <1>2, <1>3, <3>1
    <3>3. x \notin MutablesIn(store'[s]) /\ x \in MutablesIn(store'[t])
      BY <1>5, <1>6, <1>7, <2>2
    <3> QED
      BY <1>1, <2>1, <3>1, <3>2, <3>3, InputsAssumption
  <2>3. CASE x # i
    <3>1. \A y \in Storages : x \in MutablesIn(store'[y]) <=> x \in MutablesIn(store[y])
      BY <1>2, <1>5, <1>6, <2>3
    <3> QED
      BY <1>1, <1>3, <1>9, <2>1, <2>3, <3>1
  <2> QED
    BY <2>2, <2>3
<1> QED
  BY <1>8, <1>11 DEF OwnInv

\* Every call keeps owners and items together.
LEMMA NextOwns ==
    ASSUME SplitAmounts \subseteq Nat \ {0}, IInv, OwnInv, Next
    PROVE  OwnInv'
<1>1. \A n \in Amounts : IsAmount(n)
  BY InputsAssumption DEF Amounts, IsAmount
<1>2. ASSUME NEW s \in Storages, StorageCall(s) PROVE OwnInv'
  <2> DEFINE st == store[s]
  <2>1. Sound(st) /\ Solitary(st)
    BY StorageFacts DEF IInv, OwnInv
  <2>2. ASSUME NEW k \in DOMAIN st.entries
        PROVE  /\ st.entries[k].item \in Items /\ StackSum(st.entries[k]) \in Int
               /\ st.entries[k].item \in Mutables => st.entries[k].item \in MutablesIn(st)
    BY StorageFacts DEF IInv, MutablesIn, Holding
  <2>3. ASSUME NEW i \in Items, NEW n \in 1..loose[i], NEW f \in BOOLEAN, NEW v \in Verdicts,
               AddItemStack(s, i, n, f, v)
        PROVE  OwnInv'
    <3> DEFINE tt == Added(st, i, n, f)
    <3>1. loose[i] \in Int /\ n \in Nat \ {0}
      BY DEF IInv, RestInv
    <3>2. i \in Mutables => n = 1 /\ owner[i] = NoOwner /\ i \notin MutablesIn(st)
      BY <3>1, LooseOwn
    <3>3. Solitary(tt) /\ MutablesIn(tt) = MutablesIn(st) \cup ({i} \cap Mutables)
      BY <2>1, <3>1, <3>2, AddedSolitary
    <3>4. store' = [store EXCEPT ![s] = tt]
      BY <2>3 DEF AddItemStack
    <3> HIDE DEF tt
    <3>5. \A x \in Mutables : x # i => owner'[x] = owner[x] /\ loose'[x] = loose[x]
      BY <2>3, ItemsAssumption DEF AddItemStack, TakeOwnership, IInv, RestInv
    <3>6. i \in Mutables => owner'[i] = s /\ loose'[i] = loose[i] - 1
      BY <2>3, <3>2 DEF AddItemStack, TakeOwnership, IInv, RestInv, IsHooks
    <3>7. \A x \in Mutables : x # i => (x \in MutablesIn(tt) <=> x \in MutablesIn(st))
      BY <3>3
    <3>8. i \in Mutables => i \in MutablesIn(tt)
      BY <3>3
    <3> QED
      BY <3>2, <3>3, <3>4, <3>5, <3>6, <3>7, <3>8, OneStorageOwns, ZenonT(30)
  <2>4. ASSUME NEW tag \in RemovalTags, NEW kept \in SUBSET DOMAIN st.entries,
               Clear(s, kept, tag)
        PROVE  OwnInv'
    <3> DEFINE tt == Cleared(st, kept)
               items == {st.entries[k].item : k \in DOMAIN st.entries \ kept}
    <3>1. /\ Solitary(tt)
          /\ MutablesIn(tt) = MutablesIn(st) \ items
          /\ \A i \in Mutables : ClearedCopies(st, kept, i) = (IF i \in items THEN 1 ELSE 0)
      BY <2>1, ClearedSolitary
    <3>2. /\ store' = [store EXCEPT ![s] = tt]
          /\ owner' = ReleaseOwnership(owner, items)
          /\ loose' = [i \in Items |-> loose[i] + ClearedCopies(st, kept, i)]
      BY <2>4 DEF Clear
    <3>3. \A i \in Mutables : i \in items => i \in MutablesIn(st)
      BY <2>2
    <3> HIDE DEF tt, items
    <3>4. \A i \in Mutables :
             /\ i \in Items /\ loose[i] \in Int
             /\ owner'[i] = (IF i \in items THEN NoOwner ELSE owner[i])
             /\ loose'[i] = loose[i] + (IF i \in items THEN 1 ELSE 0)
      BY <3>1, <3>2, ItemsAssumption DEF ReleaseOwnership, IInv, RestInv
    <3> HIDE DEF st
    <3>5. \A i \in Mutables :
              \/ /\ i \in MutablesIn(tt) <=> i \in MutablesIn(st)
                 /\ owner'[i] = owner[i] /\ loose'[i] = loose[i]
              \/ /\ i \in MutablesIn(st) /\ i \notin MutablesIn(tt)
                 /\ owner'[i] = NoOwner /\ loose'[i] = loose[i] + 1
      BY <3>1, <3>3, <3>4
    <3> USE DEF st
    <3> QED
      BY <3>1, <3>2, <3>5, OneStorageOwns
  <2>5. ASSUME NEW k \in DOMAIN st.entries, NEW v \in Verdicts,
               NEW n \in Amounts, NEW tag \in RemovalTags, RemoveFromEntry(s, k, n, tag, v)
        PROVE  OwnInv'
    <3> DEFINE tt == RemovedFromEntry(st, k, n)
               i == st.entries[k].item
               whole == RemovesEntry(st, k, n)
               m == EntryRemovalEvent(st, k, n).amount
    <3>1. LeftOf(st, tt, i, whole) /\ (i \in Mutables => m = 1)
      BY <1>1, <2>1, RemovedFromEntryLeaves
    <3>2. m \in Int
      BY <1>1, <2>2 DEF EntryRemovalEvent, Event, IsAmount, RemovesEntry
    <3>3. /\ store' = [store EXCEPT ![s] = tt]
          /\ owner' = IF whole THEN ReleaseOwnership(owner, {i}) ELSE owner
          /\ loose' = [loose EXCEPT ![i] = @ + m]
      BY <2>5 DEF RemoveFromEntry
    <3>4. whole \in BOOLEAN
      BY DEF RemovesEntry
    <3>5. i \in Items /\ (i \in Mutables => i \in MutablesIn(st))
      BY <2>2
    <3> HIDE DEF tt, i, whole, m
    <3> QED
      BY <3>1, <3>2, <3>3, <3>4, <3>5, RemovalOwns
  <2>6. ASSUME NEW k \in DOMAIN st.entries, NEW v \in Verdicts,
               NEW j \in DOMAIN st.entries[k].stacks,
               NEW n \in Amounts, NEW tag \in RemovalTags, RemoveFromStack(s, k, j, n, tag, v)
        PROVE  OwnInv'
    <3> DEFINE tt == RemovedFromStack(st, k, j, n)
               i == st.entries[k].item
               whole == RemovesOnlyStack(st, k, j, n)
               m == StackRemovalAmount(st, k, j, n)
    <3>1. LeftOf(st, tt, i, whole) /\ (i \in Mutables => m = 1)
      BY <1>1, <2>1, RemovedFromStackLeaves
    <3>2. m \in Int
      BY <1>1, <2>1, SumsInt DEF StackRemovalAmount, IsAmount, Lesser
    <3>3. /\ store' = [store EXCEPT ![s] = tt]
          /\ owner' = IF whole THEN ReleaseOwnership(owner, {i}) ELSE owner
          /\ loose' = [loose EXCEPT ![i] = @ + m]
      BY <2>6 DEF RemoveFromStack, StackRemovalEvent, Event
    <3>4. whole \in BOOLEAN
      BY DEF RemovesOnlyStack
    <3>5. i \in Items /\ (i \in Mutables => i \in MutablesIn(st))
      BY <2>2
    <3> HIDE DEF tt, i, whole, m
    <3> QED
      BY <3>1, <3>2, <3>3, <3>4, <3>5, RemovalOwns
  <2>7. ASSUME NEW k \in DOMAIN st.entries, NEW v \in Verdicts,
               NEW j \in DOMAIN st.entries[k].stacks,
               NEW n \in SplitAmounts, Split(s, k, j, n, v)
        PROVE  OwnInv'
    <3> DEFINE tt == SplitOff(st, k, j, n)
    <3>1. Solitary(tt) /\ MutablesIn(tt) = MutablesIn(st)
      BY <2>1, <2>7, SplitOffSolitary DEF Split
    <3>2. store' = [store EXCEPT ![s] = tt] /\ UNCHANGED <<owner, loose>>
      BY <2>7 DEF Split
    <3> HIDE DEF tt
    <3> QED
      BY <3>1, <3>2, OneStorageOwns
  <2>8. ASSUME NEW k \in DOMAIN st.entries, NEW v \in Verdicts,
               NEW j \in DOMAIN st.entries[k].stacks,
               NEW from \in StackKeys, MergeStacks(s, k, from, j, v)
        PROVE  OwnInv'
    BY <2>8, SameItemsOwn DEF MergeStacks
  <2>9. ASSUME NEW a \in Watched, RequestProxy(s, a)
        PROVE  OwnInv'
    <3>1. UNCHANGED <<owner, loose>>
      BY <2>9 DEF RequestProxy
    <3>2. \A x \in Storages : store'[x].entries = store[x].entries
      BY <2>9, StorageFacts DEF RequestProxy, IInv, StoreInv
    <3> QED
      BY <3>1, <3>2, SameItemsOwn
  <2>10. ASSUME NEW a \in Watched, DropProxy(s, a)
        PROVE  OwnInv'
    <3>1. UNCHANGED <<owner, loose>>
      BY <2>10 DEF DropProxy
    <3>2. \A x \in Storages : store'[x].entries = store[x].entries
      BY <2>10, StorageFacts DEF DropProxy, IInv, StoreInv
    <3> QED
      BY <3>1, <3>2, SameItemsOwn
  <2> QED
    BY <1>2, <2>3, <2>4, <2>5, <2>6, <2>7, <2>8, <2>9, <2>10 DEF StorageCall
<1>3. ASSUME NEW i \in Mutables, MutateItem(i) PROVE OwnInv'
  <2>1. UNCHANGED <<owner, loose>>
    BY <1>3 DEF MutateItem
  <2>2. \A x \in Storages : store'[x].entries = store[x].entries
    BY <1>3, StorageFacts DEF MutateItem, IInv, StoreInv
  <2> QED
    BY <2>1, <2>2, SameItemsOwn
<1>4. ASSUME NEW s \in Storages, NEW t \in Storages, TransferCall(s, t) PROVE OwnInv'
  <2> DEFINE st == store[s]
  <2>1. Sound(st) /\ Solitary(st)
    BY StorageFacts DEF IInv, OwnInv
  <2>2. ASSUME NEW k \in DOMAIN st.entries
        PROVE  /\ st.entries[k].item \in Items /\ StackSum(st.entries[k]) \in Int
               /\ st.entries[k].item \in Mutables => st.entries[k].item \in MutablesIn(st)
    BY StorageFacts DEF IInv, MutablesIn, Holding
  <2>3. ASSUME NEW k \in DOMAIN st.entries, NEW f \in BOOLEAN,
               NEW v \in Verdicts, NEW w \in Verdicts, MoveEntry(s, t, k, f, v, w)
        PROVE  OwnInv'
    <3> DEFINE taken == WithoutEntry(st, k)
               m == StackSum(st.entries[k])
               i == st.entries[k].item
               d == EntryRemovalEvent(st, k, EntireStack)
    <3>1. LeftOf(st, taken, i, TRUE) /\ (i \in Mutables => m = 1)
      BY <2>1, WithoutEntryLeaves, SolitarySum
    <3>2. m \in Nat \ {0} /\ s # t
      BY <2>2, <2>3 DEF MoveEntry, CanAddStack
    <3>3. Moved(s, t, taken, i, m, f, TRUE, d)
      BY <2>3 DEF MoveEntry
    <3>4. i \in Items /\ (i \in Mutables => i \in MutablesIn(st))
      BY <2>2
    <3> HIDE DEF taken, m, i, d
    <3> QED
      BY <3>1, <3>2, <3>3, <3>4, MovedOwns
  <2>4. ASSUME NEW k \in DOMAIN st.entries, NEW f \in BOOLEAN,
               NEW v \in Verdicts, NEW w \in Verdicts,
               NEW j \in DOMAIN st.entries[k].stacks, NEW n \in Amounts,
               MoveStack(s, t, k, j, n, f, v, w)
        PROVE  OwnInv'
    <3> DEFINE taken == RemovedFromStack(st, k, j, n)
               m == StackRemovalAmount(st, k, j, n)
               i == st.entries[k].item
               whole == RemovesOnlyStack(st, k, j, n)
               d == StackRemovalEvent(st, k, j, n)
    <3>1. LeftOf(st, taken, i, whole) /\ (i \in Mutables => m = 1)
      BY <1>1, <2>1, RemovedFromStackLeaves
    <3>2. m \in Int
      BY <1>1, <2>1, SumsInt DEF StackRemovalAmount, IsAmount, Lesser
    <3>3. m \in Nat \ {0} /\ s # t
      BY <2>4, <3>2 DEF MoveStack, CanAddStack
    <3>4. Moved(s, t, taken, i, m, f, whole, d)
      BY <2>4 DEF MoveStack
    <3>5. whole \in BOOLEAN
      BY DEF RemovesOnlyStack
    <3>6. i \in Items /\ (i \in Mutables => i \in MutablesIn(st))
      BY <2>2
    <3> HIDE DEF taken, m, i, whole, d
    <3> QED
      BY <3>1, <3>3, <3>4, <3>5, <3>6, MovedOwns
  <2> QED
    BY <1>4, <2>3, <2>4 DEF TransferCall
<1> QED
  BY <1>2, <1>3, <1>4 DEF Next

\* A mutable item that no storage holds and that is not loose is not touched by
\* the calls on storages: its hook may be bound to some other container.
LEMMA AbsentStays ==
    ASSUME IInv, OwnInv, Next, NEW i \in Mutables, owner[i] \notin Storages, loose[i] <= 0
    PROVE  owner'[i] = owner[i] /\ loose'[i] = loose[i]
<1>1. /\ IsHooks(owner) /\ loose = [x \in Items |-> loose[x]] /\ loose[i] \in Int /\ i \in Items
      /\ \A s \in Storages : Sound(store[s]) /\ Solitary(store[s])
  BY ItemsAssumption, StorageFacts DEF IInv, RestInv, OwnInv
<1>2. \A s \in Storages : \A k \in DOMAIN store[s].entries : store[s].entries[k].item # i
  BY DEF OwnInv, MutablesIn, Holding
<1>3. ASSUME NEW is, i \notin is PROVE ReleaseOwnership(owner, is)[i] = owner[i]
  BY <1>3 DEF ReleaseOwnership
<1>4. ASSUME UNCHANGED <<owner, loose>> PROVE owner'[i] = owner[i] /\ loose'[i] = loose[i]
  BY <1>4
<1>5. ASSUME NEW s \in Storages, StorageCall(s)
      PROVE  owner'[i] = owner[i] /\ loose'[i] = loose[i]
  <2>1. ASSUME NEW x \in Items, NEW n \in 1..loose[x], NEW f, NEW v, AddItemStack(s, x, n, f, v)
        PROVE  owner'[i] = owner[i] /\ loose'[i] = loose[i]
    <3>1. x # i
      BY <1>1, <2>1
    <3> QED
      BY <1>1, <2>1, <3>1 DEF AddItemStack, TakeOwnership
  <2>2. ASSUME NEW tag, NEW kept \in SUBSET DOMAIN store[s].entries, Clear(s, kept, tag)
        PROVE  owner'[i] = owner[i] /\ loose'[i] = loose[i]
    <3>1. ClearedCopies(store[s], kept, i)
             = IF i \in {store[s].entries[k].item : k \in DOMAIN store[s].entries \ kept} THEN 1 ELSE 0
      BY <1>1, ClearedSolitary
    <3>2. ClearedCopies(store[s], kept, i) = 0
      BY <1>2, <3>1
    <3> DEFINE is == {store[s].entries[k].item : k \in DOMAIN store[s].entries \ kept}
    <3>3. owner' = ReleaseOwnership(owner, is) /\ i \notin is
      BY <1>2, <2>2 DEF Clear
    <3> HIDE DEF is
    <3>4. loose' = [x \in Items |-> loose[x] + ClearedCopies(store[s], kept, x)]
      BY <2>2 DEF Clear
    <3>5. loose'[i] = loose[i] + 0
      BY <1>1, <3>2, <3>4
    <3> QED
      BY <1>1, <1>3, <3>3, <3>5
  <2>3. ASSUME NEW k \in DOMAIN store[s].entries, NEW n, NEW tag, NEW v,
               RemoveFromEntry(s, k, n, tag, v)
        PROVE  owner'[i] = owner[i] /\ loose'[i] = loose[i]
    BY <1>1, <1>2, <1>3, <2>3 DEF RemoveFromEntry
  <2>4. ASSUME NEW k \in DOMAIN store[s].entries, NEW j, NEW n, NEW tag, NEW v,
               RemoveFromStack(s, k, j, n, tag, v)
        PROVE  owner'[i] = owner[i] /\ loose'[i] = loose[i]
    BY <1>1, <1>2, <1>3, <2>4 DEF RemoveFromStack
  <2> QED
    BY <1>4, <1>5, <2>1, <2>2, <2>3, <2>4
    DEF StorageCall, Split, MergeStacks, RequestProxy, DropProxy
<1>6. ASSUME NEW s, NEW t, NEW taken, NEW x, x # i, NEW n, NEW f, NEW whole, NEW d,
             Moved(s, t, taken, x, n, f, whole, d)
      PROVE  owner'[i] = owner[i] /\ loose'[i] = loose[i]
  <2>1. ReleaseOwnership(owner, {x})[i] = owner[i]
    BY <1>3, <1>6
  <2>2. /\ IsHooks(ReleaseOwnership(owner, {x}))
        /\ owner' = TakeOwnership(IF whole THEN ReleaseOwnership(owner, {x}) ELSE owner, t, x)
        /\ loose' = loose
    BY <1>1, <1>6, OwnershipTyped DEF Moved
  <2> HIDE DEF ReleaseOwnership
  <2> QED
    BY <1>1, <1>6, <2>1, <2>2 DEF TakeOwnership
<1>7. ASSUME NEW s \in Storages, NEW t \in Storages, TransferCall(s, t)
      PROVE  owner'[i] = owner[i] /\ loose'[i] = loose[i]
  <2>1. ASSUME NEW k \in DOMAIN store[s].entries, NEW f, NEW v, NEW w, MoveEntry(s, t, k, f, v, w)
        PROVE  owner'[i] = owner[i] /\ loose'[i] = loose[i]
    <3>1. store[s].entries[k].item # i
      BY <1>2
    <3> QED
      BY <1>6, <2>1, <3>1 DEF MoveEntry
  <2>2. ASSUME NEW k \in DOMAIN store[s].entries, NEW j, NEW n, NEW f, NEW v, NEW w,
               MoveStack(s, t, k, j, n, f, v, w)
        PROVE  owner'[i] = owner[i] /\ loose'[i] = loose[i]
    <3>1. store[s].entries[k].item # i
      BY <1>2
    <3> QED
      BY <1>6, <2>2, <3>1 DEF MoveStack
  <2> QED
    BY <1>7, <2>1, <2>2 DEF TransferCall
<1>8. ASSUME NEW x \in Mutables, MutateItem(x)
      PROVE  owner'[i] = owner[i] /\ loose'[i] = loose[i]
  BY <1>8 DEF MutateItem
<1> QED
  BY <1>5, <1>7, <1>8 DEF Next

\* The hook of a mutable item is bound to the storage that holds it and to no
\* other, however it was added, moved, split and cleared: there is one copy of
\* a mutable item, and no caller splits off less than one copy.
THEOREM OwnersHoldTheirItems ==
    /\ \A i \in Mutables : Supply[i] <= 1
    /\ SplitAmounts \subseteq Nat \ {0}
    => (Spec => []OwnerHoldsItem)
<1> SUFFICES ASSUME \A i \in Mutables : Supply[i] <= 1, SplitAmounts \subseteq Nat \ {0}
             PROVE  Spec => []OwnerHoldsItem
  OBVIOUS
<1>1. Init => OwnInv
  <2> SUFFICES ASSUME Init PROVE OwnInv
    OBVIOUS
  <2>1. ASSUME NEW s \in Storages PROVE DOMAIN store[s].entries = {}
    BY DEF Init, EmptyStorage
  <2>2. \A s \in Storages : Solitary(store[s]) /\ MutablesIn(store[s]) = {}
    BY <2>1 DEF Solitary, MutablesIn, Holding
  <2>3. \A i \in Mutables : owner[i] = NoOwner /\ loose[i] <= 1
    BY DEF Init
  <2> QED
    BY <2>2, <2>3, InputsAssumption DEF OwnInv
<1>2. IInv /\ OwnInv /\ [Next]_vars => OwnInv'
  <2> SUFFICES ASSUME IInv, OwnInv, [Next]_vars PROVE OwnInv'
    OBVIOUS
  <2>1. CASE Next
    BY <2>1, NextOwns
  <2>2. CASE UNCHANGED vars
    BY <2>2, SameItemsOwn DEF vars
  <2> QED
    BY <2>1, <2>2
<1>3. OwnersAreStorages /\ OwnInv => OwnerHoldsItem
  <2> SUFFICES ASSUME OwnersAreStorages, OwnInv, NEW i \in Mutables
               PROVE  HeldBy(i) = (IF owner[i] = NoOwner THEN {} ELSE {owner[i]})
    BY DEF OwnerHoldsItem
  <2>1. \A s \in Storages : Holding(store[s], i) # {} <=> owner[i] = s
    BY DEF OwnInv, MutablesIn
  <2>2. owner[i] \in Storages \cup {NoOwner}
    BY DEF OwnersAreStorages
  <2> QED
    BY <2>1, <2>2, InputsAssumption DEF HeldBy
<1> QED
  BY <1>1, <1>2, <1>3, Invariance, OwnersStayStorages, PTL DEF Spec

-----------------------------------------------------------------------------
(* Copies.  What a call adds to the entries of one storage it takes from     *)
(* what is loose or from another storage.                                    *)

\* The entries that hold an item are finitely many and sum up to an integer.
LEMMA StoredInt ==
    ASSUME NEW st, Sound(st), NEW i
    PROVE  /\ IsFiniteSet(Holding(st, i)) /\ Holding(st, i) \subseteq DOMAIN st.entries
           /\ \A k \in Holding(st, i) : StackSum(st.entries[k]) \in Int
           /\ Stored(st, i) \in Int
<1> DEFINE held == Holding(st, i)
           sums == [k \in held |-> StackSum(st.entries[k])]
<1>1. KeyGenReset + 1 \in Int /\ st.keyGen \in Int
  BY DEF Sound, IsStorage, KeyGenReset
<1>2. IsFiniteSet((KeyGenReset + 1)..st.keyGen)
  BY ONLY <1>1, FS_Interval
<1>3. held \in SUBSET ((KeyGenReset + 1)..st.keyGen)
  BY DEF Holding, Sound, IsStorage
<1>4. IsFiniteSet(held)
  BY <1>2, <1>3, FS_Subset
<1>5. held \subseteq DOMAIN st.entries
  BY DEF Holding
<1>6. \A k \in held : StackSum(st.entries[k]) \in Int
  BY <1>5, SumsInt
<1>7. \A k \in held : sums[k] \in Int
  BY <1>6
<1>8. SumOver(sums, held) \in Int
  BY <1>4, <1>7, SumOverInt
<1> QED
  BY <1>4, <1>5, <1>6, <1>8 DEF Stored

\* An entry that is edited.
LEMMA EditedCopies ==
    ASSUME NEW st, Sound(st), NEW k \in DOMAIN st.entries, NEW e, IsEntry(e), NEW tt,
           e.item = st.entries[k].item,
           tt.entries = [j \in DOMAIN st.entries \cup {k} |-> IF j = k THEN e ELSE st.entries[j]],
           NEW i
    PROVE  Stored(tt, i) = Stored(st, i)
               + (IF i = e.item THEN StackSum(e) - StackSum(st.entries[k]) ELSE 0)
<1> DEFINE held == Holding(st, i)
           f == [j \in held |-> StackSum(st.entries[j])]
           g == [j \in held |-> StackSum(tt.entries[j])]
<1>1. /\ DOMAIN tt.entries = DOMAIN st.entries
      /\ \A j \in DOMAIN st.entries : tt.entries[j].item = st.entries[j].item
      /\ \A j \in DOMAIN st.entries : j # k => tt.entries[j] = st.entries[j]
      /\ tt.entries[k] = e
  OBVIOUS
<1>2. Holding(tt, i) = held
  BY <1>1 DEF Holding
<1>3. Stored(st, i) = SumOver(f, held) /\ Stored(tt, i) = SumOver(g, held)
  BY <1>2 DEF Stored
<1>4. IsFiniteSet(held) /\ held \subseteq DOMAIN st.entries /\ \A j \in held : f[j] \in Int
  BY StoredInt
<1>5. StackSum(e) \in Int /\ StackSum(st.entries[k]) \in Int
  BY StackSumInt, SumsInt
<1>6. \A j \in held : j # k => g[j] = f[j]
  BY <1>1, <1>4
<1>7. k \in held <=> i = e.item
  BY DEF Holding
<1>8. k \in held => g[k] = StackSum(e) /\ f[k] = StackSum(st.entries[k])
  BY <1>1
<1>9. \A j \in held : g[j] \in Int
  BY <1>4, <1>5, <1>6, <1>8
<1> HIDE DEF f, g, held
<1>10. CASE i = e.item
  <2>1. SumOver(g, held) = SumOver(f, held) - f[k] + g[k]
    BY <1>4, <1>6, <1>7, <1>9, <1>10, SumOverChange
  <2>2. SumOver(f, held) \in Int
    BY <1>4, SumOverInt
  <2> QED
    BY <1>3, <1>5, <1>7, <1>8, <1>10, <2>1, <2>2
<1>11. CASE i # e.item
  <2>1. SumOver(g, held) = SumOver(f, held)
    BY <1>6, <1>7, <1>11, SumOverSame
  <2>2. SumOver(f, held) \in Int
    BY <1>4, SumOverInt
  <2> QED
    BY <1>3, <1>11, <2>1, <2>2
<1> QED
  BY <1>10, <1>11

\* An entry that is made.
LEMMA AppendedCopies ==
    ASSUME NEW st, Sound(st), NEW k, k \notin DOMAIN st.entries, NEW e, IsEntry(e), NEW tt,
           tt.entries = [j \in DOMAIN st.entries \cup {k} |-> IF j = k THEN e ELSE st.entries[j]],
           NEW i
    PROVE  Stored(tt, i) = Stored(st, i) + (IF i = e.item THEN StackSum(e) ELSE 0)
<1> DEFINE held == Holding(st, i)
           f == [j \in held |-> StackSum(st.entries[j])]
           g == [j \in Holding(tt, i) |-> StackSum(tt.entries[j])]
<1>1. /\ DOMAIN tt.entries = DOMAIN st.entries \cup {k}
      /\ \A j \in DOMAIN st.entries : tt.entries[j] = st.entries[j]
      /\ tt.entries[k] = e
  OBVIOUS
<1>2. Holding(tt, i) = IF i = e.item THEN held \cup {k} ELSE held
  BY <1>1 DEF Holding
<1>3. Stored(st, i) = SumOver(f, held) /\ Stored(tt, i) = SumOver(g, Holding(tt, i))
  BY DEF Stored
<1>4. IsFiniteSet(held) /\ held \subseteq DOMAIN st.entries /\ \A j \in held : f[j] \in Int
  BY StoredInt
<1>5. StackSum(e) \in Int /\ k \notin held
  BY <1>4, StackSumInt
<1>6. \A j \in held : g[j] = f[j]
  BY <1>1, <1>2, <1>4
<1>7. i = e.item => g[k] = StackSum(e)
  BY <1>1, <1>2
<1> HIDE DEF f, g, held
<1>8. SumOver(g, held) = SumOver(f, held)
  BY <1>6, SumOverSame
<1>9. SumOver(f, held) \in Int
  BY <1>4, SumOverInt
<1>10. CASE i = e.item
  <2>1. \A j \in held \cup {k} : g[j] \in Int
    BY <1>4, <1>5, <1>6, <1>7, <1>10
  <2>2. SumOver(g, held \cup {k}) = SumOver(g, held) + g[k]
    BY <1>4, <1>5, <2>1, SumOverMore
  <2> QED
    BY <1>2, <1>3, <1>7, <1>8, <1>10, <2>2
<1>11. CASE i # e.item
  BY <1>2, <1>3, <1>8, <1>9, <1>11
<1> QED
  BY <1>10, <1>11

\* Entries that go.
LEMMA WithoutCopies ==
    ASSUME NEW st, Sound(st), NEW ks, NEW tt, NEW i, NEW lost, NEW h,
           tt.entries = [k \in DOMAIN st.entries \ ks |-> st.entries[k]],
           \A k : k \in lost <=> k \in DOMAIN st.entries /\ k \in ks /\ st.entries[k].item = i,
           \A k \in lost : h[k] = StackSum(st.entries[k])
    PROVE  Stored(st, i) = Stored(tt, i) + SumOver(h, lost)
<1> DEFINE held == Holding(st, i)
           left == Holding(tt, i)
           f == [j \in held |-> StackSum(st.entries[j])]
           g == [j \in left |-> StackSum(tt.entries[j])]
<1>1. /\ DOMAIN tt.entries = DOMAIN st.entries \ ks
      /\ \A j \in DOMAIN tt.entries : tt.entries[j] = st.entries[j]
  OBVIOUS
<1>2. held = left \cup lost /\ left \cap lost = {}
  BY <1>1 DEF Holding
<1>3. Stored(st, i) = SumOver(f, held) /\ Stored(tt, i) = SumOver(g, left)
  BY DEF Stored
<1>4. IsFiniteSet(held) /\ \A j \in held : f[j] \in Int
  BY StoredInt
<1>5. (\A j \in left : g[j] = f[j]) /\ (\A j \in lost : h[j] = f[j])
  BY <1>1, <1>2 DEF Holding
<1> HIDE DEF f, g, held, left
<1>6. IsFiniteSet(left) /\ IsFiniteSet(lost)
  <2>1. left \in SUBSET held /\ lost \in SUBSET held
    BY <1>2
  <2> QED
    BY <1>4, <2>1, FS_Subset
<1>7. SumOver(f, left \cup lost) = SumOver(f, left) + SumOver(f, lost)
  BY <1>2, <1>4, <1>6, SumOverUnion
<1>8. SumOver(g, left) = SumOver(f, left) /\ SumOver(h, lost) = SumOver(f, lost)
  BY <1>5, SumOverSame
<1> QED
  BY <1>2, <1>3, <1>7, <1>8

\* EntryMap.Remove takes what its stacks hold.
LEMMA WithoutEntryCopies ==
    ASSUME NEW st, Sound(st), NEW k \in DOMAIN st.entries, NEW i
    PROVE  Stored(WithoutEntry(st, k), i)
               = Stored(st, i) - (IF i = st.entries[k].item THEN StackSum(st.entries[k]) ELSE 0)
<1> DEFINE tt == WithoutEntry(st, k)
           lost == IF i = st.entries[k].item THEN {k} ELSE {}
           h == [j \in lost |-> StackSum(st.entries[j])]
<1>1. tt.entries = [j \in DOMAIN st.entries \ {k} |-> st.entries[j]]
  BY DEF WithoutEntry
<1>2. Sound(tt)
  BY WithoutEntrySound DEF SoundStep
<1> HIDE DEF tt
<1>3. Stored(st, i) = Stored(tt, i) + SumOver(h, lost)
  <2> DEFINE ks == {k}
  <2>1. \A j : j \in lost <=> j \in DOMAIN st.entries /\ j \in ks /\ st.entries[j].item = i
    OBVIOUS
  <2>2. \A j \in lost : h[j] = StackSum(st.entries[j])
    OBVIOUS
  <2>3. tt.entries = [j \in DOMAIN st.entries \ ks |-> st.entries[j]]
    BY <1>1
  <2> HIDE DEF lost, h, ks
  <2> QED
    BY <2>1, <2>2, <2>3, WithoutCopies
<1>4. Stored(st, i) \in Int /\ Stored(tt, i) \in Int /\ StackSum(st.entries[k]) \in Int
  BY <1>2, StoredInt, SumsInt
<1>5. lost = IF i = st.entries[k].item THEN {k} ELSE {}
  BY DEF lost
<1>6. i = st.entries[k].item => h[k] = StackSum(st.entries[k])
  OBVIOUS
<1> HIDE DEF lost, h
<1>7. SumOver(h, {}) = 0
  BY SumOverNone
<1>8. i = st.entries[k].item => SumOver(h, {k}) = StackSum(st.entries[k])
  BY <1>4, <1>6, SumOverOne
<1> QED
  BY <1>3, <1>4, <1>5, <1>7, <1>8 DEF tt

\* An addition adds what it says, unless it gives an entry that was there more
\* than one stack takes.
LEMMA AddedCopies ==
    ASSUME NEW st, Sound(st), NEW x \in Items, NEW n \in Nat \ {0}, NEW f \in BOOLEAN,
           Joins(st, x) => st.entries[FindEntry(st, x)].limit \notin 1..(n - 1),
           NEW i
    PROVE  Stored(Added(st, x, n, f), i) = Stored(st, i) + (IF i = x THEN n ELSE 0)
<1> DEFINE k == KeyOfAddition(st, x)
           e == EntryOfAddition(st, x, n, f)
           tt == Added(st, x, n, f)
<1>1. tt.entries = [j \in DOMAIN st.entries \cup {k} |-> IF j = k THEN e ELSE st.entries[j]]
  BY AddedEntries
<1>2. Stored(st, i) \in Int
  BY StoredInt
<1>3. CASE Joins(st, x)
  <2> DEFINE old == st.entries[k]
  <2>1. k \in DOMAIN st.entries /\ k = FindEntry(st, x) /\ old.item = x
    BY <1>3, FindsEntry DEF KeyOfAddition
  <2>2. IsEntry(old) /\ StackSum(old) \in Int
    BY <2>1, SumsInt DEF Sound, IsStorage
  <2>3. old.limit = UnlimitedStack \/ n <= old.limit
    BY <1>3, <2>1, <2>2 DEF IsEntry, Limits, UnlimitedStack
  <2>4. \/ e = AddToNewStacks(old, n)
        \/ e = AddToAnyStack(old, n)
    BY <1>3, <2>1 DEF EntryOfAddition
  <2> HIDE DEF e, k, tt
  <2>5. IsEntry(e) /\ e.item = x /\ StackSum(e) = StackSum(old) + n
    <3> HIDE DEF old
    <3>1. CASE e = AddToNewStacks(old, n)
      BY <2>1, <2>2, <2>3, <3>1, AddToNewStacksContinues, AddToNewStacksHolds DEF Continues
    <3>2. CASE e = AddToAnyStack(old, n)
      BY <2>1, <2>2, <2>3, <3>2, AddToAnyStackContinues, AddToAnyStackHolds DEF Continues
    <3> QED
      BY <2>4, <3>1, <3>2
  <2>6. Stored(tt, i) = Stored(st, i) + (IF i = e.item THEN StackSum(e) - StackSum(old) ELSE 0)
    <3>1. e.item = old.item
      BY <2>1, <2>5
    <3> QED
      BY ONLY Sound(st), <1>1, <2>1, <2>5, <3>1, EditedCopies
  <2> QED
    BY <1>2, <2>2, <2>5, <2>6 DEF tt
<1>4. CASE ~Joins(st, x)
  <2>1. k \notin DOMAIN st.entries
    BY <1>4, AddedEntries
  <2>2. e = NewEntry(x, StackLimit[x], n)
    BY <1>4 DEF EntryOfAddition
  <2>3. StackLimit[x] \in Limits
    BY ItemsAssumption
  <2>4. IsEntry(e) /\ e.item = x /\ StackSum(e) = n
    BY <2>2, <2>3, NewEntryIsEntry, NewEntryHolds
  <2> HIDE DEF e, k, tt
  <2>5. Stored(tt, i) = Stored(st, i) + (IF i = e.item THEN StackSum(e) ELSE 0)
    BY ONLY Sound(st), <1>1, <2>1, <2>4, AppendedCopies
  <2> QED
    BY <2>4, <2>5 DEF tt
<1> QED
  BY <1>3, <1>4

\* RemoveFromEntryImplNoBroadcast takes what its event says.
LEMMA RemovedFromEntryCopies ==
    ASSUME NEW st, Sound(st), NEW k \in DOMAIN st.entries, NEW n, IsAmount(n), NEW i
    PROVE  /\ EntryRemovalEvent(st, k, n).amount \in Int
           /\ Stored(RemovedFromEntry(st, k, n), i)
                = Stored(st, i) - (IF i = st.entries[k].item
                                   THEN EntryRemovalEvent(st, k, n).amount ELSE 0)
<1> DEFINE old == st.entries[k]
<1>1. IsEntry(old) /\ StackSum(old) \in Int /\ Stored(st, i) \in Int
  BY SumsInt, StoredInt DEF Sound, IsStorage
<1>2. CASE RemovesEntry(st, k, n)
  <2>1. RemovedFromEntry(st, k, n) = WithoutEntry(st, k)
    BY <1>2 DEF RemovedFromEntry
  <2>2. EntryRemovalEvent(st, k, n).amount = StackSum(old)
    BY <1>2 DEF EntryRemovalEvent, Event
  <2> QED
    BY <1>1, <2>1, <2>2, WithoutEntryCopies
<1>3. CASE ~RemovesEntry(st, k, n)
  <2> DEFINE e == RemoveFromAnyStack(old, n)
             p == IF PartlyRemoved(old, n) = {} THEN st.proxies
                  ELSE PostContentChanged(st.proxies, k, e)
             tt == RemovedFromEntry(st, k, n)
  <2>1. n \in Nat \ {0} /\ n < StackSum(old)
    BY <1>1, <1>3 DEF IsAmount, RemovesEntry
  <2>2. IsEntry(e) /\ e.item = old.item /\ StackSum(e) = StackSum(old) - n
    <3> HIDE DEF old, e
    <3>1. n \in Int
      BY <2>1
    <3>2. IsEntry(RemoveFromAnyStack(old, n)) /\ RemoveFromAnyStack(old, n).item = old.item
      BY ONLY <1>1, <3>1, RemoveFromAnyStackContinues DEF Continues
    <3>3. StackSum(RemoveFromAnyStack(old, n)) = StackSum(old) - n
      BY ONLY <1>1, <2>1, RemoveFromAnyStackHolds
    <3> QED
      BY <3>2, <3>3 DEF e
  <2>3. SetEntry(st, k, e).proxies = st.proxies
    BY DEF SetEntry, Sound, IsStorage
  <2>4. EntryRemovalEvent(st, k, n).amount = n
    BY <1>3 DEF EntryRemovalEvent, Event
  <2> HIDE DEF e
  <2>5. tt = [SetEntry(st, k, e) EXCEPT !.proxies = p]
    BY <1>3, <2>3 DEF RemovedFromEntry, e
  <2> HIDE DEF tt, p
  <2>6. tt.entries = [j \in DOMAIN st.entries \cup {k} |-> IF j = k THEN e ELSE st.entries[j]]
    BY <2>5, SetEntryEntries
  <2>7. Stored(tt, i) = Stored(st, i) + (IF i = e.item THEN StackSum(e) - StackSum(old) ELSE 0)
    BY <2>2, <2>6, EditedCopies
  <2> QED
    BY <1>1, <2>1, <2>2, <2>4, <2>7 DEF tt
<1> QED
  BY <1>2, <1>3

\* So does RemoveFromStackImpl.
LEMMA RemovedFromStackCopies ==
    ASSUME NEW st, Sound(st), NEW k \in DOMAIN st.entries,
           NEW j \in DOMAIN st.entries[k].stacks, NEW n, IsAmount(n), NEW i
    PROVE  /\ StackRemovalAmount(st, k, j, n) \in Int
           /\ Stored(RemovedFromStack(st, k, j, n), i)
                = Stored(st, i) - (IF i = st.entries[k].item
                                   THEN StackRemovalAmount(st, k, j, n) ELSE 0)
<1> DEFINE old == st.entries[k]
           m == StackRemovalAmount(st, k, j, n)
<1>1. IsEntry(old) /\ StackSum(old) \in Int /\ Stored(st, i) \in Int
  BY SumsInt, StoredInt DEF Sound, IsStorage
<1>2. old.stacks[j] \in Int
  BY <1>1 DEF IsEntry
<1>3. m \in Int /\ m <= old.stacks[j]
  BY <1>2 DEF StackRemovalAmount, Lesser, IsAmount
<1>4. CASE RemovesOnlyStack(st, k, j, n)
  <2>1. RemovedFromStack(st, k, j, n) = WithoutEntry(st, k)
    BY <1>4 DEF RemovedFromStack
  <2>2. DOMAIN old.stacks = {j} /\ m = old.stacks[j]
    BY <1>4 DEF RemovesOnlyStack, IsOnlyStack
  <2>3. StackSum(old) = m
    BY <1>2, <2>2, SumOverOne DEF StackSum
  <2> QED
    BY <1>1, <1>3, <2>1, <2>3, WithoutEntryCopies
<1>5. CASE ~RemovesOnlyStack(st, k, j, n)
  <2> DEFINE tt == RemovedFromStack(st, k, j, n)
  <2>1. PICK e : /\ tt = SetEntry(st, k, e) /\ IsEntry(e) /\ e.item = old.item
                 /\ StackSum(e) = StackSum(old) - m
    <3>1. CASE m = old.stacks[j]
      <4> DEFINE e == RemoveStack(old, j)
      <4>1. tt = SetEntry(st, k, e)
        BY <1>5, <3>1 DEF RemovedFromStack
      <4>2. IsEntry(e) /\ e.item = old.item /\ StackSum(e) = StackSum(old) - m
        BY <1>1, <3>1, RemoveStackContinues, RemoveStackHolds DEF Continues
      <4> QED
        BY <4>1, <4>2
    <3>2. CASE m # old.stacks[j]
      <4> DEFINE c == old.stacks[j] - m
                 e == SetStack(old, j, c)
      <4>1. c \in Int /\ c > 0 /\ c = old.stacks[j] - m
        BY <1>2, <1>3, <3>2
      <4>2. tt = SetEntry(st, k, e)
        BY <1>5, <3>2 DEF RemovedFromStack
      <4>3. e = [old EXCEPT !.stacks[j] = c]
        BY <4>1 DEF SetStack
      <4>4. IsEntry(e) /\ e.item = old.item
        BY <1>1, <4>1, SetStackContinues DEF Continues
      <4> HIDE DEF c
      <4>5. e.stacks = [old.stacks EXCEPT ![j] = c]
        BY <1>1, <4>3 DEF IsEntry
      <4> HIDE DEF e, old
      <4>6. StackSum(e) = StackSum(old) - old.stacks[j] + c
        BY <1>1, <4>1, <4>5, OneStackChanges DEF old
      <4>7. StackSum(e) = StackSum(old) - m
        BY <1>1, <1>2, <1>3, <4>1, <4>6
      <4> QED
        BY <4>2, <4>4, <4>7 DEF old
    <3> QED
      BY <3>1, <3>2
  <2> HIDE DEF tt
  <2>2. tt.entries = [l \in DOMAIN st.entries \cup {k} |-> IF l = k THEN e ELSE st.entries[l]]
    BY <2>1, SetEntryEntries
  <2>3. Stored(tt, i) = Stored(st, i) + (IF i = e.item THEN StackSum(e) - StackSum(old) ELSE 0)
    BY <2>1, <2>2, EditedCopies
  <2> HIDE DEF m
  <2>4. Stored(tt, i) = Stored(st, i) - (IF i = old.item THEN m ELSE 0)
    BY <1>1, <1>3, <2>1, <2>3
  <2> QED
    BY <1>3, <2>4 DEF tt, m
<1> QED
  BY <1>4, <1>5

\* A split moves copies inside an entry.
LEMMA SplitOffCopies ==
    ASSUME NEW st, Sound(st), NEW k \in DOMAIN st.entries,
           NEW j \in DOMAIN st.entries[k].stacks, NEW n \in Int, NEW i
    PROVE  Stored(SplitOff(st, k, j, n), i) = Stored(st, i)
<1> DEFINE old == st.entries[k]
           e == SplitStack(old, j, n)
           p == PostContentChanged(st.proxies, k, e)
           tt == SplitOff(st, k, j, n)
<1>1. IsEntry(old) /\ StackSum(old) \in Int /\ Stored(st, i) \in Int
  BY SumsInt, StoredInt DEF Sound, IsStorage
<1>2. IsEntry(e) /\ e.item = old.item /\ StackSum(e) = StackSum(old)
  BY <1>1, SplitStackContinues, SplitStackHolds DEF Continues
<1>3. SetEntry(st, k, e).proxies = st.proxies
  BY DEF SetEntry, Sound, IsStorage
<1> HIDE DEF e
<1>4. tt = [SetEntry(st, k, e) EXCEPT !.proxies = p]
  BY <1>3 DEF SplitOff, e
<1> HIDE DEF p, tt
<1>5. tt.entries = [l \in DOMAIN st.entries \cup {k} |-> IF l = k THEN e ELSE st.entries[l]]
  BY <1>4, SetEntryEntries
<1>6. Stored(tt, i) = Stored(st, i) + (IF i = e.item THEN StackSum(e) - StackSum(old) ELSE 0)
  BY <1>2, <1>5, EditedCopies
<1> QED
  BY <1>1, <1>2, <1>6 DEF tt

\* Clear takes what it counts.
LEMMA ClearedStored ==
    ASSUME NEW st, Sound(st), WithinBounds(st), NEW kept \in SUBSET DOMAIN st.entries, NEW i
    PROVE  /\ Stored(Cleared(st, kept), i) = Stored(st, i) - ClearedCopies(st, kept, i)
           /\ ClearedCopies(st, kept, i) \in Int
<1> DEFINE lost == DOMAIN st.entries \ kept
           left == WithoutEntries(st, lost)
           tt == Cleared(st, kept)
           held == {k \in lost : st.entries[k].item = i}
           h == [k \in held |-> StackSum(st.entries[k])]
<1>1. left = [entries |-> left.entries, keyGen |-> left.keyGen, proxies |-> left.proxies]
  BY DEF WithoutEntries
<1>2. left.entries = [k \in DOMAIN st.entries \ lost |-> st.entries[k]]
  BY DEF WithoutEntries
<1> HIDE DEF left
<1>3. tt.entries = left.entries
  <2>1. [left EXCEPT !.keyGen = KeyGenReset].entries = left.entries
    BY <1>1
  <2> QED
    BY <2>1 DEF Cleared, left
<1>4. Sound(tt)
  BY ClearedSound
<1> HIDE DEF tt
<1>5. ClearedCopies(st, kept, i) = SumOver(h, held)
  BY DEF ClearedCopies
<1>6. ClearedCopies(st, kept, i) \in Int /\ Stored(st, i) \in Int /\ Stored(tt, i) \in Int
  BY <1>4, ClearedCopiesInt, StoredInt
<1>7. Stored(st, i) = Stored(tt, i) + SumOver(h, held)
  <2>1. \A k : k \in held <=> k \in DOMAIN st.entries /\ k \in lost /\ st.entries[k].item = i
    OBVIOUS
  <2>2. \A k \in held : h[k] = StackSum(st.entries[k])
    OBVIOUS
  <2> HIDE DEF lost, held, h
  <2> QED
    BY <1>2, <1>3, <2>1, <2>2, WithoutCopies, SMTT(30)
<1> QED
  BY <1>5, <1>6, <1>7 DEF tt

\* What all storages hold is an integer, in a world of finitely many of them.
LEMMA WorldInt ==
    ASSUME IInv, IsFiniteSet(Storages), NEW i
    PROVE  \A s \in Storages : Stored(store[s], i) \in Int
BY StoredInt, StorageFacts DEF IInv

\* A call on one storage adds to it what it takes from the loose copies.
LEMMA OneStorageConserves ==
    ASSUME IInv, IsFiniteSet(Storages), NEW s \in Storages, NEW tt, Sound(tt),
           store' = [store EXCEPT ![s] = tt], NEW i \in Items, NEW n \in Int,
           Stored(tt, i) = Stored(store[s], i) + n, loose'[i] = loose[i] - n
    PROVE  InWorld(i)' = InWorld(i)
<1> DEFINE f == [x \in Storages |-> Stored(store[x], i)]
           g == [x \in Storages |-> Stored(store'[x], i)]
<1>1. store'[s] = tt /\ \A x \in Storages : x # s => store'[x] = store[x]
  BY DEF IInv, StoreInv
<1>2. Stored(tt, i) \in Int /\ loose[i] \in Int /\ \A x \in Storages : Stored(store[x], i) \in Int
  BY WorldInt, StoredInt DEF IInv, RestInv
<1>3. /\ \A x \in Storages : f[x] \in Int /\ g[x] \in Int
      /\ \A x \in Storages : x # s => g[x] = f[x]
      /\ g[s] = f[s] + n
  BY <1>1, <1>2
<1>4. InWorld(i) = loose[i] + SumOver(f, Storages) /\ InWorld(i)' = loose'[i] + SumOver(g, Storages)
  BY DEF InWorld
<1> HIDE DEF f, g
<1>5. SumOver(g, Storages) = SumOver(f, Storages) - f[s] + g[s]
  BY <1>3, SumOverChange
<1>6. SumOver(f, Storages) \in Int
  BY <1>3, SumOverInt
<1> QED
  BY <1>2, <1>3, <1>4, <1>5, <1>6

\* A move adds to one storage what it takes from another.
LEMMA TwoStoragesConserve ==
    ASSUME IInv, IsFiniteSet(Storages), NEW s \in Storages, NEW t \in Storages, s # t,
           NEW taken, NEW given, Sound(taken), Sound(given),
           store' = [store EXCEPT ![s] = taken, ![t] = given], NEW i \in Items, NEW n \in Int,
           Stored(taken, i) = Stored(store[s], i) - n,
           Stored(given, i) = Stored(store[t], i) + n, loose'[i] = loose[i]
    PROVE  InWorld(i)' = InWorld(i)
<1> DEFINE f == [x \in Storages |-> Stored(store[x], i)]
           h == [x \in Storages |-> IF x = s THEN Stored(taken, i) ELSE Stored(store[x], i)]
           g == [x \in Storages |-> Stored(store'[x], i)]
<1>1. /\ store'[s] = taken /\ store'[t] = given
      /\ \A x \in Storages \ {s, t} : store'[x] = store[x]
  BY DEF IInv, StoreInv
<1>2. /\ Stored(taken, i) \in Int /\ Stored(given, i) \in Int /\ loose[i] \in Int
      /\ \A x \in Storages : Stored(store[x], i) \in Int
  BY WorldInt, StoredInt DEF IInv, RestInv
<1>3. /\ \A x \in Storages : f[x] \in Int /\ h[x] \in Int /\ g[x] \in Int
      /\ \A x \in Storages : x # s => h[x] = f[x]
      /\ \A x \in Storages : x # t => g[x] = h[x]
      /\ h[s] = f[s] - n /\ h[t] = f[t] /\ g[t] = f[t] + n
  <2>1. \A x \in Storages : x # s => h[x] = f[x]
    OBVIOUS
  <2>2. \A x \in Storages : x # t => g[x] = h[x]
    <3>1. g[s] = h[s]
      BY <1>1
    <3>2. ASSUME NEW x \in Storages \ {s, t} PROVE g[x] = h[x]
      <4>1. store'[x] = store[x]
        BY <1>1
      <4>2. g[x] = Stored(store'[x], i) /\ h[x] = Stored(store[x], i)
        OBVIOUS
      <4> QED
        BY <4>1, <4>2
    <3> HIDE DEF g, h
    <3> QED
      BY <3>1, <3>2
  <2>3. h[s] = f[s] - n /\ g[t] = f[t] + n
    BY <1>1
  <2>4. f[s] \in Int /\ f[t] \in Int /\ \A x \in Storages : f[x] \in Int
    BY <1>2
  <2> HIDE DEF f, g, h
  <2>5. \A x \in Storages : h[x] \in Int
    BY <2>1, <2>3, <2>4
  <2>6. \A x \in Storages : g[x] \in Int
    BY <2>2, <2>3, <2>4, <2>5
  <2> QED
    BY <2>1, <2>2, <2>3, <2>4, <2>5, <2>6
<1>4. InWorld(i) = loose[i] + SumOver(f, Storages) /\ InWorld(i)' = loose'[i] + SumOver(g, Storages)
  BY DEF InWorld
<1> HIDE DEF f, g, h
<1>5. SumOver(h, Storages) = SumOver(f, Storages) - f[s] + h[s]
  BY <1>3, SumOverChange
<1>6. SumOver(g, Storages) = SumOver(h, Storages) - h[t] + g[t]
  BY <1>3, SumOverChange
<1>7. SumOver(f, Storages) \in Int
  BY <1>3, SumOverInt
<1> QED
  BY <1>2, <1>3, <1>4, <1>5, <1>6, <1>7

\* A call that changes no entry makes and loses nothing.
LEMMA SameEntriesConserve ==
    ASSUME loose' = loose, \A s \in Storages : store'[s].entries = store[s].entries
    PROVE  \A i : InWorld(i)' = InWorld(i)
<1> SUFFICES ASSUME NEW i PROVE InWorld(i)' = InWorld(i)
  OBVIOUS
<1>1. \A s \in Storages : Stored(store'[s], i) = Stored(store[s], i)
  BY DEF Stored, Holding
<1> QED
  BY <1>1 DEF InWorld

\* An addition that is not oversized suits the entry it joins.
LEMMA AdditionFits ==
    ASSUME ~Oversized, NEW s \in Storages, NEW m \in DOMAIN log', NEW i, NEW n, NEW f,
           Sound(store[s]), log'[m] = Batch(s, "Addition", {AdditionEvent(store[s], i, n, f)}),
           Joins(store[s], i)
    PROVE  store[s].entries[FindEntry(store[s], i)].limit \notin 1..(n - 1)
<1> DEFINE d == AdditionEvent(store[s], i, n, f)
<1>1. d.entry = FindEntry(store[s], i) /\ d.amount = n
  BY DEF AdditionEvent, Event
<1>2. FindEntry(store[s], i) \in DOMAIN store[s].entries
  BY FindsEntry
<1> HIDE DEF d
<1>3. log'[m] = Batch(s, "Addition", {d})
  BY DEF d
<1>4. log'[m].type = "Addition" /\ log'[m].storage = s /\ d \in log'[m].data
  BY <1>3 DEF Batch
<1> QED
  BY <1>1, <1>2, <1>4 DEF Oversized

\* A move conserves copies unless its addition is oversized.
LEMMA MovedConserves ==
    ASSUME ~Oversized, IInv, IsFiniteSet(Storages),
           NEW s \in Storages, NEW t \in Storages, s # t, NEW taken, Sound(taken),
           NEW x \in Items, NEW n \in Nat \ {0}, NEW f \in BOOLEAN, NEW released, NEW d,
           \A i \in Items : Stored(taken, i) = Stored(store[s], i) - (IF i = x THEN n ELSE 0),
           Moved(s, t, taken, x, n, f, released, d), NEW i \in Items
    PROVE  InWorld(i)' = InWorld(i)
<1> DEFINE given == Added(store[t], x, n, f)
           m == IF i = x THEN n ELSE 0
<1>1. Sound(store[t])
  BY StorageFacts DEF IInv
<1>2. Sound(given)
  BY <1>1, AddedSound DEF SoundStep
<1>3. 2 \in DOMAIN log' /\ log'[2] = Batch(t, "Addition", {AdditionEvent(store[t], x, n, f)})
  BY DEF Moved
<1>4. Joins(store[t], x) => store[t].entries[FindEntry(store[t], x)].limit \notin 1..(n - 1)
  BY <1>1, <1>3, AdditionFits
<1>5. Stored(given, i) = Stored(store[t], i) + m
  BY <1>1, <1>4, AddedCopies
<1>6. store' = [store EXCEPT ![s] = taken, ![t] = given] /\ loose' = loose
  BY DEF Moved
<1>7. Stored(taken, i) = Stored(store[s], i) - m /\ m \in Int
  OBVIOUS
<1> HIDE DEF given, m
<1> QED
  BY <1>2, <1>5, <1>6, <1>7, TwoStoragesConserve

\* Every call conserves copies unless an addition of it is oversized.
LEMMA NextConserves ==
    ASSUME ~Oversized, IInv, IsFiniteSet(Storages), Next, NEW i \in Items
    PROVE  InWorld(i)' = InWorld(i)
<1>1. \A n \in Amounts : IsAmount(n) /\ n \in Int
  BY InputsAssumption DEF Amounts, IsAmount, EntireStack
<1>2. loose[i] \in Int /\ loose = [x \in Items |-> loose[x]]
  BY DEF IInv, RestInv
<1>3. ASSUME NEW s \in Storages, StorageCall(s) PROVE InWorld(i)' = InWorld(i)
  <2> DEFINE st == store[s]
  <2>1. Sound(st) /\ WithinBounds(st)
    BY StorageFacts DEF IInv
  <2>2. ASSUME NEW x \in Items, NEW n \in 1..loose[x], NEW f \in BOOLEAN, NEW v \in Verdicts,
               AddItemStack(s, x, n, f, v)
        PROVE  InWorld(i)' = InWorld(i)
    <3> DEFINE tt == Added(st, x, n, f)
               m == IF i = x THEN n ELSE 0
    <3>1. n \in Nat \ {0}
      BY DEF IInv, RestInv
    <3>2. 1 \in DOMAIN log' /\ log'[1] = Batch(s, "Addition", {AdditionEvent(store[s], x, n, f)})
      BY <2>2 DEF AddItemStack
    <3>3. Joins(st, x) => st.entries[FindEntry(st, x)].limit \notin 1..(n - 1)
      BY <2>1, <3>2, AdditionFits
    <3>4. Stored(tt, i) = Stored(st, i) + m
      <4> HIDE DEF st
      <4>1. Stored(tt, i) = Stored(st, i) + (IF i = x THEN n ELSE 0)
        BY ONLY <2>1, x \in Items, f \in BOOLEAN, <3>1, <3>3, AddedCopies
      <4> QED
        BY <4>1
    <3>5. Sound(tt)
      BY <2>1, <3>1, AddedSound DEF SoundStep
    <3>6. store' = [store EXCEPT ![s] = tt] /\ loose' = [loose EXCEPT ![x] = @ - n]
      BY <2>2 DEF AddItemStack
    <3>7. loose'[i] = loose[i] - m /\ m \in Int
      BY <1>2, <3>1, <3>6
    <3> HIDE DEF tt, m
    <3> QED
      BY <3>4, <3>5, <3>6, <3>7, OneStorageConserves
  <2>3. ASSUME NEW tag \in RemovalTags, NEW kept \in SUBSET DOMAIN st.entries,
               Clear(s, kept, tag)
        PROVE  InWorld(i)' = InWorld(i)
    <3> DEFINE tt == Cleared(st, kept)
               m == - ClearedCopies(st, kept, i)
    <3>1. Sound(tt)
      BY <2>1, ClearedSound
    <3>2. /\ Stored(tt, i) = Stored(st, i) - ClearedCopies(st, kept, i)
          /\ ClearedCopies(st, kept, i) \in Int /\ Stored(st, i) \in Int
      BY <2>1, ClearedStored, StoredInt
    <3>3. /\ store' = [store EXCEPT ![s] = tt]
          /\ loose'[i] = loose[i] + ClearedCopies(st, kept, i)
      BY <2>3 DEF Clear
    <3> HIDE DEF tt, st
    <3>4. Stored(tt, i) = Stored(st, i) + m /\ loose'[i] = loose[i] - m /\ m \in Int
      BY <1>2, <3>2, <3>3
    <3> HIDE DEF m
    <3> QED
      BY <3>1, <3>3, <3>4, OneStorageConserves DEF st
  <2>4. ASSUME NEW k \in DOMAIN st.entries, NEW v \in Verdicts,
               NEW n \in Amounts, NEW tag \in RemovalTags, RemoveFromEntry(s, k, n, tag, v)
        PROVE  InWorld(i)' = InWorld(i)
    <3> DEFINE tt == RemovedFromEntry(st, k, n)
               x == st.entries[k].item
               c == EntryRemovalEvent(st, k, n).amount
               m == IF i = x THEN -c ELSE 0
    <3>1. Sound(tt)
      BY <1>1, <2>1, RemovedFromEntrySound DEF SoundStep
    <3>2. c \in Int /\ Stored(tt, i) = Stored(st, i) - (IF i = x THEN c ELSE 0) /\ Stored(st, i) \in Int
      BY <1>1, <2>1, RemovedFromEntryCopies, StoredInt
    <3>3. store' = [store EXCEPT ![s] = tt] /\ loose' = [loose EXCEPT ![x] = @ + c]
      BY <2>4 DEF RemoveFromEntry
    <3> HIDE DEF tt, x, c, st
    <3>4. Stored(tt, i) = Stored(st, i) + m /\ loose'[i] = loose[i] - m /\ m \in Int
      BY <1>2, <3>2, <3>3
    <3> HIDE DEF m
    <3> QED
      BY <3>1, <3>3, <3>4, OneStorageConserves DEF st
  <2>5. ASSUME NEW k \in DOMAIN st.entries, NEW v \in Verdicts,
               NEW j \in DOMAIN st.entries[k].stacks,
               NEW n \in Amounts, NEW tag \in RemovalTags, RemoveFromStack(s, k, j, n, tag, v)
        PROVE  InWorld(i)' = InWorld(i)
    <3> DEFINE tt == RemovedFromStack(st, k, j, n)
               x == st.entries[k].item
               c == StackRemovalAmount(st, k, j, n)
               m == IF i = x THEN -c ELSE 0
    <3>1. Sound(tt)
      BY <1>1, <2>1, RemovedFromStackSound DEF SoundStep
    <3>2. c \in Int /\ Stored(tt, i) = Stored(st, i) - (IF i = x THEN c ELSE 0) /\ Stored(st, i) \in Int
      BY <1>1, <2>1, RemovedFromStackCopies, StoredInt
    <3>3. store' = [store EXCEPT ![s] = tt] /\ loose' = [loose EXCEPT ![x] = @ + c]
      BY <2>5 DEF RemoveFromStack, StackRemovalEvent, Event
    <3> HIDE DEF tt, x, c, st
    <3>4. Stored(tt, i) = Stored(st, i) + m /\ loose'[i] = loose[i] - m /\ m \in Int
      BY <1>2, <3>2, <3>3
    <3> HIDE DEF m
    <3> QED
      BY <3>1, <3>3, <3>4, OneStorageConserves DEF st
  <2>6. ASSUME NEW k \in DOMAIN st.entries, NEW v \in Verdicts,
               NEW j \in DOMAIN st.entries[k].stacks,
               NEW n \in SplitAmounts, Split(s, k, j, n, v)
        PROVE  InWorld(i)' = InWorld(i)
    <3> DEFINE tt == SplitOff(st, k, j, n)
    <3>1. n \in Int
      BY InputsAssumption
    <3>2. Sound(tt)
      <4> DEFINE e == SplitStack(st.entries[k], j, n)
                 p == PostContentChanged(st.proxies, k, e)
      <4>1. IsEntry(e) /\ Continues(st.entries[k], e)
        BY <2>1, <3>1, SplitStackContinues DEF Sound, IsStorage
      <4>2. IsProxies(p)
        BY <2>1, ProxiesStayProxies DEF Sound, IsStorage, IsProxies
      <4>3. SetEntry(st, k, e).proxies = st.proxies
        BY <2>1 DEF SetEntry, Sound, IsStorage
      <4> HIDE DEF e
      <4>4. tt = [SetEntry(st, k, e) EXCEPT !.proxies = p]
        BY <4>3 DEF SplitOff, e
      <4> HIDE DEF p, tt
      <4> QED
        BY <2>1, <4>1, <4>2, <4>4, EntryContinues DEF SoundStep
    <3>3. Stored(tt, i) = Stored(st, i) /\ Stored(st, i) \in Int
      BY <2>1, <3>1, SplitOffCopies, StoredInt
    <3>4. store' = [store EXCEPT ![s] = tt] /\ loose' = loose
      BY <2>6 DEF Split
    <3> HIDE DEF tt
    <3> DEFINE m == 0
    <3>5. Stored(tt, i) = Stored(store[s], i) + m /\ loose'[i] = loose[i] - m /\ m \in Int
      BY <1>2, <3>3, <3>4
    <3> HIDE DEF m
    <3> QED
      BY <3>2, <3>4, <3>5, OneStorageConserves
  <2>7. ASSUME NEW k \in DOMAIN st.entries, NEW v \in Verdicts,
               NEW j \in DOMAIN st.entries[k].stacks,
               NEW from \in StackKeys, MergeStacks(s, k, from, j, v)
        PROVE  InWorld(i)' = InWorld(i)
    BY <2>7, SameEntriesConserve DEF MergeStacks
  <2>8. ASSUME NEW a \in Watched, RequestProxy(s, a)
        PROVE  InWorld(i)' = InWorld(i)
    <3>1. loose' = loose
      BY <2>8 DEF RequestProxy
    <3>2. \A x \in Storages : store'[x].entries = store[x].entries
      BY <2>8, StorageFacts DEF RequestProxy, IInv, StoreInv
    <3> QED
      BY <3>1, <3>2, SameEntriesConserve
  <2>9. ASSUME NEW a \in Watched, DropProxy(s, a)
        PROVE  InWorld(i)' = InWorld(i)
    <3>1. loose' = loose
      BY <2>9 DEF DropProxy
    <3>2. \A x \in Storages : store'[x].entries = store[x].entries
      BY <2>9, StorageFacts DEF DropProxy, IInv, StoreInv
    <3> QED
      BY <3>1, <3>2, SameEntriesConserve
  <2> QED
    BY <1>3, <2>2, <2>3, <2>4, <2>5, <2>6, <2>7, <2>8, <2>9 DEF StorageCall
<1>4. ASSUME NEW x \in Mutables, MutateItem(x) PROVE InWorld(i)' = InWorld(i)
  <2>1. loose' = loose
    BY <1>4 DEF MutateItem
  <2>2. \A s \in Storages : store'[s].entries = store[s].entries
    BY <1>4, StorageFacts DEF MutateItem, IInv, StoreInv
  <2> QED
    BY <2>1, <2>2, SameEntriesConserve
<1>5. ASSUME NEW s \in Storages, NEW t \in Storages, TransferCall(s, t)
      PROVE  InWorld(i)' = InWorld(i)
  <2> DEFINE st == store[s]
  <2>1. Sound(st)
    BY StorageFacts DEF IInv
  <2>2. ASSUME NEW k \in DOMAIN st.entries, NEW f \in BOOLEAN,
               NEW v \in Verdicts, NEW w \in Verdicts, MoveEntry(s, t, k, f, v, w)
        PROVE  InWorld(i)' = InWorld(i)
    <3> DEFINE taken == WithoutEntry(st, k)
               n == StackSum(st.entries[k])
               x == st.entries[k].item
               released == TRUE
               d == EntryRemovalEvent(st, k, EntireStack)
    <3>1. Sound(taken) /\ \A y \in Items : Stored(taken, y) = Stored(st, y) - (IF y = x THEN n ELSE 0)
      BY <2>1, WithoutEntrySound, WithoutEntryCopies DEF SoundStep
    <3>2. n \in Int /\ x \in Items
      BY StorageFacts DEF IInv
    <3>3. n \in Nat \ {0} /\ s # t
      BY <2>2, <3>2 DEF MoveEntry, CanAddStack
    <3>4. Moved(s, t, taken, x, n, f, released, d)
      BY <2>2 DEF MoveEntry
    <3> HIDE DEF taken, n, x, released, d
    <3> QED
      BY <3>1, <3>2, <3>3, <3>4, MovedConserves
  <2>3. ASSUME NEW k \in DOMAIN st.entries, NEW f \in BOOLEAN,
               NEW v \in Verdicts, NEW w \in Verdicts,
               NEW j \in DOMAIN st.entries[k].stacks, NEW c \in Amounts,
               MoveStack(s, t, k, j, c, f, v, w)
        PROVE  InWorld(i)' = InWorld(i)
    <3> DEFINE taken == RemovedFromStack(st, k, j, c)
               n == StackRemovalAmount(st, k, j, c)
               x == st.entries[k].item
               released == RemovesOnlyStack(st, k, j, c)
               d == StackRemovalEvent(st, k, j, c)
    <3>1. Sound(taken) /\ \A y \in Items : Stored(taken, y) = Stored(st, y) - (IF y = x THEN n ELSE 0)
      BY <1>1, <2>1, RemovedFromStackSound, RemovedFromStackCopies DEF SoundStep
    <3>2. n \in Int /\ x \in Items
      BY <1>1, <2>1, RemovedFromStackCopies, StorageFacts DEF IInv
    <3>3. n \in Nat \ {0} /\ s # t
      BY <2>3, <3>2 DEF MoveStack, CanAddStack
    <3>4. Moved(s, t, taken, x, n, f, released, d)
      BY <2>3 DEF MoveStack
    <3> HIDE DEF taken, n, x, released, d
    <3> QED
      BY ONLY ~Oversized, IInv, IsFiniteSet(Storages), i \in Items, s \in Storages, t \in Storages,
              f \in BOOLEAN, <3>1, <3>2, <3>3, <3>4, MovedConserves
  <2> QED
    BY <1>5, <2>2, <2>3 DEF TransferCall
<1> QED
  BY <1>3, <1>4, <1>5 DEF Next

\* No call makes a copy of an item or loses one, but for an addition of more
\* copies than a stack takes to an entry that was there (AddToNewStacks makes
\* each new stack with all of them): in any finite number of storages.
THEOREM CopiesStay == IsFiniteSet(Storages) => (Spec => CopiesConserved)
<1> SUFFICES ASSUME IsFiniteSet(Storages) PROVE Spec => CopiesConserved
  OBVIOUS
<1>1. IInv /\ [Next]_vars => [~Oversized => \A i \in Items : InWorld(i)' = InWorld(i)]_vars
  BY NextConserves
<1> QED
  BY <1>1, Invariance, PTL DEF Spec, CopiesConserved

-----------------------------------------------------------------------------
(* EquipmentSlots.                                                          *)

-----------------------------------------------------------------------------
(* Worlds.                                                                  *)

IsSlot(sl) ==
    /\ sl = [item |-> sl.item, copies |-> sl.copies, key |-> sl.key, gen |-> sl.gen]
    /\ sl.item \in Items \cup {Nothing}
    /\ sl.copies \in Int
    /\ sl.item = Nothing => sl.copies = 0
    /\ sl.gen \in Int /\ sl.gen >= KeyGenReset
    /\ sl.key = InvalidKey \/ sl.key \in (KeyGenReset + 1)..sl.gen

IsWorld(w) ==
    /\ w = [store |-> w.store, slots |-> w.slots, owner |-> w.owner, gone |-> w.gone,
            log |-> w.log, halted |-> w.halted]
    /\ w.store = [s \in Storages |-> w.store[s]]
    /\ \A s \in Storages : Sound(w.store[s])
    /\ w.slots = [s \in Slots |-> w.slots[s]]
    /\ \A s \in Slots : IsSlot(w.slots[s])
    /\ IsHooks(w.owner)
    /\ w.gone = [i \in Items |-> w.gone[i]]
    /\ \A i \in Items : w.gone[i] \in Int
    /\ \E B : w.log \in Seq(B)
    /\ w.halted \in BOOLEAN

IsStack(stack) ==
    /\ stack = Stack(stack.item, stack.copies)
    /\ stack.item \in Items \cup {Nothing}
    /\ stack.copies \in Int
    /\ stack.item = Nothing => stack.copies = 0

\* What a slot may become: its generator only counts up, and its key is the one
\* it had for the item it had, a new one, or none.
SlotStep(x, y) ==
    /\ y.gen >= x.gen
    /\ \/ y.key = InvalidKey
       \/ y.key = x.key /\ y.item = x.item
       \/ y.key > x.gen

KeepsKeys(w, v) == \A s \in Slots : SlotStep(w.slots[s], v.slots[s])

\* The links of a chain add up.
LEMMA KeepsKeysTransitive ==
    ASSUME NEW u, NEW v, NEW w, IsWorld(u), IsWorld(v), IsWorld(w),
           KeepsKeys(u, v), KeepsKeys(v, w)
    PROVE  KeepsKeys(u, w)
<1> SUFFICES ASSUME NEW s \in Slots PROVE SlotStep(u.slots[s], w.slots[s])
  BY DEF KeepsKeys
<1>1. /\ SlotStep(u.slots[s], v.slots[s]) /\ SlotStep(v.slots[s], w.slots[s])
      /\ IsSlot(u.slots[s]) /\ IsSlot(v.slots[s]) /\ IsSlot(w.slots[s])
  BY DEF KeepsKeys, IsWorld
<1> QED
  BY <1>1 DEF SlotStep, IsSlot, InvalidKey, KeyGenReset

\* A world that has the slots of another keeps their keys.
LEMMA KeepsKeysSame ==
    ASSUME NEW w, NEW v, IsWorld(w), v.slots = w.slots
    PROVE  KeepsKeys(w, v)
<1> SUFFICES ASSUME NEW s \in Slots PROVE SlotStep(w.slots[s], v.slots[s])
  BY DEF KeepsKeys
<1>1. w.slots[s].gen \in Int
  BY DEF IsWorld, IsSlot
<1> QED
  BY <1>1 DEF SlotStep

\* An event more at the end of the log.
LEMMA LogGrows ==
    ASSUME NEW w, NEW b, IsWorld(w)
    PROVE  /\ \E B : Append(w.log, b) \in Seq(B)
           /\ \A m \in DOMAIN w.log : m \in DOMAIN Append(w.log, b) /\ Append(w.log, b)[m] = w.log[m]
           /\ \E m \in DOMAIN Append(w.log, b) : Append(w.log, b)[m] = b
<1>1. PICK B : w.log \in Seq(B)
  BY DEF IsWorld
<1>2. w.log \in Seq(B \cup {b}) /\ Append(w.log, b) \in Seq(B \cup {b})
  BY <1>1
<1>3. Len(w.log) + 1 \in DOMAIN Append(w.log, b) /\ Append(w.log, b)[Len(w.log) + 1] = b
  BY <1>1
<1>4. \A m \in DOMAIN w.log : m \in DOMAIN Append(w.log, b) /\ Append(w.log, b)[m] = w.log[m]
  BY <1>1
<1> QED
  BY <1>2, <1>3, <1>4

\* SetStoredItem makes a world of one.
LEMMA SetStoredItemWorld ==
    ASSUME NEW w, IsWorld(w), NEW s \in Slots, NEW i \in Items \cup {Nothing}, NEW n \in Int,
           i = Nothing => n = 0
    PROVE  /\ IsWorld(SetStoredItem(w, s, i, n))
           /\ KeepsKeys(w, SetStoredItem(w, s, i, n))
<1> DEFINE sl == w.slots[s]
           v == SetStoredItem(w, s, i, n)
           x == v.slots[s]
<1>1. IsSlot(sl) /\ IsHooks(w.owner)
  BY DEF IsWorld
<1>2. v.store = w.store /\ (\A t \in Slots : t # s => v.slots[t] = w.slots[t])
  BY DEF IsWorld, SetStoredItem
<1>3. v.slots = [t \in Slots |-> v.slots[t]]
  BY DEF IsWorld, SetStoredItem
<1>4. /\ i = sl.item => x = [sl EXCEPT !.copies = @ + n]
      /\ i # sl.item => x = [item |-> i, copies |-> n, key |-> sl.gen + 1, gen |-> sl.gen + 1]
  BY DEF IsWorld, SetStoredItem, NextSlotKey
<1>5. IsSlot(x) /\ SlotStep(sl, x)
  <2>1. CASE i = sl.item
    <3>1. x = [item |-> sl.item, copies |-> sl.copies + n, key |-> sl.key, gen |-> sl.gen]
      BY <1>1, <1>4, <2>1 DEF IsSlot
    <3>2. sl.copies + n \in Int /\ (sl.item = Nothing => sl.copies + n = 0)
      BY <1>1, <2>1 DEF IsSlot
    <3> QED
      BY <1>1, <3>1, <3>2 DEF IsSlot, SlotStep
  <2>2. CASE i # sl.item
    BY <1>1, <1>4, <2>2 DEF IsSlot, SlotStep, KeyGenReset, InvalidKey
  <2> QED
    BY <2>1, <2>2
<1>6. \A t \in Slots : IsSlot(v.slots[t]) /\ SlotStep(w.slots[t], v.slots[t])
  <2>1. \A t \in Slots : IsSlot(w.slots[t]) /\ SlotStep(w.slots[t], w.slots[t])
    BY DEF IsWorld, IsSlot, SlotStep
  <2> QED
    BY <1>2, <1>5, <2>1
<1>7. IsHooks(v.owner)
  BY <1>1, OwnershipTyped DEF SetStoredItem
<1>8. v.gone = [j \in Items |-> w.gone[j] + IF j = sl.item /\ i # j THEN sl.copies ELSE 0]
  BY DEF SetStoredItem
<1>9. v.gone = [j \in Items |-> v.gone[j]] /\ \A j \in Items : v.gone[j] \in Int
  BY <1>1, <1>8 DEF IsWorld, IsSlot
<1>10. \E B : v.log \in Seq(B)
  BY LogGrows DEF SetStoredItem, Told
<1>11. v = [store |-> v.store, slots |-> v.slots, owner |-> v.owner, gone |-> v.gone,
            log |-> v.log, halted |-> v.halted] /\ v.halted \in BOOLEAN
  BY DEF SetStoredItem
<1> HIDE DEF v, x
<1>12. IsWorld(v)
  BY <1>2, <1>3, <1>6, <1>7, <1>9, <1>10, <1>11 DEF IsWorld
<1>13. KeepsKeys(w, v)
  BY <1>6 DEF KeepsKeys
<1> QED
  BY <1>12, <1>13 DEF v

\* TakeItemFromSlot makes a world of one.
LEMMA TakeItemWorld ==
    ASSUME NEW w, IsWorld(w), NEW s \in Slots, NEW n \in Int, NEW tag,
           w.slots[s].item # Nothing
    PROVE  /\ IsWorld(TakeItem(w, s, n, tag))
           /\ KeepsKeys(w, TakeItem(w, s, n, tag))
<1> DEFINE sl == w.slots[s]
           v == TakeItem(w, s, n, tag)
           x == v.slots[s]
           taken == IF n = EntireStack THEN sl.copies ELSE n
<1>1. IsSlot(sl) /\ IsHooks(w.owner) /\ taken \in Int
  BY DEF IsWorld, IsSlot
<1>2. v.store = w.store /\ v.gone = w.gone /\ (\A t \in Slots : t # s => v.slots[t] = w.slots[t])
  BY DEF IsWorld, TakeItem
<1>3. v.slots = [t \in Slots |-> v.slots[t]]
  BY DEF IsWorld, TakeItem
<1>4. x = IF taken = sl.copies THEN EmptySlot(sl) ELSE [sl EXCEPT !.copies = @ - taken]
  BY DEF IsWorld, TakeItem
<1>5. IsSlot(x) /\ SlotStep(sl, x)
  <2>1. CASE taken = sl.copies
    BY <1>1, <1>4, <2>1 DEF IsSlot, SlotStep, EmptySlot
  <2>2. CASE taken # sl.copies
    <3>1. x = [item |-> sl.item, copies |-> sl.copies - taken, key |-> sl.key, gen |-> sl.gen]
      BY <1>1, <1>4, <2>2 DEF IsSlot
    <3> HIDE DEF taken
    <3> QED
      BY <1>1, <3>1 DEF IsSlot, SlotStep
  <2> QED
    BY <2>1, <2>2
<1>6. \A t \in Slots : IsSlot(v.slots[t]) /\ SlotStep(w.slots[t], v.slots[t])
  <2>1. \A t \in Slots : IsSlot(w.slots[t]) /\ SlotStep(w.slots[t], w.slots[t])
    BY DEF IsWorld, IsSlot, SlotStep
  <2> QED
    BY <1>2, <1>5, <2>1
<1>7. IsHooks(v.owner)
  BY <1>1, OwnershipTyped DEF TakeItem
<1>8. \E B : v.log \in Seq(B)
  BY LogGrows DEF TakeItem, Told
<1>9. v = [store |-> v.store, slots |-> v.slots, owner |-> v.owner, gone |-> v.gone,
           log |-> v.log, halted |-> v.halted] /\ v.halted = w.halted
  BY DEF TakeItem
<1> HIDE DEF v, x
<1>10. IsWorld(v)
  BY <1>2, <1>3, <1>6, <1>7, <1>8, <1>9 DEF IsWorld
<1>11. KeepsKeys(w, v)
  BY <1>6 DEF KeepsKeys
<1> QED
  BY <1>10, <1>11 DEF v

\* A stack that is let go of makes a world of one.
LEMMA LoseWorld ==
    ASSUME NEW w, IsWorld(w), NEW stack, IsStack(stack)
    PROVE  /\ Lose(w, stack) = [store |-> w.store, slots |-> w.slots, owner |-> w.owner,
                                gone |-> [j \in Items |-> w.gone[j] + IF j = stack.item THEN stack.copies ELSE 0],
                                log |-> w.log, halted |-> w.halted]
           /\ IsWorld(Lose(w, stack)) /\ KeepsKeys(w, Lose(w, stack))
<1> DEFINE g == [j \in Items |-> w.gone[j] + IF j = stack.item THEN stack.copies ELSE 0]
           v == [store |-> w.store, slots |-> w.slots, owner |-> w.owner, gone |-> g,
                 log |-> w.log, halted |-> w.halted]
<1>1. Lose(w, stack) = v
  <2>1. w = [store |-> w.store, slots |-> w.slots, owner |-> w.owner, gone |-> w.gone,
             log |-> w.log, halted |-> w.halted]
    BY DEF IsWorld
  <2>2. Lose(w, stack) = [w EXCEPT !.gone = g]
    BY DEF Lose
  <2> HIDE DEF g
  <2> QED
    BY <2>1, <2>2
<1>2. g = [j \in Items |-> g[j]] /\ \A j \in Items : g[j] \in Int
  BY DEF IsWorld, IsStack
<1> HIDE DEF g
<1>3. IsWorld(v)
  BY <1>2 DEF IsWorld
<1>4. KeepsKeys(w, v)
  BY KeepsKeysSame
<1> QED
  BY <1>1, <1>3, <1>4 DEF g

\* A container that is given a stack takes it or lets it go.
IsHandler(h) == h.place \in Slots \cup Storages /\ h.force \in BOOLEAN

\* The storage of a handler takes a stack.
Stores(w, h, stack) ==
    [store  |-> [w.store EXCEPT ![h.place] = Added(@, stack.item, stack.copies, h.force)],
     slots  |-> w.slots,
     owner  |-> TakeOwnership(w.owner, h.place, stack.item),
     gone   |-> w.gone,
     log    |-> Append(w.log, Batch(h.place, "Addition",
                    {AdditionEvent(w.store[h.place], stack.item, stack.copies, h.force)})),
     halted |-> w.halted]

\* What Possess does, case by case.
LEMMA PossessedCases ==
    ASSUME NEW w, NEW h, IsHandler(h), NEW stack, IsStack(stack), NEW verdict
    PROVE  \/ /\ h.place \in Slots /\ CanSetInSlot(w, h.place, stack.item, verdict)
              /\ Possessed(w, h, stack, verdict) = SetStoredItem(w, h.place, stack.item, stack.copies)
           \/ /\ h.place \in Storages /\ stack.item \in Items /\ stack.copies \in Nat \ {0}
              /\ Possessed(w, h, stack, verdict) = Stores(w, h, stack)
           \/ Possessed(w, h, stack, verdict) = Lose(w, stack)
<1>1. CASE h.place \in Slots
  BY <1>1 DEF Possessed
<1>2. CASE h.place \in Storages
  <2>1. h.place \notin Slots
    BY <1>2, SlotsAssumption
  <2>2. CASE CanAddStack(stack.copies, verdict)
    <3>1. stack.copies \in Nat \ {0}
      BY <2>2 DEF CanAddStack, IsStack
    <3>2. stack.item \in Items
      BY <3>1 DEF IsStack
    <3> QED
      BY <1>2, <2>1, <2>2, <3>1, <3>2 DEF Possessed, Stores
  <2> QED
    BY <2>1, <2>2 DEF Possessed
<1> QED
  BY <1>1, <1>2 DEF IsHandler

\* A storage that takes a stack makes a world of one.
LEMMA StoresWorld ==
    ASSUME NEW w, IsWorld(w), NEW h, IsHandler(h), h.place \in Storages,
           NEW stack, stack.item \in Items, stack.copies \in Nat \ {0}
    PROVE  /\ IsWorld(Stores(w, h, stack)) /\ KeepsKeys(w, Stores(w, h, stack))
           /\ Stores(w, h, stack).store[h.place]
                 = Added(w.store[h.place], stack.item, stack.copies, h.force)
           /\ \A s \in Storages : s # h.place => Stores(w, h, stack).store[s] = w.store[s]
<1> DEFINE v == Stores(w, h, stack)
           s == h.place
           tt == Added(w.store[s], stack.item, stack.copies, h.force)
<1>1. Sound(w.store[s]) /\ IsHooks(w.owner)
  BY DEF IsWorld
<1>2. Sound(tt)
  BY <1>1, AddedSound DEF SoundStep, IsHandler
<1> HIDE DEF tt
<1>3. v.store = [w.store EXCEPT ![s] = tt]
  BY DEF Stores, tt
<1>4. /\ v.store = [x \in Storages |-> v.store[x]] /\ v.store[s] = tt
      /\ \A x \in Storages : x # s => v.store[x] = w.store[x]
  BY <1>3 DEF IsWorld
<1>5. \A x \in Storages : Sound(v.store[x])
  BY <1>2, <1>4 DEF IsWorld
<1>6. IsHooks(v.owner)
  BY <1>1, OwnershipTyped DEF Stores
<1>7. \E B : v.log \in Seq(B)
  BY LogGrows DEF Stores
<1>8. /\ v = [store |-> v.store, slots |-> v.slots, owner |-> v.owner, gone |-> v.gone,
              log |-> v.log, halted |-> v.halted]
      /\ v.slots = w.slots /\ v.gone = w.gone /\ v.halted = w.halted
  BY DEF Stores
<1> HIDE DEF v
<1>9. IsWorld(v)
  BY <1>4, <1>5, <1>6, <1>7, <1>8 DEF IsWorld
<1>10. KeepsKeys(w, v)
  BY <1>8, KeepsKeysSame
<1> QED
  BY <1>4, <1>9, <1>10 DEF v, tt

\* Possess makes a world of one.
LEMMA PossessedWorld ==
    ASSUME NEW w, IsWorld(w), NEW h, IsHandler(h), NEW stack, IsStack(stack), NEW verdict
    PROVE  IsWorld(Possessed(w, h, stack, verdict)) /\ KeepsKeys(w, Possessed(w, h, stack, verdict))
<1> DEFINE v == Possessed(w, h, stack, verdict)
<1>1. stack.item \in Items \cup {Nothing} /\ stack.copies \in Int /\ (stack.item = Nothing => stack.copies = 0)
  BY DEF IsStack
<1>2. CASE h.place \in Slots /\ v = SetStoredItem(w, h.place, stack.item, stack.copies)
  BY <1>1, <1>2, SetStoredItemWorld
<1>3. CASE h.place \in Storages /\ stack.item \in Items /\ stack.copies \in Nat \ {0} /\ v = Stores(w, h, stack)
  BY <1>3, StoresWorld
<1>4. CASE v = Lose(w, stack)
  BY <1>4, LoseWorld
<1> QED
  BY <1>2, <1>3, <1>4, PossessedCases

-----------------------------------------------------------------------------
(* The world of a state.                                                    *)

AllTyped == IInv /\ IsWorld(World)

\* A source is a slot that is filled or a stack that is there.
IsSource(h) ==
    /\ IsHandler(h)
    /\ h.place \in Storages =>
          /\ h.entry \in DOMAIN store[h.place].entries
          /\ h.stack \in DOMAIN store[h.place].entries[h.entry].stacks
          /\ h.amount \in Amounts
    /\ h.place \in Slots => slots[h.place].item # Nothing

\* The handlers that the requests name.
LEMMA Handlers ==
    /\ \A h \in Sources : IsSource(h)
    /\ \A h \in Targets : IsHandler(h)
<1>1. ASSUME NEW h \in Sources PROVE IsSource(h)
  <2>1. CASE h \in SlotSources
    <3>1. PICK s \in Slots : IsFilled(slots[s]) /\ h = SlotHandler(s, FALSE)
      BY <2>1 DEF SlotSources
    <3>2. h.place = s /\ h.force = FALSE
      BY <3>1 DEF SlotHandler
    <3> QED
      BY <3>1, <3>2, SlotsAssumption DEF IsSource, IsHandler, IsFilled
  <2>2. CASE h \notin SlotSources
    <3>1. PICK s \in Storages : \E k \in DOMAIN store[s].entries : h \in EntrySources(s, k)
      BY <2>2 DEF Sources
    <3>2. PICK k \in DOMAIN store[s].entries :
              h \in EntrySources(s, k)
      BY <3>1
    <3>3. PICK j \in DOMAIN store[s].entries[k].stacks, n \in Amounts : h = StackHandler(s, k, j, n)
      BY <3>2 DEF EntrySources
    <3>4. h.place = s /\ h.entry = k /\ h.stack = j /\ h.amount = n /\ h.force = FALSE
      BY <3>3 DEF StackHandler
    <3> QED
      BY <3>2, <3>3, <3>4, SlotsAssumption DEF IsSource, IsHandler
  <2> QED
    BY <2>1, <2>2
<1>2. ASSUME NEW h \in Targets PROVE IsHandler(h)
  <2>1. CASE h \in {SlotHandler(s, canSwap) : s \in Slots, canSwap \in CanSwapSlots}
    <3>1. PICK s \in Slots, canSwap \in CanSwapSlots : h = SlotHandler(s, canSwap)
      BY <2>1
    <3> QED
      BY <3>1 DEF IsHandler, SlotHandler
  <2>2. CASE h \in {StorageHandler(s, f) : s \in Storages, f \in BOOLEAN}
    BY <2>2 DEF IsHandler, StorageHandler
  <2> QED
    BY <2>1, <2>2 DEF Targets
<1> QED
  BY <1>1, <1>2

\* What a source shows is a stack, and releasing it makes a world of one.
LEMMA ReleasedWorld ==
    ASSUME AllTyped, NEW h, IsSource(h)
    PROVE  /\ IsStack(Viewed(h))
           /\ IsWorld(Released(h)) /\ KeepsKeys(World, Released(h))
<1> USE DEF AllTyped
<1>1. CASE h.place \in Slots
  <2>1. World.slots = slots /\ IsSlot(slots[h.place])
    BY <1>1 DEF World, IsWorld
  <2>2. IsStack(Viewed(h))
    BY <1>1, <2>1 DEF Viewed, IsStack, Stack, IsSlot
  <2>3. Released(h) = TakeItem(World, h.place, EntireStack, "RemovalMoving")
    BY <1>1 DEF Released
  <2>4. World.slots[h.place].item # Nothing /\ EntireStack \in Int
    BY <1>1, <2>1 DEF IsSource, EntireStack
  <2> QED
    BY <1>1, <2>2, <2>3, <2>4, TakeItemWorld
<1>2. CASE h.place \in Storages
  <2> DEFINE s == h.place
             st == store[s]
             tt == RemovedFromStack(st, h.entry, h.stack, h.amount)
             v == Released(h)
             n == StackRemovalAmount(st, h.entry, h.stack, h.amount)
  <2>1. h.place \notin Slots
    BY <1>2, SlotsAssumption
  <2>2. /\ h.entry \in DOMAIN st.entries /\ h.stack \in DOMAIN st.entries[h.entry].stacks
        /\ h.amount \in Int /\ Sound(st)
    <3>1. \A n1 \in Amounts : n1 \in Int
      BY InputsAssumption DEF Amounts, EntireStack
    <3>2. Sound(st)
      BY <1>2, StorageFacts DEF IInv
    <3> QED
      BY <1>2, <3>1, <3>2 DEF IsSource
  <2>3. Sound(tt) /\ n \in Int
    BY <2>2, RemovedFromStackSound DEF SoundStep
  <2>4. st.entries[h.entry].item \in Items
    BY <1>2, <2>2, StorageFacts DEF IInv
  <2>5. IsStack(Viewed(h))
    <3>1. Viewed(h) = Stack(st.entries[h.entry].item, n)
      BY <1>2, <2>1 DEF Viewed
    <3> HIDE DEF n
    <3> QED
      BY <2>3, <2>4, <3>1, SlotsAssumption DEF IsStack, Stack
  <2>6. /\ v.store = [store EXCEPT ![s] = tt] /\ v.slots = slots /\ v.gone = gone
        /\ v.owner = IF RemovesOnlyStack(st, h.entry, h.stack, h.amount)
                     THEN ReleaseOwnership(owner, {st.entries[h.entry].item}) ELSE owner
        /\ \E b : v.log = <<b>>
        /\ v = [store |-> v.store, slots |-> v.slots, owner |-> v.owner, gone |-> v.gone,
                log |-> v.log, halted |-> v.halted] /\ v.halted = FALSE
    BY <1>2, <2>1 DEF Released
  <2> HIDE DEF tt, v, n
  <2>7. store = [x \in Storages |-> store[x]] /\ \A x \in Storages : Sound(store[x])
    BY DEF IInv, StoreInv
  <2>8. v.store = [x \in Storages |-> v.store[x]] /\ \A x \in Storages : Sound(v.store[x])
    BY <2>3, <2>6, <2>7
  <2>9. IsHooks(v.owner)
    BY <2>6, OwnershipTyped DEF IInv, RestInv
  <2>10. \E B : v.log \in Seq(B)
    <3>1. PICK b : v.log = <<b>>
      BY <2>6
    <3>2. v.log \in Seq({b})
      BY <3>1
    <3> QED
      BY <3>2
  <2>11. World.slots = slots /\ World.gone = gone
    BY DEF World
  <2>12. IsWorld(v)
    BY <2>6, <2>8, <2>9, <2>10, <2>11 DEF IsWorld
  <2> QED
    BY <2>5, <2>6, <2>11, <2>12, KeepsKeysSame DEF v
<1> QED
  BY <1>1, <1>2 DEF IsSource, IsHandler

\* What TrySwapSlots and a swapping move take out of a slot, if anything.
LEMMA EmptiedWorld ==
    ASSUME NEW w, IsWorld(w), NEW s \in Slots, NEW v
    PROVE  /\ IsWorld(Emptied(w, s, v).world) /\ KeepsKeys(w, Emptied(w, s, v).world)
           /\ IsStack(Emptied(w, s, v).stack)
           /\ \/ Emptied(w, s, v) = [world |-> w, stack |-> EmptyStack]
              \/ /\ w.slots[s].item \in Items
                 /\ Emptied(w, s, v).world = TakeItem(w, s, EntireStack, "RemovalMoving")
                 /\ Emptied(w, s, v).stack = Stack(w.slots[s].item, w.slots[s].copies)
<1>1. IsSlot(w.slots[s])
  BY DEF IsWorld
<1>2. CASE CanTakeFromSlot(w, s, EntireStack, v)
  <2>1. Emptied(w, s, v) = [world |-> TakeItem(w, s, EntireStack, "RemovalMoving"),
                            stack |-> Stack(w.slots[s].item, w.slots[s].copies)]
    BY <1>2 DEF Emptied
  <2>2. w.slots[s].item # Nothing /\ EntireStack \in Int
    BY <1>2 DEF CanTakeFromSlot, EntireStack
  <2>3. IsStack(Stack(w.slots[s].item, w.slots[s].copies))
    BY <1>1, SlotsAssumption DEF IsSlot, IsStack, Stack
  <2>4. w.slots[s].item \in Items
    BY <1>1, <2>2 DEF IsSlot
  <2> QED
    BY <2>1, <2>2, <2>3, <2>4, TakeItemWorld
<1>3. CASE ~CanTakeFromSlot(w, s, EntireStack, v)
  <2>1. Emptied(w, s, v) = [world |-> w, stack |-> EmptyStack]
    BY <1>3 DEF Emptied
  <2>2. IsStack(EmptyStack)
    BY DEF IsStack, EmptyStack, Stack
  <2> QED
    BY <2>1, <2>2, KeepsKeysSame
<1> QED
  BY <1>2, <1>3

-----------------------------------------------------------------------------
(* Every step keeps the types and the slots' keys.                          *)

\* The slots of the state keep their keys.
SlotsKeepKeys == \A s \in Slots : SlotStep(slots[s], slots'[s])

\* A call that leaves a world behind.
LEMMA BecomesWorld ==
    ASSUME AllTyped, NEW w, IsWorld(w), KeepsKeys(World, w), Becomes(w),
           loose' = [i \in Items |-> loose'[i]], \A i \in Items : loose'[i] \in Int
    PROVE  AllTyped' /\ SlotsKeepKeys
<1>1. /\ store' = w.store /\ slots' = w.slots /\ owner' = w.owner /\ gone' = w.gone
      /\ halted' = w.halted /\ \A s \in Storages : WithinBounds(store'[s])
  BY DEF Becomes
<1>2. StoreInv' /\ RestInv'
  BY <1>1 DEF StoreInv, RestInv, IsWorld
<1>3. World' = [store |-> store', slots |-> slots', owner |-> owner', gone |-> gone',
                log |-> <<>>, halted |-> FALSE]
  BY DEF World
<1>4. <<>> \in Seq({})
  OBVIOUS
<1>5. IsWorld(World')
  BY <1>1, <1>3, <1>4 DEF IsWorld
<1>6. IsWorld(World)'
  BY <1>5 DEF IsWorld
<1>7. SlotsKeepKeys
  BY <1>1 DEF SlotsKeepKeys, KeepsKeys, World
<1> QED
  BY <1>2, <1>6, <1>7 DEF AllTyped, IInv

\* The world a move to a slot or a storage ends in.
LEMMA MovesWorlds ==
    ASSUME AllTyped, NEW from, IsSource(from), NEW to, IsHandler(to)
    PROVE  /\ \A v : /\ IsWorld(Possessed(Released(from), to, Viewed(from), v))
                     /\ KeepsKeys(World, Possessed(Released(from), to, Viewed(from), v))
           /\ to.place \in Slots =>
                 \A u, v, x : LET out == Emptied(Released(from), to.place, u)
                                 back == Possessed(out.world, from, out.stack, v)
                                 last == Possessed(back, to, Viewed(from), x)
                             IN  /\ IsWorld(back) /\ KeepsKeys(World, back)
                                 /\ IsWorld(last) /\ KeepsKeys(World, last)
<1>1. IsWorld(World) /\ IsHandler(from)
  BY DEF AllTyped, IsSource
<1>2. IsStack(Viewed(from)) /\ IsWorld(Released(from)) /\ KeepsKeys(World, Released(from))
  BY ReleasedWorld
<1>3. ASSUME NEW v
      PROVE  /\ IsWorld(Possessed(Released(from), to, Viewed(from), v))
             /\ KeepsKeys(World, Possessed(Released(from), to, Viewed(from), v))
  BY <1>1, <1>2, PossessedWorld, KeepsKeysTransitive
<1>4. ASSUME to.place \in Slots, NEW u, NEW v, NEW x
      PROVE  LET out == Emptied(Released(from), to.place, u)
                 back == Possessed(out.world, from, out.stack, v)
                 last == Possessed(back, to, Viewed(from), x)
             IN  /\ IsWorld(back) /\ KeepsKeys(World, back)
                 /\ IsWorld(last) /\ KeepsKeys(World, last)
  <2> DEFINE out == Emptied(Released(from), to.place, u)
             back == Possessed(out.world, from, out.stack, v)
             last == Possessed(back, to, Viewed(from), x)
  <2>1. IsWorld(out.world) /\ KeepsKeys(Released(from), out.world) /\ IsStack(out.stack)
    BY <1>2, <1>4, EmptiedWorld
  <2> HIDE DEF out
  <2>2. KeepsKeys(World, out.world)
    BY <1>1, <1>2, <2>1, KeepsKeysTransitive
  <2>3. IsWorld(back) /\ KeepsKeys(out.world, back)
    BY <1>1, <2>1, PossessedWorld
  <2> HIDE DEF back
  <2>4. KeepsKeys(World, back)
    BY <1>1, <2>1, <2>2, <2>3, KeepsKeysTransitive
  <2>5. IsWorld(last) /\ KeepsKeys(back, last)
    BY <1>2, <2>3, PossessedWorld
  <2> HIDE DEF last
  <2>6. KeepsKeys(World, last)
    BY <1>1, <2>3, <2>4, <2>5, KeepsKeysTransitive
  <2> QED
    BY <2>3, <2>4, <2>5, <2>6 DEF out, back, last
<1> QED
  BY <1>3, <1>4

\* The world a swap of two slots ends in.
LEMMA SwapWorlds ==
    ASSUME NEW w, IsWorld(w), NEW a \in Slots, NEW b \in Slots, NEW u, NEW v
    PROVE  LET outA == Emptied(w, a, u)
               outB == Emptied(outA.world, b, v)
               inB  == SetStoredItem(outB.world, b, outA.stack.item, outA.stack.copies)
               inA  == SetStoredItem(inB, a, outB.stack.item, outB.stack.copies)
           IN  IsWorld(inA) /\ KeepsKeys(w, inA)
<1> DEFINE outA == Emptied(w, a, u)
           outB == Emptied(outA.world, b, v)
           inB  == SetStoredItem(outB.world, b, outA.stack.item, outA.stack.copies)
           inA  == SetStoredItem(inB, a, outB.stack.item, outB.stack.copies)
<1>1. IsWorld(outA.world) /\ KeepsKeys(w, outA.world) /\ IsStack(outA.stack)
  BY EmptiedWorld
<1> HIDE DEF outA
<1>2. IsWorld(outB.world) /\ KeepsKeys(outA.world, outB.world) /\ IsStack(outB.stack)
  BY <1>1, EmptiedWorld
<1> HIDE DEF outB
<1>3. IsWorld(inB) /\ KeepsKeys(outB.world, inB)
  BY <1>1, <1>2, SetStoredItemWorld DEF IsStack
<1> HIDE DEF inB
<1>4. IsWorld(inA) /\ KeepsKeys(inB, inA)
  BY <1>2, <1>3, SetStoredItemWorld DEF IsStack
<1> HIDE DEF inA
<1>5. KeepsKeys(w, inA)
  BY <1>1, <1>2, <1>3, <1>4, KeepsKeysTransitive
<1> QED
  BY <1>4, <1>5 DEF outA, outB, inB, inA

\* Every step keeps the types of the storages and of the slots, and their keys.
THEOREM AllStep ==
    ASSUME AllTyped, [AllNext]_allVars
    PROVE  AllTyped' /\ SlotsKeepKeys
<1>1. IsWorld(World) /\ World.slots = slots /\ World.store = store /\ loose = [i \in Items |-> loose[i]]
      /\ \A i \in Items : loose[i] \in Int
  BY DEF AllTyped, World, IInv, RestInv
<1>2. ASSUME IInv', UNCHANGED <<slots, gone>> PROVE AllTyped' /\ SlotsKeepKeys
  <2>1. World' = [store |-> store', slots |-> slots, owner |-> owner', gone |-> gone,
                  log |-> <<>>, halted |-> FALSE]
    BY <1>2 DEF World
  <2>2. StoreInv' /\ IsHooks(owner')
    BY <1>2 DEF IInv, RestInv
  <2>3. <<>> \in Seq({}) /\ World.gone = gone
    BY DEF World
  <2>4. IsWorld(World')
    BY <1>1, <2>1, <2>2, <2>3 DEF IsWorld, StoreInv
  <2>5. SlotsKeepKeys
    BY <1>1, <1>2, KeepsKeysSame DEF SlotsKeepKeys, KeepsKeys
  <2> QED
    BY <1>2, <2>4, <2>5 DEF AllTyped, IsWorld
<1>3. CASE UNCHANGED allVars
  <2>1. [Next]_vars
    BY <1>3 DEF allVars
  <2> QED
    BY <1>2, <1>3, <2>1, StepInv DEF allVars, AllTyped
<1>4. CASE Next /\ UNCHANGED <<slots, gone>>
  BY <1>2, <1>4, StepInv DEF AllTyped
<1>5. ASSUME NEW s \in Slots, SlotCall(s) PROVE AllTyped' /\ SlotsKeepKeys
  <2>1. ASSUME NEW i \in Items, NEW n \in 1..loose[i], NEW v \in Verdicts, SetItemInSlot(s, i, n, v)
        PROVE  AllTyped' /\ SlotsKeepKeys
    <3>1. n \in Int /\ i # Nothing
      BY <1>1, SlotsAssumption
    <3>2. loose' = [loose EXCEPT ![i] = @ - n] /\ Becomes(SetStoredItem(World, s, i, n))
      BY <2>1 DEF SetItemInSlot
    <3>3. loose' = [x \in Items |-> loose'[x]] /\ \A x \in Items : loose'[x] \in Int
      BY <1>1, <3>1, <3>2
    <3> QED
      BY <1>1, <3>1, <3>2, <3>3, SetStoredItemWorld, BecomesWorld
  <2>2. ASSUME NEW n \in Amounts, NEW tag \in RemovalTags, NEW v \in Verdicts,
               TakeItemFromSlot(s, n, tag, v)
        PROVE  AllTyped' /\ SlotsKeepKeys
    <3>1. n \in Int
      BY InputsAssumption DEF Amounts, EntireStack
    <3>2. slots[s].item # Nothing /\ Becomes(TakeItem(World, s, n, tag))
      BY <1>1, <2>2 DEF TakeItemFromSlot, CanTakeFromSlot
    <3>3. loose' = [loose EXCEPT ![slots[s].item] = @ + IF n = EntireStack THEN slots[s].copies ELSE n]
      BY <2>2 DEF TakeItemFromSlot
    <3>4. slots[s].copies \in Int
      BY <1>1 DEF IsWorld, IsSlot
    <3>5. loose' = [x \in Items |-> loose'[x]] /\ \A x \in Items : loose'[x] \in Int
      BY <1>1, <3>1, <3>3, <3>4
    <3> QED
      BY <1>1, <3>1, <3>2, <3>5, TakeItemWorld, BecomesWorld
  <2> QED
    BY <1>5, <2>1, <2>2 DEF SlotCall
<1>6. ASSUME NEW a \in Slots, NEW b \in Slots, SwapCall(a, b) PROVE AllTyped' /\ SlotsKeepKeys
  <2>1. PICK u, v : Becomes(Swapped(a, b, u, v)) /\ loose' = loose
    BY <1>6 DEF SwapCall, TrySwapSlots
  <2>2. IsWorld(Swapped(a, b, u, v)) /\ KeepsKeys(World, Swapped(a, b, u, v))
    BY <1>1, SwapWorlds DEF Swapped
  <2> QED
    BY <1>1, <2>1, <2>2, BecomesWorld
<1>7. ASSUME NEW from \in Sources, NEW to \in Targets, MoveCall(from, to)
      PROVE  AllTyped' /\ SlotsKeepKeys
  <2>1. IsSource(from) /\ IsHandler(to) /\ IsHandler(from)
    BY Handlers DEF IsSource
  <2>2. ASSUME NEW w, IsWorld(w), KeepsKeys(World, w), Becomes(w), loose' = loose
        PROVE  AllTyped' /\ SlotsKeepKeys
    BY <1>1, <2>2, BecomesWorld
  <2>3. ASSUME NEW u, NEW v, MoveInto(from, to, u, v) PROVE AllTyped' /\ SlotsKeepKeys
    BY <2>1, <2>2, <2>3, MovesWorlds DEF MoveInto
  <2>4. ASSUME NEW u, NEW v, NEW x, NEW y, MoveSwap(from, to, u, v, x, y)
        PROVE  AllTyped' /\ SlotsKeepKeys
    <3>1. to.place \in Slots
      BY <2>4 DEF MoveSwap, SwapValidated, IsSwap, Targets, StorageHandler, SlotHandler
    <3> QED
      BY <2>1, <2>2, <2>4, <3>1, MovesWorlds DEF MoveSwap
  <2>5. ASSUME NEW u, NEW v, NEW x, NEW y, NEW z, MoveSwapFails(from, to, u, v, x, y, z)
        PROVE  AllTyped' /\ SlotsKeepKeys
    BY <2>1, <2>2, <2>5, MovesWorlds DEF MoveSwapFails, PossessedAgain
  <2> QED
    BY <1>7, <2>3, <2>4, <2>5 DEF MoveCall
<1> QED
  BY <1>3, <1>4, <1>5, <1>6, <1>7 DEF AllNext

\* The empty storages and slots are a world.
LEMMA AllInitTyped == AllInit => AllTyped
<1> SUFFICES ASSUME AllInit PROVE AllTyped
  OBVIOUS
<1>1. IInv
  BY InitInv DEF AllInit
<1>2. StoreInv /\ IsHooks(owner)
  BY <1>1 DEF IInv, RestInv
<1>3. slots = [s \in Slots |-> slots[s]] /\ \A s \in Slots : IsSlot(slots[s])
  BY DEF AllInit, IsSlot, InvalidKey, KeyGenReset
<1>4. gone = [i \in Items |-> gone[i]] /\ \A i \in Items : gone[i] \in Int
  BY DEF AllInit
<1>5. <<>> \in Seq({})
  OBVIOUS
<1>6. IsWorld(World)
  BY <1>2, <1>3, <1>4, <1>5 DEF IsWorld, World, StoreInv
<1> QED
  BY <1>1, <1>6 DEF AllTyped

\* The types of the storages and of the slots hold in every reachable state.
THEOREM AllTypesHold == AllSpec => []AllTyped
<1>1. AllTyped /\ [AllNext]_allVars => AllTyped'
  BY AllStep
<1> QED
  BY <1>1, AllInitTyped, PTL DEF AllSpec

\* A slot implements StableNames: the key it gives to an item stands for that
\* item while it is there and is never given to another, however swaps and
\* moves, refused or not, send items through the slots.
THEOREM SlotKeysStayStable == AllSpec => SlotKeysAreStable
<1>1. AllInit => SlotKeys!Init
  <2> SUFFICES ASSUME AllInit PROVE SlotKeys!Init
    OBVIOUS
  <2>1. ASSUME NEW s \in Slots
        PROVE  /\ [k \in {slots[s].key} \ {InvalidKey} |-> slots[s].item] = <<>>
               /\ (KeyGenReset + 1)..slots[s].gen = {}
    <3>1. slots[s].key = InvalidKey /\ slots[s].gen = KeyGenReset
      BY DEF AllInit
    <3>2. {slots[s].key} \ {InvalidKey} = {}
      BY <3>1
    <3>3. [k \in {} |-> slots[s].item] = <<>>
      OBVIOUS
    <3> QED
      BY <3>1, <3>2, <3>3 DEF KeyGenReset
  <2> QED
    BY <2>1 DEF SlotKeys!Init
<1>2. AllTyped /\ AllTyped' /\ [AllNext]_allVars
      => [SlotKeys!Next]_<<[s \in Slots |-> [k \in {slots[s].key} \ {InvalidKey} |-> slots[s].item]],
                           [s \in Slots |-> (KeyGenReset + 1)..slots[s].gen]>>
  <2> SUFFICES ASSUME AllTyped, AllTyped', [AllNext]_allVars, NEW s \in Slots
               PROVE  SlotKeys!NamesStayPut(s)
    BY DEF SlotKeys!Next
  <2> DEFINE x == slots[s]
             y == slots'[s]
  <2>1. SlotStep(x, y)
    BY AllStep DEF SlotsKeepKeys
  <2>2. IsSlot(x) /\ IsSlot(y)
    <3>1. World.slots = slots /\ World'.slots = slots'
      BY DEF World
    <3>2. IsWorld(World) /\ IsWorld(World')
      BY DEF AllTyped, IsWorld
    <3> QED
      BY <3>1, <3>2 DEF IsWorld
  <2> HIDE DEF x, y
  <2>3. (KeyGenReset + 1)..x.gen \subseteq (KeyGenReset + 1)..y.gen
    BY <2>1, <2>2 DEF SlotStep, IsSlot, KeyGenReset
  <2>4. {y.key} \ {InvalidKey} \subseteq (KeyGenReset + 1)..y.gen
    BY <2>2 DEF IsSlot
  <2>5. ASSUME NEW n \in {y.key} \ {InvalidKey}
        PROVE  IF n \in {x.key} \ {InvalidKey} THEN y.item = x.item
               ELSE n \notin (KeyGenReset + 1)..x.gen
    BY <2>1, <2>2, <2>5 DEF SlotStep, IsSlot, KeyGenReset, InvalidKey
  <2> QED
    BY <2>3, <2>4, <2>5 DEF SlotKeys!NamesStayPut, x, y
<1> QED
  BY <1>1, <1>2, AllTypesHold, PTL DEF AllSpec, SlotKeysAreStable, SlotKeys!Spec

-----------------------------------------------------------------------------
(* Copies.  What a call takes out of one place of a world it puts into       *)
(* another, or lets it go.                                                   *)

SlotHolds(sl, i) == IF sl.item = i THEN sl.copies ELSE 0
SlotsHold(sls, i) == SumOver([s \in Slots |-> SlotHolds(sls[s], i)], Slots)
StoresHold(sto, i) == SumOver([s \in Storages |-> Stored(sto[s], i)], Storages)
Holds(w, i) == StoresHold(w.store, i) + SlotsHold(w.slots, i) + w.gone[i]
OfStack(stack, i) == IF stack.item = i THEN stack.copies ELSE 0

\* A slot of a world holds a number of copies.
LEMMA SlotFacts ==
    ASSUME NEW w, IsWorld(w), NEW s \in Slots
    PROVE  /\ IsSlot(w.slots[s]) /\ w.slots[s].copies \in Int
           /\ \A i : SlotHolds(w.slots[s], i) \in Int
<1>1. IsSlot(w.slots[s])
  BY DEF IsWorld
<1>2. w.slots[s].copies \in Int
  BY <1>1 DEF IsSlot
<1> QED
  BY <1>1, <1>2 DEF SlotHolds

\* What a world holds is an integer.
LEMMA HoldsInt ==
    ASSUME IsFiniteSet(Storages), IsFiniteSet(Slots), NEW w, IsWorld(w), NEW i \in Items
    PROVE  StoresHold(w.store, i) \in Int /\ SlotsHold(w.slots, i) \in Int /\ w.gone[i] \in Int
<1>1. /\ \A s \in Storages : Stored(w.store[s], i) \in Int
      /\ \A s \in Slots : SlotHolds(w.slots[s], i) \in Int
  BY StoredInt, SlotFacts DEF IsWorld
<1> DEFINE f == [s \in Storages |-> Stored(w.store[s], i)]
           g == [s \in Slots |-> SlotHolds(w.slots[s], i)]
<1>2. (\A s \in Storages : f[s] \in Int) /\ \A s \in Slots : g[s] \in Int
  BY <1>1
<1>3. StoresHold(w.store, i) = SumOver(f, Storages) /\ SlotsHold(w.slots, i) = SumOver(g, Slots)
  BY DEF StoresHold, SlotsHold
<1> HIDE DEF f, g
<1> QED
  BY <1>2, <1>3, SumOverInt DEF IsWorld

\* One slot changes.
LEMMA SlotsHoldChange ==
    ASSUME IsFiniteSet(Slots), NEW w, IsWorld(w), NEW v, IsWorld(v), NEW s \in Slots,
           \A t \in Slots : t # s => v.slots[t] = w.slots[t], NEW i
    PROVE  SlotsHold(v.slots, i)
              = SlotsHold(w.slots, i) - SlotHolds(w.slots[s], i) + SlotHolds(v.slots[s], i)
<1> DEFINE f == [x \in Slots |-> SlotHolds(w.slots[x], i)]
           g == [x \in Slots |-> SlotHolds(v.slots[x], i)]
<1>1. \A x \in Slots : f[x] \in Int /\ g[x] \in Int
  BY SlotFacts
<1>2. \A x \in Slots : x # s => g[x] = f[x]
  OBVIOUS
<1>3. SlotsHold(w.slots, i) = SumOver(f, Slots) /\ SlotsHold(v.slots, i) = SumOver(g, Slots)
      /\ f[s] = SlotHolds(w.slots[s], i) /\ g[s] = SlotHolds(v.slots[s], i)
  BY DEF SlotsHold
<1> HIDE DEF f, g
<1> QED
  BY <1>1, <1>2, <1>3, SumOverChange

\* One storage changes.
LEMMA StoresHoldChange ==
    ASSUME IsFiniteSet(Storages), NEW w, IsWorld(w), NEW v, IsWorld(v), NEW s \in Storages,
           \A t \in Storages : t # s => v.store[t] = w.store[t], NEW i
    PROVE  StoresHold(v.store, i)
              = StoresHold(w.store, i) - Stored(w.store[s], i) + Stored(v.store[s], i)
<1> DEFINE f == [x \in Storages |-> Stored(w.store[x], i)]
           g == [x \in Storages |-> Stored(v.store[x], i)]
<1>1. \A x \in Storages : f[x] \in Int /\ g[x] \in Int
  BY StoredInt DEF IsWorld
<1>2. \A x \in Storages : x # s => g[x] = f[x]
  OBVIOUS
<1>3. StoresHold(w.store, i) = SumOver(f, Storages) /\ StoresHold(v.store, i) = SumOver(g, Storages)
      /\ f[s] = Stored(w.store[s], i) /\ g[s] = Stored(v.store[s], i)
  BY DEF StoresHold
<1> HIDE DEF f, g
<1> QED
  BY <1>1, <1>2, <1>3, SumOverChange

\* SetStoredItem puts the copies into the slot, and lets those it writes over go.
LEMMA SetStoredItemHolds ==
    ASSUME IsFiniteSet(Storages), IsFiniteSet(Slots), NEW w, IsWorld(w), NEW s \in Slots,
           NEW x \in Items \cup {Nothing}, NEW n \in Int, x = Nothing => n = 0, NEW i \in Items
    PROVE  Holds(SetStoredItem(w, s, x, n), i) = Holds(w, i) + (IF i = x THEN n ELSE 0)
<1> DEFINE v == SetStoredItem(w, s, x, n)
           sl == w.slots[s]
           over == IF i = sl.item /\ x # i THEN sl.copies ELSE 0
<1>1. IsWorld(v) /\ IsSlot(sl)
  BY SetStoredItemWorld, SlotFacts
<1>2. /\ v.store = w.store /\ \A t \in Slots : t # s => v.slots[t] = w.slots[t]
      /\ x = sl.item => v.slots[s].item = x /\ v.slots[s].copies = sl.copies + n
      /\ x # sl.item => v.slots[s].item = x /\ v.slots[s].copies = n
  BY <1>1 DEF SetStoredItem, IsWorld, IsSlot
<1>3. v.gone[i] = w.gone[i] + over
  BY DEF SetStoredItem
<1>4. sl.copies \in Int
  BY <1>1 DEF IsSlot
<1>5. SlotHolds(v.slots[s], i) + over = SlotHolds(sl, i) + (IF i = x THEN n ELSE 0)
  <2> HIDE DEF v, sl
  <2> QED
    BY <1>2, <1>4 DEF SlotHolds
<1>6. SlotHolds(v.slots[s], i) \in Int /\ SlotHolds(sl, i) \in Int /\ over \in Int
  BY <1>1, <1>4, SlotFacts
<1> HIDE DEF v, over
<1>7. SlotsHold(v.slots, i) = SlotsHold(w.slots, i) - SlotHolds(sl, i) + SlotHolds(v.slots[s], i)
  BY <1>1, <1>2, SlotsHoldChange
<1>8. StoresHold(w.store, i) \in Int /\ SlotsHold(w.slots, i) \in Int /\ w.gone[i] \in Int
  BY HoldsInt
<1>9. Holds(v, i) = Holds(w, i) + (IF i = x THEN n ELSE 0)
  <2> DEFINE m == IF i = x THEN n ELSE 0
  <2>1. m \in Int
    OBVIOUS
  <2> HIDE DEF m, sl
  <2> QED
    BY ONLY <1>2, <1>3, <1>5, <1>6, <1>7, <1>8, <2>1 DEF Holds, m
<1> QED
  BY <1>9 DEF v

\* TakeItemFromSlot takes the copies out of the slot.
LEMMA TakeItemHolds ==
    ASSUME IsFiniteSet(Storages), IsFiniteSet(Slots), NEW w, IsWorld(w), NEW s \in Slots,
           NEW n \in Int, NEW tag, w.slots[s].item # Nothing, NEW i \in Items
    PROVE  Holds(TakeItem(w, s, n, tag), i)
              = Holds(w, i) - (IF i = w.slots[s].item
                               THEN IF n = EntireStack THEN w.slots[s].copies ELSE n ELSE 0)
<1> DEFINE v == TakeItem(w, s, n, tag)
           sl == w.slots[s]
           taken == IF n = EntireStack THEN sl.copies ELSE n
           m == IF i = sl.item THEN taken ELSE 0
<1>1. IsWorld(v) /\ IsSlot(sl)
  BY TakeItemWorld, SlotFacts
<1>2. /\ v.store = w.store /\ v.gone = w.gone
      /\ \A t \in Slots : t # s => v.slots[t] = w.slots[t]
      /\ v.slots[s] = IF taken = sl.copies THEN EmptySlot(sl) ELSE [sl EXCEPT !.copies = @ - taken]
  BY DEF TakeItem, IsWorld
<1>3. sl.copies \in Int /\ taken \in Int /\ m \in Int
  BY <1>1 DEF IsSlot
<1>4. SlotHolds(v.slots[s], i) = SlotHolds(sl, i) - m
  <2>1. CASE taken = sl.copies
    <3>1. v.slots[s].item = Nothing /\ i # Nothing
      BY <1>2, <2>1, SlotsAssumption DEF EmptySlot
    <3> QED
      BY <1>3, <2>1, <3>1 DEF SlotHolds
  <2>2. CASE taken # sl.copies
    <3>1. v.slots[s].item = sl.item /\ v.slots[s].copies = sl.copies - taken
      BY <1>1, <1>2, <2>2 DEF IsSlot
    <3> QED
      BY <1>3, <3>1 DEF SlotHolds
  <2> QED
    BY <2>1, <2>2
<1>5. SlotHolds(sl, i) \in Int
  BY <1>3 DEF SlotHolds
<1> HIDE DEF v, sl, m
<1>6. SlotsHold(v.slots, i) = SlotsHold(w.slots, i) - SlotHolds(sl, i) + SlotHolds(v.slots[s], i)
  BY <1>1, <1>2, SlotsHoldChange DEF sl
<1>7. StoresHold(w.store, i) \in Int /\ SlotsHold(w.slots, i) \in Int /\ w.gone[i] \in Int
  BY HoldsInt
<1>8. Holds(v, i) = Holds(w, i) - m
  BY ONLY <1>2, <1>3, <1>4, <1>5, <1>6, <1>7 DEF Holds
<1> QED
  BY <1>8 DEF v, sl, m

\* What is let go of is counted as gone.
LEMMA LoseHolds ==
    ASSUME IsFiniteSet(Storages), IsFiniteSet(Slots), NEW w, IsWorld(w),
           NEW stack, IsStack(stack), NEW i \in Items
    PROVE  Holds(Lose(w, stack), i) = Holds(w, i) + OfStack(stack, i)
<1> DEFINE v == Lose(w, stack)
<1>1. v.store = w.store /\ v.slots = w.slots /\ v.gone[i] = w.gone[i] + OfStack(stack, i)
  BY LoseWorld DEF OfStack
<1>2. OfStack(stack, i) \in Int
  BY DEF OfStack, IsStack
<1>3. StoresHold(w.store, i) \in Int /\ SlotsHold(w.slots, i) \in Int /\ w.gone[i] \in Int
  BY HoldsInt
<1> HIDE DEF v
<1>4. Holds(v, i) = Holds(w, i) + OfStack(stack, i)
  BY ONLY <1>1, <1>2, <1>3 DEF Holds
<1> QED
  BY <1>4 DEF v

\* The stack suits the entry of the storage it joins: it is no larger than one
\* stack of it.
SuitsEntry(w, h, stack) ==
    h.place \in Storages /\ Joins(w.store[h.place], stack.item)
    => w.store[h.place].entries[FindEntry(w.store[h.place], stack.item)].limit
          \notin 1..(stack.copies - 1)

\* A storage holds what it was given.
LEMMA StoresHolds ==
    ASSUME IsFiniteSet(Storages), IsFiniteSet(Slots), NEW w, IsWorld(w),
           NEW h, IsHandler(h), h.place \in Storages,
           NEW stack, stack.item \in Items, stack.copies \in Nat \ {0},
           SuitsEntry(w, h, stack), NEW i \in Items
    PROVE  Holds(Stores(w, h, stack), i) = Holds(w, i) + OfStack(stack, i)
<1> DEFINE v == Stores(w, h, stack)
           s == h.place
<1>1. IsWorld(v) /\ v.store[s] = Added(w.store[s], stack.item, stack.copies, h.force)
      /\ \A x \in Storages : x # s => v.store[x] = w.store[x]
  BY StoresWorld
<1>2. v.slots = w.slots /\ v.gone = w.gone
  BY DEF Stores
<1>3. Stored(v.store[s], i) = Stored(w.store[s], i) + OfStack(stack, i)
  <2>1. Sound(w.store[s]) /\ h.force \in BOOLEAN
    BY DEF IsWorld, IsHandler
  <2> HIDE DEF v
  <2> QED
    BY <1>1, <2>1, AddedCopies DEF SuitsEntry, OfStack
<1>4. Stored(w.store[s], i) \in Int /\ OfStack(stack, i) \in Int
  BY StoredInt DEF IsWorld, OfStack
<1> HIDE DEF v
<1>5. StoresHold(v.store, i) = StoresHold(w.store, i) - Stored(w.store[s], i) + Stored(v.store[s], i)
  BY <1>1, StoresHoldChange
<1>6. StoresHold(w.store, i) \in Int /\ SlotsHold(w.slots, i) \in Int /\ w.gone[i] \in Int
  BY HoldsInt
<1>7. Holds(v, i) = Holds(w, i) + OfStack(stack, i)
  BY ONLY <1>2, <1>3, <1>4, <1>5, <1>6 DEF Holds
<1> QED
  BY <1>7 DEF v

\* A container that is given a stack has it, or it is gone.
LEMMA PossessedHolds ==
    ASSUME IsFiniteSet(Storages), IsFiniteSet(Slots), NEW w, IsWorld(w),
           NEW h, IsHandler(h), NEW stack, IsStack(stack), NEW verdict, NEW i \in Items,
           \/ SuitsEntry(w, h, stack)
           \/ Possessed(w, h, stack, verdict) # Stores(w, h, stack)
    PROVE  Holds(Possessed(w, h, stack, verdict), i) = Holds(w, i) + OfStack(stack, i)
<1> DEFINE v == Possessed(w, h, stack, verdict)
<1>1. stack.item \in Items \cup {Nothing} /\ stack.copies \in Int /\ (stack.item = Nothing => stack.copies = 0)
  BY DEF IsStack
<1>2. CASE h.place \in Slots /\ v = SetStoredItem(w, h.place, stack.item, stack.copies)
  <2> DEFINE x == stack.item
             n == stack.copies
             s == h.place
  <2>1. x \in Items \cup {Nothing} /\ n \in Int /\ (x = Nothing => n = 0) /\ s \in Slots
        /\ v = SetStoredItem(w, s, x, n)
    BY <1>1, <1>2
  <2>2. OfStack(stack, i) = IF i = x THEN n ELSE 0
    BY DEF OfStack
  <2> HIDE DEF x, n, s, v
  <2>3. Holds(SetStoredItem(w, s, x, n), i) = Holds(w, i) + (IF i = x THEN n ELSE 0)
    BY <2>1, SetStoredItemHolds
  <2> QED
    BY <2>1, <2>2, <2>3 DEF v
<1>3. CASE h.place \in Storages /\ stack.item \in Items /\ stack.copies \in Nat \ {0} /\ v = Stores(w, h, stack)
  BY <1>3, StoresHolds
<1>4. CASE v = Lose(w, stack)
  BY <1>4, LoseHolds
<1> QED
  BY <1>2, <1>3, <1>4, PossessedCases

\* What was taken out of a slot is what there was.
LEMMA EmptiedHolds ==
    ASSUME IsFiniteSet(Storages), IsFiniteSet(Slots), NEW w, IsWorld(w), NEW s \in Slots, NEW u,
           NEW i \in Items
    PROVE  Holds(Emptied(w, s, u).world, i) = Holds(w, i) - OfStack(Emptied(w, s, u).stack, i)
<1> DEFINE out == Emptied(w, s, u)
<1>1. StoresHold(w.store, i) \in Int /\ SlotsHold(w.slots, i) \in Int /\ w.gone[i] \in Int
  BY HoldsInt
<1>2. CASE out = [world |-> w, stack |-> EmptyStack]
  <2>1. out.world = w /\ OfStack(out.stack, i) = 0
    BY <1>2, SlotsAssumption DEF OfStack, EmptyStack, Stack
  <2> QED
    BY <1>1, <2>1 DEF Holds
<1>3. CASE /\ w.slots[s].item \in Items
           /\ out.world = TakeItem(w, s, EntireStack, "RemovalMoving")
           /\ out.stack = Stack(w.slots[s].item, w.slots[s].copies)
  <2>1. w.slots[s].item # Nothing /\ EntireStack \in Int
    BY <1>3, SlotsAssumption DEF EntireStack
  <2>2. OfStack(out.stack, i) = IF i = w.slots[s].item THEN w.slots[s].copies ELSE 0
    BY <1>3 DEF OfStack, Stack
  <2> HIDE DEF out
  <2>3. Holds(TakeItem(w, s, EntireStack, "RemovalMoving"), i)
          = Holds(w, i) - (IF i = w.slots[s].item
                           THEN IF EntireStack = EntireStack THEN w.slots[s].copies ELSE EntireStack ELSE 0)
    BY <2>1, TakeItemHolds
  <2>4. OfStack(out.stack, i) = (IF i = w.slots[s].item
                           THEN IF EntireStack = EntireStack THEN w.slots[s].copies ELSE EntireStack ELSE 0)
    BY <2>2
  <2> QED
    BY <1>3, <2>3, <2>4 DEF out
<1> QED
  BY <1>2, <1>3, EmptiedWorld

\* What a source gives up is what it shows.
LEMMA ReleasedHolds ==
    ASSUME IsFiniteSet(Storages), IsFiniteSet(Slots), AllTyped, NEW h, IsSource(h), NEW i \in Items
    PROVE  Holds(Released(h), i) = Holds(World, i) - OfStack(Viewed(h), i)
<1>1. IsWorld(World) /\ World.slots = slots /\ World.store = store /\ World.gone = gone
  BY DEF AllTyped, World
<1>2. StoresHold(store, i) \in Int /\ SlotsHold(slots, i) \in Int /\ gone[i] \in Int
  BY <1>1, HoldsInt
<1>3. CASE h.place \in Slots
  <2> DEFINE s == h.place
             m == IF i = slots[s].item THEN slots[s].copies ELSE 0
  <2>1. Viewed(h) = Stack(slots[s].item, slots[s].copies)
    BY <1>3 DEF Viewed
  <2>2. OfStack(Viewed(h), i) = m
    BY <2>1 DEF OfStack, Stack
  <2>3. s \in Slots /\ World.slots[s].item # Nothing /\ EntireStack \in Int
    BY <1>1, <1>3 DEF IsSource, EntireStack
  <2>4. Released(h) = TakeItem(World, s, EntireStack, "RemovalMoving")
    BY <1>3 DEF Released
  <2>5. m = IF i = World.slots[s].item
            THEN IF EntireStack = EntireStack THEN World.slots[s].copies ELSE EntireStack ELSE 0
    BY <1>1
  <2> HIDE DEF m, s
  <2>6. Holds(TakeItem(World, s, EntireStack, "RemovalMoving"), i)
          = Holds(World, i) - (IF i = World.slots[s].item
              THEN IF EntireStack = EntireStack THEN World.slots[s].copies ELSE EntireStack ELSE 0)
    BY <1>1, <2>3, TakeItemHolds
  <2> QED
    BY <2>2, <2>4, <2>5, <2>6
<1>4. CASE h.place \in Storages
  <2> DEFINE s == h.place
             st == store[s]
             v == Released(h)
             n == StackRemovalAmount(st, h.entry, h.stack, h.amount)
             tt == RemovedFromStack(st, h.entry, h.stack, h.amount)
             m == IF i = st.entries[h.entry].item THEN n ELSE 0
  <2>1. h.place \notin Slots
    BY <1>4, SlotsAssumption
  <2>2. IsAmount(h.amount)
    <3>1. \A a \in Amounts : IsAmount(a)
      BY InputsAssumption DEF Amounts, IsAmount
    <3> QED
      BY <1>4, <3>1 DEF IsSource
  <2>3. /\ h.entry \in DOMAIN st.entries /\ h.stack \in DOMAIN st.entries[h.entry].stacks
        /\ Sound(st)
    BY <1>1, <1>4 DEF IsSource, IsWorld
  <2>4. Stored(tt, i) = Stored(st, i) - m /\ n \in Int
    BY <2>2, <2>3, RemovedFromStackCopies
  <2>5. v.store = [store EXCEPT ![s] = tt] /\ v.slots = slots /\ v.gone = gone
    BY <1>4, <2>1 DEF Released
  <2>6. Viewed(h) = Stack(st.entries[h.entry].item, n)
    BY <1>4, <2>1 DEF Viewed
  <2>7. OfStack(Viewed(h), i) = m
    BY <2>6 DEF OfStack, Stack
  <2>8. m \in Int /\ Stored(st, i) \in Int
    BY <2>3, <2>4, StoredInt
  <2>9. IsWorld(v)
    BY ReleasedWorld
  <2>10. store = [x \in Storages |-> store[x]] /\ s \in Storages
    BY <1>1, <1>4 DEF IsWorld
  <2> HIDE DEF v, tt, m, n, s
  <2>11. v.store[s] = tt /\ \A x \in Storages : x # s => v.store[x] = store[x]
    BY <2>5, <2>10
  <2>12. StoresHold(v.store, i) = StoresHold(store, i) - Stored(store[s], i) + Stored(v.store[s], i)
    BY <1>1, <2>9, <2>10, <2>11, StoresHoldChange
  <2>13. Holds(v, i) = Holds(World, i) - m
    BY ONLY <1>1, <1>2, <2>4, <2>5, <2>8, <2>11, <2>12 DEF Holds, st
  <2> QED
    BY <2>7, <2>13 DEF v
<1> QED
  BY <1>3, <1>4 DEF IsSource, IsHandler

-----------------------------------------------------------------------------
(* Additions of no more than a stack.                                       *)

\* The entries of a world are entries of the state, with their limits.
KeepsLimits(w) ==
    \A s \in Storages : \A k \in DOMAIN w.store[s].entries :
        /\ k \in DOMAIN store[s].entries
        /\ w.store[s].entries[k].limit = store[s].entries[k].limit

\* A release adds no entry and changes no limit.
LEMMA ReleasedLimits ==
    ASSUME AllTyped, NEW h, IsSource(h)
    PROVE  KeepsLimits(Released(h))
<1>1. IsWorld(World) /\ World.slots = slots /\ World.store = store
  BY DEF AllTyped, World
<1>2. CASE h.place \in Slots
  <2>1. Released(h).store = store
    BY <1>2 DEF Released, TakeItem, World
  <2> QED
    BY <2>1 DEF KeepsLimits
<1>3. CASE h.place \in Storages
  <2> DEFINE s == h.place
             st == store[s]
             k == h.entry
             j == h.stack
             n == h.amount
             tt == RemovedFromStack(st, k, j, n)
             v == Released(h)
  <2>1. h.place \notin Slots
    BY <1>3, SlotsAssumption
  <2>2. n \in Int
    <3>1. \A a \in Amounts : a \in Int
      BY InputsAssumption DEF Amounts, EntireStack
    <3> QED
      BY <1>3, <3>1 DEF IsSource
  <2>3. k \in DOMAIN st.entries /\ j \in DOMAIN st.entries[k].stacks /\ Sound(st)
    BY <1>1, <1>3 DEF IsSource, IsWorld
  <2>4. v.store = [store EXCEPT ![s] = tt]
    BY <1>3, <2>1 DEF Released
  <2>5. store = [x \in Storages |-> store[x]] /\ s \in Storages
    BY <1>1, <1>3 DEF IsWorld
  <2>6. KeepsNames(st, tt)
    BY <2>2, <2>3, RemovedFromStackSound DEF SoundStep
  <2>7. DOMAIN tt.entries \subseteq DOMAIN st.entries
    <3>1. CASE RemovesOnlyStack(st, k, j, n)
      BY <3>1 DEF RemovedFromStack, WithoutEntry
    <3>2. CASE ~RemovesOnlyStack(st, k, j, n)
      <4>1. PICK e : tt = SetEntry(st, k, e)
        BY <3>2 DEF RemovedFromStack
      <4> HIDE DEF st, tt
      <4>2. tt.entries = [x \in DOMAIN st.entries \cup {k} |-> IF x = k THEN e ELSE st.entries[x]]
        BY <2>3, <4>1, SetEntryEntries
      <4> QED
        BY <2>3, <4>2
    <3> QED
      BY <3>1, <3>2
  <2> HIDE DEF tt, v, s
  <2>8. v.store[s] = tt /\ \A x \in Storages : x # s => v.store[x] = store[x]
    BY <2>4, <2>5
  <2>9. \A l \in DOMAIN tt.entries : l \in DOMAIN st.entries /\ tt.entries[l].limit = st.entries[l].limit
    BY <2>6, <2>7 DEF KeepsNames, Continues
  <2> QED
    BY <2>8, <2>9 DEF KeepsLimits, v
<1> QED
  BY <1>2, <1>3 DEF IsSource, IsHandler

\* A step whose log tells of the addition, and which is not oversized.
LEMMA AdditionSuits ==
    ASSUME ~Oversized, NEW w, IsWorld(w), KeepsLimits(w), NEW h, IsHandler(h),
           NEW stack, NEW m \in DOMAIN log',
           log'[m] = Batch(h.place, "Addition",
                         {AdditionEvent(w.store[h.place], stack.item, stack.copies, h.force)})
    PROVE  SuitsEntry(w, h, stack)
<1> DEFINE st == w.store[h.place]
           d == AdditionEvent(st, stack.item, stack.copies, h.force)
           k == FindEntry(st, stack.item)
<1> SUFFICES ASSUME h.place \in Storages, Joins(st, stack.item)
             PROVE  st.entries[k].limit \notin 1..(stack.copies - 1)
  BY DEF SuitsEntry
<1>1. d.entry = k /\ d.amount = stack.copies
  BY DEF AdditionEvent, Event
<1>2. k \in DOMAIN st.entries
  BY FindsEntry DEF IsWorld
<1>3. k \in DOMAIN store[h.place].entries /\ st.entries[k].limit = store[h.place].entries[k].limit
  BY <1>2 DEF KeepsLimits
<1> HIDE DEF d, k
<1>4. log'[m].type = "Addition" /\ log'[m].storage = h.place /\ d \in log'[m].data
  BY DEF Batch, d
<1> QED
  BY <1>1, <1>3, <1>4 DEF Oversized

\* The batches of world w come first in world v too.
KeepsLog(w, v) == \A m \in DOMAIN w.log : m \in DOMAIN v.log /\ v.log[m] = w.log[m]

\* Possess adds a batch at most, after those that were there.
LEMMA PossessedKeepsLog ==
    ASSUME NEW w, IsWorld(w), NEW h, IsHandler(h), NEW stack, IsStack(stack), NEW verdict
    PROVE  KeepsLog(w, Possessed(w, h, stack, verdict))
<1> DEFINE v == Possessed(w, h, stack, verdict)
<1>1. v.log = w.log \/ \E b : v.log = Append(w.log, b)
  <2>1. CASE v = SetStoredItem(w, h.place, stack.item, stack.copies)
    BY <2>1 DEF SetStoredItem, Told
  <2>2. CASE v = Stores(w, h, stack)
    BY <2>2 DEF Stores
  <2>3. CASE v = Lose(w, stack)
    BY <2>3, LoseWorld
  <2> QED
    BY <2>1, <2>2, <2>3, PossessedCases
<1> HIDE DEF v
<1>2. KeepsLog(w, v)
  BY <1>1, LogGrows DEF KeepsLog
<1> QED
  BY <1>2 DEF v

\* What an addition of Possess to a storage tells.
LEMMA StoresLog ==
    ASSUME NEW w, IsWorld(w), NEW h, NEW stack
    PROVE  \E m \in DOMAIN Stores(w, h, stack).log :
              Stores(w, h, stack).log[m] = Batch(h.place, "Addition",
                  {AdditionEvent(w.store[h.place], stack.item, stack.copies, h.force)})
<1> DEFINE v == Stores(w, h, stack)
<1>1. v.log = Append(w.log, Batch(h.place, "Addition",
                 {AdditionEvent(w.store[h.place], stack.item, stack.copies, h.force)}))
  BY DEF Stores
<1> HIDE DEF v
<1>2. \E m \in DOMAIN v.log :
         v.log[m] = Batch(h.place, "Addition",
             {AdditionEvent(w.store[h.place], stack.item, stack.copies, h.force)})
  BY <1>1, LogGrows
<1> QED
  BY <1>2 DEF v

\* A container that is given a stack by a step that is not oversized.
LEMMA PossessedConserves ==
    ASSUME ~Oversized, IsFiniteSet(Storages), IsFiniteSet(Slots), NEW w, IsWorld(w), KeepsLimits(w),
           NEW h, IsHandler(h), NEW stack, IsStack(stack), NEW verdict, NEW i \in Items,
           \A m \in DOMAIN Possessed(w, h, stack, verdict).log :
              /\ m \in DOMAIN log'
              /\ log'[m] = Possessed(w, h, stack, verdict).log[m]
    PROVE  Holds(Possessed(w, h, stack, verdict), i) = Holds(w, i) + OfStack(stack, i)
<1> DEFINE v == Possessed(w, h, stack, verdict)
<1>1. CASE v # Stores(w, h, stack)
  BY <1>1, PossessedHolds
<1>2. CASE v = Stores(w, h, stack)
  <2>1. PICK m \in DOMAIN v.log : v.log[m] = Batch(h.place, "Addition",
              {AdditionEvent(w.store[h.place], stack.item, stack.copies, h.force)})
    <3>1. \E m \in DOMAIN Stores(w, h, stack).log :
             Stores(w, h, stack).log[m] = Batch(h.place, "Addition",
                 {AdditionEvent(w.store[h.place], stack.item, stack.copies, h.force)})
      BY StoresLog
    <3> QED
      BY ONLY <1>2, <3>1
  <2>2. m \in DOMAIN log' /\ log'[m] = v.log[m]
    BY <2>1
  <2> HIDE DEF v
  <2>3. SuitsEntry(w, h, stack)
    BY <2>1, <2>2, AdditionSuits
  <2> QED
    BY <2>3, PossessedHolds
<1> QED
  BY <1>1, <1>2

\* Everywhere counts what is loose and what the world holds.
LEMMA EverywhereHolds ==
    ASSUME IsFiniteSet(Storages), IsFiniteSet(Slots), AllTyped, NEW i \in Items
    PROVE  /\ Everywhere(i) = loose[i] + Holds(World, i)
           /\ loose[i] \in Int /\ Holds(World, i) \in Int
<1>1. IsWorld(World) /\ World.slots = slots /\ World.store = store /\ World.gone = gone
  BY DEF AllTyped, World
<1>2. StoresHold(store, i) \in Int /\ SlotsHold(slots, i) \in Int /\ gone[i] \in Int
  BY <1>1, HoldsInt
<1>3. loose[i] \in Int
  BY DEF AllTyped, IInv, RestInv
<1>4. InWorld(i) = loose[i] + StoresHold(store, i) /\ InSlots(i) = SlotsHold(slots, i)
  BY DEF InWorld, InSlots, StoresHold, SlotsHold, SlotHolds
<1>5. Holds(World, i) = StoresHold(store, i) + SlotsHold(slots, i) + gone[i]
  BY <1>1 DEF Holds
<1> QED
  BY ONLY <1>2, <1>3, <1>4, <1>5 DEF Everywhere

\* A call that takes from what is loose what it adds to the world.
LEMMA BecomesConserves ==
    ASSUME IsFiniteSet(Storages), IsFiniteSet(Slots), AllTyped, NEW w, IsWorld(w), Becomes(w),
           NEW i \in Items, NEW n \in Int, loose'[i] = loose[i] - n, Holds(w, i) = Holds(World, i) + n
    PROVE  Everywhere(i)' = Everywhere(i)
<1>1. w.slots = slots' /\ w.store = store' /\ w.gone = gone'
  BY DEF Becomes
<1>2. StoresHold(store', i) \in Int /\ SlotsHold(slots', i) \in Int /\ gone'[i] \in Int
  BY <1>1, HoldsInt
<1>3. InWorld(i)' = loose'[i] + StoresHold(store', i) /\ InSlots(i)' = SlotsHold(slots', i)
  BY DEF InWorld, InSlots, StoresHold, SlotsHold, SlotHolds
<1>4. Holds(w, i) = StoresHold(store', i) + SlotsHold(slots', i) + gone'[i]
  BY <1>1 DEF Holds
<1>5. /\ Everywhere(i) = loose[i] + Holds(World, i)
      /\ loose[i] \in Int /\ Holds(World, i) \in Int
  BY EverywhereHolds
<1>6. Everywhere(i)' = InWorld(i)' + InSlots(i)' + gone'[i]
  BY DEF Everywhere
<1>7. n \in Int /\ loose'[i] = loose[i] - n /\ Holds(w, i) = Holds(World, i) + n
  OBVIOUS
<1>8. Everywhere(i)' = loose'[i] + Holds(w, i)
  <2>1. loose'[i] \in Int
    BY <1>5, <1>7
  <2> QED
    BY ONLY <1>2, <1>3, <1>4, <1>6, <2>1
<1> QED
  BY ONLY <1>5, <1>7, <1>8

\* A step that is not oversized conserves copies.
LEMMA AllNextConserves ==
    ASSUME ~Oversized, IsFiniteSet(Storages), IsFiniteSet(Slots), AllTyped, AllNext, NEW i \in Items
    PROVE  Everywhere(i)' = Everywhere(i)
<1>1. IsWorld(World) /\ World.slots = slots /\ World.store = store
      /\ loose = [x \in Items |-> loose[x]] /\ \A x \in Items : loose[x] \in Int
  BY DEF AllTyped, World, IInv, RestInv
<1>2. ASSUME NEW w, IsWorld(w) PROVE Holds(w, i) \in Int
  BY <1>2, HoldsInt DEF Holds
<1>3. CASE Next /\ UNCHANGED <<slots, gone>>
  <2>1. InWorld(i)' = InWorld(i)
    BY <1>3, NextConserves DEF AllTyped
  <2> QED
    BY <1>3, <2>1 DEF Everywhere, InSlots
<1>4. ASSUME NEW s \in Slots, SlotCall(s) PROVE Everywhere(i)' = Everywhere(i)
  <2>1. ASSUME NEW x \in Items, NEW n \in 1..loose[x], NEW v \in Verdicts, SetItemInSlot(s, x, n, v)
        PROVE  Everywhere(i)' = Everywhere(i)
    <3> DEFINE m == IF i = x THEN n ELSE 0
               w == SetStoredItem(World, s, x, n)
    <3>1. n \in Int /\ x # Nothing /\ m \in Int
      BY <1>1, SlotsAssumption
    <3>2. loose' = [loose EXCEPT ![x] = @ - n] /\ Becomes(w)
      BY <2>1 DEF SetItemInSlot
    <3>3. loose'[i] = loose[i] - m
      BY <1>1, <3>1, <3>2
    <3>4. IsWorld(w)
      BY <1>1, <3>1, SetStoredItemWorld
    <3>5. Holds(w, i) = Holds(World, i) + m
      BY <1>1, <3>1, SetStoredItemHolds
    <3> HIDE DEF m, w
    <3> QED
      BY <3>1, <3>2, <3>3, <3>4, <3>5, BecomesConserves
  <2>2. ASSUME NEW n \in Amounts, NEW tag \in RemovalTags, NEW v \in Verdicts,
               TakeItemFromSlot(s, n, tag, v)
        PROVE  Everywhere(i)' = Everywhere(i)
    <3> DEFINE sl == slots[s]
               taken == IF n = EntireStack THEN sl.copies ELSE n
               m == IF i = sl.item THEN taken ELSE 0
               w == TakeItem(World, s, n, tag)
    <3>1. n \in Int
      BY InputsAssumption DEF Amounts, EntireStack
    <3>2. sl.item # Nothing /\ Becomes(w)
      BY <1>1, <2>2 DEF TakeItemFromSlot, CanTakeFromSlot
    <3>3. loose' = [loose EXCEPT ![sl.item] = @ + taken]
      BY <2>2 DEF TakeItemFromSlot
    <3>4. sl.copies \in Int
      BY <1>1, SlotFacts
    <3>5. taken \in Int /\ m \in Int /\ -m \in Int
      BY <3>1, <3>4
    <3>6. IsWorld(w)
      BY <1>1, <3>1, <3>2, TakeItemWorld
    <3>7. Holds(w, i) = Holds(World, i) - m
      BY <1>1, <3>1, <3>2, TakeItemHolds
    <3>8. Holds(World, i) \in Int
      BY <1>1, <1>2
    <3> HIDE DEF w, taken
    <3>9. loose'[i] = loose[i] + m
      BY <1>1, <3>3, <3>5
    <3> HIDE DEF m
    <3>10. Holds(w, i) = Holds(World, i) + -m /\ loose'[i] = loose[i] - -m
      BY <1>1, <3>5, <3>7, <3>8, <3>9
    <3> QED
      BY <3>2, <3>5, <3>6, <3>10, BecomesConserves
  <2> QED
    BY <1>4, <2>1, <2>2 DEF SlotCall
<1>5. ASSUME NEW w, IsWorld(w), Becomes(w), loose' = loose, Holds(w, i) = Holds(World, i)
      PROVE  Everywhere(i)' = Everywhere(i)
  <2>1. Holds(w, i) = Holds(World, i) + 0 /\ loose'[i] = loose[i] - 0 /\ 0 \in Int
    BY <1>1, <1>2, <1>5
  <2> QED
    BY <1>5, <2>1, BecomesConserves
<1>6. ASSUME NEW stack, IsStack(stack) PROVE OfStack(stack, i) \in Int
  BY <1>6 DEF OfStack, IsStack
<1>7. ASSUME NEW a \in Slots, NEW b \in Slots, SwapCall(a, b) PROVE Everywhere(i)' = Everywhere(i)
  <2>1. PICK u, v : Becomes(Swapped(a, b, u, v)) /\ loose' = loose
    BY <1>7 DEF SwapCall, TrySwapSlots
  <2> DEFINE outA == Emptied(World, a, u)
             outB == Emptied(outA.world, b, v)
             inB  == SetStoredItem(outB.world, b, outA.stack.item, outA.stack.copies)
             inA  == SetStoredItem(inB, a, outB.stack.item, outB.stack.copies)
  <2>2. Swapped(a, b, u, v) = inA
    BY DEF Swapped
  <2>3. IsWorld(inA)
    BY <1>1, SwapWorlds
  <2>4. IsWorld(outA.world) /\ IsStack(outA.stack)
        /\ Holds(outA.world, i) = Holds(World, i) - OfStack(outA.stack, i)
    BY <1>1, EmptiedWorld, EmptiedHolds
  <2> HIDE DEF outA
  <2>5. IsWorld(outB.world) /\ IsStack(outB.stack)
        /\ Holds(outB.world, i) = Holds(outA.world, i) - OfStack(outB.stack, i)
    BY <2>4, EmptiedWorld, EmptiedHolds
  <2> HIDE DEF outB
  <2>6. ASSUME NEW w, IsWorld(w), NEW s \in Slots, NEW stack, IsStack(stack)
        PROVE  /\ IsWorld(SetStoredItem(w, s, stack.item, stack.copies))
               /\ Holds(SetStoredItem(w, s, stack.item, stack.copies), i) = Holds(w, i) + OfStack(stack, i)
    <3> DEFINE x == stack.item
               n == stack.copies
    <3>1. x \in Items \cup {Nothing} /\ n \in Int /\ (x = Nothing => n = 0)
          /\ OfStack(stack, i) = IF i = x THEN n ELSE 0
      BY <2>6 DEF IsStack, OfStack
    <3> HIDE DEF x, n
    <3>2. IsWorld(SetStoredItem(w, s, x, n))
      BY <2>6, <3>1, SetStoredItemWorld
    <3>3. Holds(SetStoredItem(w, s, x, n), i) = Holds(w, i) + (IF i = x THEN n ELSE 0)
      BY <2>6, <3>1, SetStoredItemHolds
    <3> QED
      BY <3>1, <3>2, <3>3 DEF x, n
  <2>7. IsWorld(inB) /\ Holds(inB, i) = Holds(outB.world, i) + OfStack(outA.stack, i)
    BY <2>4, <2>5, <2>6
  <2> HIDE DEF inB
  <2>8. Holds(inA, i) = Holds(inB, i) + OfStack(outB.stack, i)
    BY <2>5, <2>6, <2>7
  <2>9. OfStack(outA.stack, i) \in Int /\ OfStack(outB.stack, i) \in Int
    BY <1>6, <2>4, <2>5
  <2>10. Holds(World, i) \in Int
    BY <1>1, <1>2
  <2> HIDE DEF inA
  <2>11. Holds(inA, i) = Holds(World, i)
    BY ONLY <2>4, <2>5, <2>7, <2>8, <2>9, <2>10
  <2> QED
    BY <1>5, <2>1, <2>2, <2>3, <2>11
<1>8. ASSUME NEW from \in Sources, NEW to \in Targets, MoveCall(from, to)
      PROVE  Everywhere(i)' = Everywhere(i)
  <2> DEFINE rel == Released(from)
             stack == Viewed(from)
  <2>1. IsSource(from) /\ IsHandler(to) /\ IsHandler(from)
    BY Handlers DEF IsSource
  <2>2. /\ IsWorld(rel) /\ IsStack(stack) /\ KeepsLimits(rel)
        /\ Holds(rel, i) = Holds(World, i) - OfStack(stack, i)
    BY <2>1, ReleasedWorld, ReleasedLimits, ReleasedHolds DEF AllTyped
  <2>3. Holds(World, i) \in Int /\ OfStack(stack, i) \in Int
    BY <1>1, <1>2, <1>6, <2>2
  <2> HIDE DEF rel, stack
  <2>4. ASSUME NEW h, IsHandler(h), NEW v, Becomes(Possessed(rel, h, stack, v)), loose' = loose
        PROVE  Everywhere(i)' = Everywhere(i)
    <3> DEFINE last == Possessed(rel, h, stack, v)
    <3>1. IsWorld(last)
      BY <2>2, <2>4, PossessedWorld
    <3>2. log' = last.log
      BY <2>4 DEF Becomes
    <3>3. Holds(last, i) = Holds(rel, i) + OfStack(stack, i)
      BY <2>2, <2>4, <3>2, PossessedConserves
    <3> HIDE DEF last
    <3>4. Holds(last, i) = Holds(World, i)
      BY ONLY <2>2, <2>3, <3>3
    <3> QED
      BY <1>5, <2>4, <3>1, <3>4 DEF last
  <2>5. ASSUME NEW u, NEW v, MoveInto(from, to, u, v) PROVE Everywhere(i)' = Everywhere(i)
    BY <2>1, <2>4, <2>5 DEF MoveInto, rel, stack
  <2>6. ASSUME NEW u, NEW v, NEW x, NEW y, NEW z, MoveSwapFails(from, to, u, v, x, y, z)
        PROVE  Everywhere(i)' = Everywhere(i)
    BY <2>1, <2>4, <2>6 DEF MoveSwapFails, PossessedAgain, rel, stack
  <2>7. ASSUME NEW u, NEW v, NEW x, NEW y, MoveSwap(from, to, u, v, x, y)
        PROVE  Everywhere(i)' = Everywhere(i)
    <3> DEFINE out == Emptied(rel, to.place, y)
               back == Possessed(out.world, from, out.stack, x)
               last == Possessed(back, to, stack, u)
    <3>1. to.place \in Slots
      BY <2>7 DEF MoveSwap, SwapValidated, IsSwap, Targets, StorageHandler, SlotHandler
    <3>2. Becomes(last) /\ loose' = loose
      BY <2>7 DEF MoveSwap, rel, stack
    <3>3. IsWorld(out.world) /\ IsStack(out.stack)
          /\ Holds(out.world, i) = Holds(rel, i) - OfStack(out.stack, i)
      BY <2>2, <3>1, EmptiedWorld, EmptiedHolds
    <3>4. out.world.store = rel.store
      <4>1. \/ out.world = rel
            \/ out.world = TakeItem(rel, to.place, EntireStack, "RemovalMoving")
        BY <2>2, <3>1, EmptiedWorld
      <4> QED
        BY <4>1 DEF TakeItem
    <3>5. KeepsLimits(out.world)
      BY <2>2, <3>4 DEF KeepsLimits
    <3> HIDE DEF out
    <3>6. IsWorld(back)
      BY <2>1, <3>3, PossessedWorld
    <3>7. \A m \in DOMAIN back.log : m \in DOMAIN log' /\ log'[m] = back.log[m]
      <4> HIDE DEF back
      <4>1. log' = last.log
        BY <3>2 DEF Becomes
      <4>2. KeepsLog(back, last)
        BY <2>1, <2>2, <3>6, PossessedKeepsLog
      <4> HIDE DEF last
      <4> QED
        BY <4>1, <4>2 DEF KeepsLog
    <3>8. Holds(back, i) = Holds(out.world, i) + OfStack(out.stack, i)
      BY <2>1, <3>3, <3>5, <3>7, PossessedConserves
    <3> HIDE DEF back
    <3>9. IsWorld(last) /\ Holds(last, i) = Holds(back, i) + OfStack(stack, i)
      <4>1. SuitsEntry(back, to, stack)
        BY <3>1, SlotsAssumption DEF SuitsEntry
      <4> QED
        BY <2>1, <2>2, <3>6, <4>1, PossessedWorld, PossessedHolds
    <3>10. OfStack(out.stack, i) \in Int
      BY <1>6, <3>3
    <3> HIDE DEF last
    <3>11. Holds(last, i) = Holds(World, i)
      BY ONLY <2>2, <2>3, <3>3, <3>8, <3>9, <3>10
    <3> QED
      BY <1>5, <3>2, <3>9, <3>11
  <2> QED
    BY <1>8, <2>5, <2>6, <2>7 DEF MoveCall
<1> QED
  BY <1>3, <1>4, <1>7, <1>8 DEF AllNext

\* Whatever swaps and moves do, refused or not, every copy is loose, stored, in a
\* slot, or was let go of, but for an addition of more copies than a stack takes
\* to an entry that was there: with any finite number of storages and slots.
THEOREM CopiesStaySomewhere ==
    IsFiniteSet(Storages) /\ IsFiniteSet(Slots) => (AllSpec => EveryCopyIsSomewhere)
<1> SUFFICES ASSUME IsFiniteSet(Storages), IsFiniteSet(Slots) PROVE AllSpec => EveryCopyIsSomewhere
  OBVIOUS
<1>1. AllTyped /\ [AllNext]_allVars
      => [~Oversized => \A i \in Items : Everywhere(i)' = Everywhere(i)]_allVars
  BY AllNextConserves
<1> QED
  BY <1>1, AllTypesHold, PTL DEF AllSpec, EveryCopyIsSomewhere
-----------------------------------------------------------------------------
(* Hooks.  The one copy of a mutable item lies in one place of a world, is   *)
(* in the caller's hand, or is gone; its hook is bound to the place.         *)

\* Where the copy of i lies; NoOwner is no place.
Lies(w, i, p) ==
    /\ \A s \in Storages : i \in MutablesIn(w.store[s]) <=> s = p
    /\ \A s \in Slots : w.slots[s].item = i <=> s = p
    /\ w.gone[i] = 0 => w.owner[i] = p
    /\ w.gone[i] # 0 => p = NoOwner /\ w.owner[i] \notin Storages

\* The copy of i may be put somewhere.
IsFree(w, i) == Lies(w, i, NoOwner) /\ w.gone[i] = 0

Orderly(w) ==
    /\ \A s \in Storages : Solitary(w.store[s])
    /\ \A s \in Slots : w.slots[s].item \in Mutables => w.slots[s].copies = 1
    /\ \A i \in Mutables : \E p \in Storages \cup Slots \cup {NoOwner} : Lies(w, i, p)

\* A stack of a mutable item that is in the caller's hand is its one copy.
InHand(w, stack) == stack.item \in Mutables => stack.copies = 1 /\ IsFree(w, stack.item)

\* What was free stays free, but for item i.
KeepsFree(w, v, i) == \A j \in Mutables : j # i /\ IsFree(w, j) => IsFree(v, j)

\* The places are different from each other and from no place.
LEMMA Places ==
    /\ Slots \cap Storages = {} /\ NoOwner \notin Slots /\ NoOwner \notin Storages
    /\ Nothing \notin Mutables /\ Mutables \subseteq Items
BY SlotsAssumption, ItemsAssumption, InputsAssumption

\* TakeOwnership binds the hook of the item and no other.
LEMMA HookTaken ==
    ASSUME NEW own, IsHooks(own), NEW s, NEW i
    PROVE  \A j \in Mutables : TakeOwnership(own, s, i)[j] = IF j = i THEN s ELSE own[j]
BY DEF TakeOwnership, IsHooks

\* A slot that is set tells the hook of what it now holds; what it held before
\* is written over and gone.
LEMMA SetStoredItemOrderly ==
    ASSUME NEW w, IsWorld(w), Orderly(w), NEW s \in Slots, NEW i, NEW n,
           InHand(w, Stack(i, n))
    PROVE  /\ Orderly(SetStoredItem(w, s, i, n))
           /\ KeepsFree(w, SetStoredItem(w, s, i, n), i)
<1> DEFINE sl == w.slots[s]
           o == sl.item
           v == SetStoredItem(w, s, i, n)
<1>1. i \in Mutables => n = 1 /\ IsFree(w, i)
  BY DEF InHand, Stack
<1>2. IsSlot(sl) /\ IsHooks(w.owner)
  BY DEF IsWorld
<1>3. /\ v.store = w.store /\ \A t \in Slots : t # s => v.slots[t] = w.slots[t]
      /\ v.slots[s].item = i /\ (i # o => v.slots[s].copies = n)
  BY <1>2 DEF IsWorld, SetStoredItem, IsSlot
<1>4. i \in Mutables => i # o
  BY <1>1, Places DEF IsFree, Lies
<1>5. \A j \in Mutables : v.gone[j] = w.gone[j] + IF j = o /\ i # j THEN sl.copies ELSE 0
  BY Places DEF SetStoredItem
<1>6. \A j \in Mutables : v.owner[j] = IF j = i THEN s ELSE w.owner[j]
  <2>1. CASE i = o
    BY <1>4, <2>1 DEF SetStoredItem
  <2>2. CASE i # o
    <3>1. v.owner = TakeOwnership(w.owner, s, i)
      BY <2>2 DEF SetStoredItem
    <3> QED
      BY <1>2, <3>1, HookTaken
  <2> QED
    BY <2>1, <2>2
<1>7. \A j \in Mutables : w.gone[j] \in Int
  BY Places DEF IsWorld
<1> HIDE DEF v
<1>8. ASSUME NEW j \in Mutables
      PROVE  /\ \E p \in Storages \cup Slots \cup {NoOwner} : Lies(v, j, p)
             /\ j # i /\ IsFree(w, j) => IsFree(v, j)
  <2>1. CASE j = i
    <3>1. Lies(w, j, NoOwner) /\ w.gone[j] = 0 /\ j # o
      BY <1>1, <1>4, <2>1 DEF IsFree
    <3>2. v.gone[j] = 0 /\ v.owner[j] = s
      BY <1>5, <1>6, <2>1, <3>1
    <3>3. Lies(v, j, s)
      BY <1>3, <2>1, <3>1, <3>2, Places DEF Lies
    <3> QED
      BY <2>1, <3>3
  <2>2. CASE j # i /\ j = o
    <3>1. sl.copies = 1 /\ ~IsFree(w, j)
      BY <2>2, Places DEF Orderly, IsFree, Lies
    <3>2. PICK p \in Storages \cup Slots \cup {NoOwner} : Lies(w, j, p)
      BY DEF Orderly
    <3>3. p = s /\ w.gone[j] = 0 /\ w.owner[j] = s
      BY <2>2, <3>2, Places DEF Lies
    <3>4. v.gone[j] = 1 /\ v.owner[j] = s
      BY <1>5, <1>6, <2>2, <3>1, <3>3
    <3>5. Lies(v, j, NoOwner)
      BY <1>3, <2>2, <3>2, <3>3, <3>4, Places DEF Lies
    <3> QED
      BY <3>1, <3>5
  <2>3. CASE j # i /\ j # o
    <3>1. v.gone[j] = w.gone[j] /\ v.owner[j] = w.owner[j]
      BY <1>5, <1>6, <1>7, <2>3
    <3>2. \A p : Lies(w, j, p) => Lies(v, j, p)
      BY <1>3, <2>3, <3>1 DEF Lies
    <3> QED
      BY <3>1, <3>2 DEF Orderly, IsFree
  <2> QED
    BY <2>1, <2>2, <2>3
<1>9. Orderly(v)
  BY <1>1, <1>3, <1>4, <1>8 DEF Orderly
<1>10. KeepsFree(w, v, i)
  BY <1>8 DEF KeepsFree
<1> QED
  BY <1>9, <1>10 DEF v

\* A mutable item that is taken out of its slot is in the caller's hand.
LEMMA TakeItemOrderly ==
    ASSUME NEW w, IsWorld(w), Orderly(w), NEW s \in Slots, NEW n, NEW tag,
           w.slots[s].item # Nothing, n = EntireStack \/ n \in 1..w.slots[s].copies
    PROVE  /\ Orderly(TakeItem(w, s, n, tag))
           /\ KeepsFree(w, TakeItem(w, s, n, tag), Nothing)
           /\ InHand(TakeItem(w, s, n, tag), Stack(w.slots[s].item, w.slots[s].copies))
<1> DEFINE sl == w.slots[s]
           o == sl.item
           v == TakeItem(w, s, n, tag)
           taken == IF n = EntireStack THEN sl.copies ELSE n
<1>1. IsSlot(sl) /\ IsHooks(w.owner)
  BY DEF IsWorld
<1>2. o \in Mutables => sl.copies = 1 /\ taken = 1
  BY <1>1 DEF Orderly, IsSlot, EntireStack
<1>3. /\ v.store = w.store /\ v.gone = w.gone
      /\ \A t \in Slots : t # s => v.slots[t] = w.slots[t]
      /\ v.slots[s].item \in {Nothing, o}
      /\ taken = sl.copies => v.slots[s].item = Nothing
  BY <1>1 DEF IsWorld, TakeItem, IsSlot, EmptySlot
<1>4. \A j \in Mutables : v.owner[j] = IF j = o THEN NoOwner ELSE w.owner[j]
  BY <1>2 DEF TakeItem, ReleaseOwnership
<1> HIDE DEF v, taken
<1>5. ASSUME NEW j \in Mutables
      PROVE  /\ \E p \in Storages \cup Slots \cup {NoOwner} : Lies(v, j, p)
             /\ IsFree(w, j) => IsFree(v, j)
             /\ j = o => IsFree(v, j)
  <2>1. CASE j = o
    <3>1. PICK p \in Storages \cup Slots \cup {NoOwner} : Lies(w, j, p)
      BY DEF Orderly
    <3>2. p = s /\ w.gone[j] = 0
      BY <2>1, <3>1, Places DEF Lies
    <3>3. v.slots[s].item = Nothing /\ v.gone[j] = 0 /\ v.owner[j] = NoOwner
      BY <1>2, <1>3, <1>4, <2>1, <3>2
    <3>4. Lies(v, j, NoOwner)
      BY <1>3, <3>1, <3>2, <3>3, Places DEF Lies
    <3> QED
      BY <3>3, <3>4 DEF IsFree
  <2>2. CASE j # o
    <3>1. v.gone[j] = w.gone[j] /\ v.owner[j] = w.owner[j]
      BY <1>3, <1>4, <2>2
    <3>2. \A p : Lies(w, j, p) => Lies(v, j, p)
      BY <1>3, <2>2, <3>1, Places DEF Lies
    <3> QED
      BY <2>2, <3>1, <3>2 DEF Orderly, IsFree
  <2> QED
    BY <2>1, <2>2
<1>6. v.slots[s].item \in Mutables => v.slots[s].copies = 1
  BY <1>2, <1>3, Places
<1>7. Orderly(v)
  BY <1>3, <1>5, <1>6 DEF Orderly
<1>8. KeepsFree(w, v, Nothing)
  BY <1>5 DEF KeepsFree
<1>9. InHand(v, Stack(o, sl.copies))
  BY <1>2, <1>5 DEF InHand, Stack
<1> QED
  BY <1>7, <1>8, <1>9 DEF v

\* A mutable item that is let go of is nowhere, and its hook is not bound.
LEMMA LoseOrderly ==
    ASSUME NEW w, IsWorld(w), Orderly(w), NEW stack, IsStack(stack), InHand(w, stack)
    PROVE  Orderly(Lose(w, stack)) /\ KeepsFree(w, Lose(w, stack), stack.item)
<1> DEFINE v == Lose(w, stack)
           i == stack.item
<1>1. /\ v.store = w.store /\ v.slots = w.slots /\ v.owner = w.owner
      /\ \A j \in Mutables : v.gone[j] = w.gone[j] + IF j = i THEN stack.copies ELSE 0
      /\ \A j \in Mutables : w.gone[j] \in Int
  <2>1. /\ v.store = w.store /\ v.slots = w.slots /\ v.owner = w.owner
        /\ v.gone = [j \in Items |-> w.gone[j] + IF j = i THEN stack.copies ELSE 0]
    BY LoseWorld
  <2>2. \A j \in Mutables : j \in Items /\ w.gone[j] \in Int
    BY Places DEF IsWorld
  <2> HIDE DEF v, i
  <2> QED
    BY <2>1, <2>2
<1>2. i \in Mutables => stack.copies = 1 /\ Lies(w, i, NoOwner) /\ w.gone[i] = 0
  BY DEF InHand, IsFree
<1> HIDE DEF v, i
<1>3. ASSUME NEW j \in Mutables
      PROVE  /\ \E p \in Storages \cup Slots \cup {NoOwner} : Lies(v, j, p)
             /\ j # i /\ IsFree(w, j) => IsFree(v, j)
  <2>1. CASE j = i
    <3>1. v.gone[j] = 1 /\ w.owner[j] = NoOwner
      BY <1>1, <1>2, <2>1 DEF Lies
    <3>2. Lies(v, j, NoOwner)
      BY <1>1, <1>2, <2>1, <3>1, Places DEF Lies
    <3> QED
      BY <2>1, <3>2
  <2>2. CASE j # i
    <3>1. v.gone[j] = w.gone[j]
      BY <1>1, <2>2
    <3>2. \A p : Lies(w, j, p) => Lies(v, j, p)
      BY <1>1, <3>1 DEF Lies
    <3> QED
      BY <3>1, <3>2 DEF Orderly, IsFree
  <2> QED
    BY <2>1, <2>2
<1>4. Orderly(v)
  BY <1>1, <1>3 DEF Orderly
<1>5. KeepsFree(w, v, i)
  BY <1>3 DEF KeepsFree
<1> QED
  BY <1>4, <1>5 DEF v, i

\* A storage that takes a stack binds the hook of a mutable item.
LEMMA StoresOrderly ==
    ASSUME NEW w, IsWorld(w), Orderly(w), NEW h, IsHandler(h), h.place \in Storages,
           NEW stack, stack.item \in Items, stack.copies \in Nat \ {0}, InHand(w, stack)
    PROVE  Orderly(Stores(w, h, stack)) /\ KeepsFree(w, Stores(w, h, stack), stack.item)
<1> DEFINE v == Stores(w, h, stack)
           i == stack.item
           n == stack.copies
           s == h.place
           tt == Added(w.store[s], i, n, h.force)
<1>1. i \in Mutables => n = 1 /\ Lies(w, i, NoOwner) /\ w.gone[i] = 0
  BY DEF InHand, IsFree
<1>2. Sound(w.store[s]) /\ Solitary(w.store[s]) /\ h.force \in BOOLEAN
  BY DEF IsWorld, Orderly, IsHandler
<1>3. i \in Mutables => i \notin MutablesIn(w.store[s])
  BY <1>1, Places DEF Lies
<1>4. v.store[s] = tt /\ \A x \in Storages : x # s => v.store[x] = w.store[x]
  BY StoresWorld
<1>5. v.slots = w.slots /\ v.gone = w.gone /\ v.owner = TakeOwnership(w.owner, s, i)
  BY DEF Stores
<1>6. \A j \in Mutables : v.owner[j] = IF j = i THEN s ELSE w.owner[j]
  BY <1>5, HookTaken DEF IsWorld
<1>7. i \in Items /\ n \in Nat \ {0} /\ s \in Storages
  OBVIOUS
<1> HIDE DEF v, i, n, s
<1>8. Solitary(tt) /\ MutablesIn(tt) = MutablesIn(w.store[s]) \cup ({i} \cap Mutables)
  BY <1>1, <1>2, <1>3, <1>7, AddedSolitary
<1> HIDE DEF tt
<1>9. ASSUME NEW j \in Mutables
      PROVE  /\ \E p \in Storages \cup Slots \cup {NoOwner} : Lies(v, j, p)
             /\ j # i /\ IsFree(w, j) => IsFree(v, j)
  <2>1. CASE j = i
    <3>1. \A x \in Storages : j \in MutablesIn(v.store[x]) <=> x = s
      BY <1>1, <1>4, <1>8, <2>1, Places DEF Lies
    <3>2. Lies(v, j, s)
      BY <1>1, <1>5, <1>6, <1>7, <2>1, <3>1, Places DEF Lies
    <3> QED
      BY <1>7, <2>1, <3>2
  <2>2. CASE j # i
    <3>1. \A x \in Storages : j \in MutablesIn(v.store[x]) <=> j \in MutablesIn(w.store[x])
      BY <1>4, <1>8, <2>2
    <3>2. \A p : Lies(w, j, p) => Lies(v, j, p)
      BY <1>5, <1>6, <2>2, <3>1 DEF Lies
    <3> QED
      BY <1>5, <3>2 DEF Orderly, IsFree
  <2> QED
    BY <2>1, <2>2
<1>10. \A x \in Storages : Solitary(v.store[x])
  BY <1>4, <1>8 DEF Orderly
<1>11. Orderly(v)
  BY <1>5, <1>9, <1>10 DEF Orderly
<1>12. KeepsFree(w, v, i)
  BY <1>9 DEF KeepsFree
<1> QED
  BY <1>11, <1>12 DEF v, i

\* Possess puts what it is given where its hook says, or lets it go.
LEMMA PossessedOrderly ==
    ASSUME NEW w, IsWorld(w), Orderly(w), NEW h, IsHandler(h),
           NEW stack, IsStack(stack), InHand(w, stack), NEW verdict
    PROVE  /\ Orderly(Possessed(w, h, stack, verdict))
           /\ KeepsFree(w, Possessed(w, h, stack, verdict), stack.item)
<1> DEFINE v == Possessed(w, h, stack, verdict)
<1>1. CASE h.place \in Slots /\ v = SetStoredItem(w, h.place, stack.item, stack.copies)
  <2>1. InHand(w, Stack(stack.item, stack.copies))
    BY DEF InHand, Stack
  <2> QED
    BY <1>1, <2>1, SetStoredItemOrderly
<1>2. CASE h.place \in Storages /\ stack.item \in Items /\ stack.copies \in Nat \ {0} /\ v = Stores(w, h, stack)
  BY <1>2, StoresOrderly
<1>3. CASE v = Lose(w, stack)
  BY <1>3, LoseOrderly
<1> QED
  BY <1>1, <1>2, <1>3, PossessedCases
\* A stack leaves world w, which becomes v: it was not free, and is in hand now.
Takes(w, v, stack) ==
    /\ Orderly(v) /\ KeepsFree(w, v, Nothing) /\ InHand(v, stack)
    /\ stack.item \in Mutables => ~IsFree(w, stack.item)

\* A stack goes into world w, which becomes v.
Puts(w, v, stack) == Orderly(v) /\ KeepsFree(w, v, stack.item)

\* A slot that is emptied gives its stack, if it gives one.
LEMMA EmptiedOrderly ==
    ASSUME NEW w, IsWorld(w), Orderly(w), NEW s \in Slots, NEW v
    PROVE  Takes(w, Emptied(w, s, v).world, Emptied(w, s, v).stack)
<1>1. CASE Emptied(w, s, v) = [world |-> w, stack |-> EmptyStack]
  BY <1>1, Places DEF Takes, KeepsFree, InHand, EmptyStack, Stack
<1>2. CASE /\ w.slots[s].item \in Items
           /\ Emptied(w, s, v).world = TakeItem(w, s, EntireStack, "RemovalMoving")
           /\ Emptied(w, s, v).stack = Stack(w.slots[s].item, w.slots[s].copies)
  <2>1. w.slots[s].item # Nothing
    BY <1>2, SlotsAssumption
  <2>2. ~IsFree(w, w.slots[s].item)
    BY Places DEF IsFree, Lies
  <2>3. Stack(w.slots[s].item, w.slots[s].copies).item = w.slots[s].item
    BY DEF Stack
  <2> QED
    BY <1>2, <2>1, <2>2, <2>3, TakeItemOrderly DEF Takes
<1> QED
  BY <1>1, <1>2, EmptiedWorld

\* A source gives what it shows.
LEMMA ReleasedOrderly ==
    ASSUME AllTyped, Orderly(World), NEW h, IsSource(h)
    PROVE  Takes(World, Released(h), Viewed(h))
<1>1. IsWorld(World) /\ World.slots = slots /\ World.store = store /\ World.gone = gone /\ World.owner = owner
  BY DEF AllTyped, World
<1>2. CASE h.place \in Slots
  <2>1. Viewed(h) = Stack(slots[h.place].item, slots[h.place].copies)
    BY <1>2 DEF Viewed
  <2>2. Released(h) = TakeItem(World, h.place, EntireStack, "RemovalMoving")
    BY <1>2 DEF Released
  <2>3. World.slots[h.place].item # Nothing
    BY <1>1, <1>2 DEF IsSource
  <2>4. ~IsFree(World, slots[h.place].item)
    BY <1>1, <1>2, Places DEF IsFree, Lies
  <2>5. Stack(slots[h.place].item, slots[h.place].copies).item = slots[h.place].item
    BY DEF Stack
  <2> QED
    BY <1>1, <1>2, <2>1, <2>2, <2>3, <2>4, <2>5, TakeItemOrderly DEF Takes
<1>3. CASE h.place \in Storages
  <2> DEFINE s == h.place
             st == store[s]
             v == Released(h)
             i == st.entries[h.entry].item
             n == StackRemovalAmount(st, h.entry, h.stack, h.amount)
             whole == RemovesOnlyStack(st, h.entry, h.stack, h.amount)
             tt == RemovedFromStack(st, h.entry, h.stack, h.amount)
  <2>1. s \in Storages /\ s \notin Slots
    BY <1>3, SlotsAssumption
  <2>2. IsAmount(h.amount)
    <3>1. \A a \in Amounts : IsAmount(a)
      BY InputsAssumption DEF Amounts, IsAmount
    <3> QED
      BY <1>3, <3>1 DEF IsSource
  <2>3. /\ h.entry \in DOMAIN st.entries /\ h.stack \in DOMAIN st.entries[h.entry].stacks
        /\ Sound(st) /\ Solitary(st)
    BY <1>1, <1>3 DEF IsSource, IsWorld, Orderly
  <2>4. LeftOf(st, tt, i, whole) /\ (i \in Mutables => n = 1)
    BY <2>2, <2>3, RemovedFromStackLeaves
  <2>5. i \in Mutables => i \in MutablesIn(store[s])
    BY <2>3 DEF MutablesIn, Holding
  <2>6. /\ v.store = [store EXCEPT ![s] = tt] /\ v.slots = slots /\ v.gone = gone
        /\ v.owner = IF whole THEN ReleaseOwnership(owner, {i}) ELSE owner
    BY <2>1 DEF Released
  <2>7. Viewed(h) = Stack(i, n)
    BY <2>1 DEF Viewed
  <2> HIDE DEF v, tt, n, i, whole, s
  <2>8. store = [x \in Storages |-> store[x]]
    BY <1>1 DEF IsWorld
  <2>9. v.store[s] = tt /\ \A x \in Storages : x # s => v.store[x] = store[x]
    BY <2>1, <2>6, <2>8
  <2>10. \A j \in Mutables : v.owner[j] = IF j = i THEN NoOwner ELSE owner[j]
    BY <2>4, <2>6 DEF LeftOf, ReleaseOwnership
  <2>11. i \in Mutables => /\ owner[i] = s /\ gone[i] = 0
                           /\ \A x \in Slots : slots[x].item # i
                           /\ \A x \in Storages : i \in MutablesIn(store[x]) <=> x = s
    <3> SUFFICES ASSUME i \in Mutables
                 PROVE  /\ owner[i] = s /\ gone[i] = 0
                        /\ \A x \in Slots : slots[x].item # i
                        /\ \A x \in Storages : i \in MutablesIn(store[x]) <=> x = s
      OBVIOUS
    <3>1. PICK p \in Storages \cup Slots \cup {NoOwner} : Lies(World, i, p)
      BY DEF Orderly
    <3>2. p = s
      BY <1>1, <2>1, <2>5, <3>1 DEF Lies
    <3> QED
      BY <1>1, <2>1, <3>1, <3>2, Places DEF Lies
  <2>12. ASSUME NEW j \in Mutables
         PROVE  /\ \E p \in Storages \cup Slots \cup {NoOwner} : Lies(v, j, p)
                /\ IsFree(World, j) => IsFree(v, j)
                /\ j = i => IsFree(v, j)
    <3>1. CASE j = i
      <4>1. \A x \in Storages : j \notin MutablesIn(v.store[x])
        BY <2>4, <2>9, <2>11, <3>1 DEF LeftOf
      <4>2. Lies(v, j, NoOwner) /\ v.gone[j] = 0
        BY <2>6, <2>10, <2>11, <3>1, <4>1, Places DEF Lies
      <4> QED
        BY <4>2 DEF IsFree
    <3>2. CASE j # i
      <4>1. \A x \in Storages : j \in MutablesIn(v.store[x]) <=> j \in MutablesIn(store[x])
        BY <2>4, <2>9, <3>2 DEF LeftOf, st
      <4>2. v.owner[j] = owner[j]
        BY <2>10, <3>2
      <4>3. \A p : Lies(World, j, p) => Lies(v, j, p)
        BY <1>1, <2>6, <4>1, <4>2 DEF Lies
      <4> QED
        BY <1>1, <2>6, <3>2, <4>3 DEF Orderly, IsFree
    <3> QED
      BY <3>1, <3>2
  <2>13. Orderly(v)
    <3>1. \A x \in Storages : Solitary(v.store[x])
      BY <1>1, <2>4, <2>9 DEF Orderly, LeftOf
    <3> QED
      BY <1>1, <2>6, <2>12, <3>1 DEF Orderly
  <2>14. InHand(v, Stack(i, n))
    BY <2>4, <2>12 DEF InHand, Stack
  <2>15. i \in Mutables => ~IsFree(World, i)
    BY <1>1, <2>1, <2>11, Places DEF IsFree, Lies
  <2>16. Stack(i, n).item = i
    BY DEF Stack
  <2> QED
    BY <2>7, <2>12, <2>13, <2>14, <2>15, <2>16 DEF Takes, KeepsFree, v
<1> QED
  BY <1>2, <1>3 DEF IsSource, IsHandler

\* Two stacks that are in hand are not of one mutable item.
Apart(a, b) == a.item \in Mutables => a.item # b.item

\* What is free in w is free in v.
KeepsAllFree(w, v) == \A j \in Mutables : IsFree(w, j) => IsFree(v, j)

\* After two stacks are taken out, both are in hand.
LEMMA TwoInHand ==
    ASSUME NEW w, NEW v, NEW u, NEW a, NEW b, Takes(w, v, a), Takes(v, u, b)
    PROVE  /\ Orderly(u) /\ InHand(u, a) /\ InHand(u, b) /\ Apart(a, b) /\ Apart(b, a)
           /\ \A j \in Mutables : IsFree(w, j) => IsFree(u, j) /\ j # a.item /\ j # b.item
BY Places DEF Takes, InHand, Apart, KeepsFree

\* They are put back one after the other.
LEMMA TwoPut ==
    ASSUME NEW u, NEW x, NEW a, NEW b, InHand(u, a), Apart(a, b), Puts(u, x, b)
    PROVE  Orderly(x) /\ InHand(x, a)
BY DEF InHand, Apart, Puts, KeepsFree

\* The world a move that does not swap ends in.
LEMMA MovedOrderly ==
    ASSUME AllTyped, Orderly(World), NEW from, IsSource(from), NEW to, IsHandler(to), NEW v
    PROVE  /\ Orderly(Possessed(Released(from), to, Viewed(from), v))
           /\ KeepsAllFree(World, Possessed(Released(from), to, Viewed(from), v))
<1> DEFINE rel == Released(from)
           stack == Viewed(from)
           last == Possessed(rel, to, stack, v)
<1>1. Takes(World, rel, stack) /\ IsWorld(rel) /\ IsStack(stack)
  BY ReleasedOrderly, ReleasedWorld
<1> HIDE DEF rel, stack
<1>2. Puts(rel, last, stack)
  BY <1>1, PossessedOrderly DEF Puts, Takes
<1> HIDE DEF last
<1>3. Orderly(last) /\ KeepsAllFree(World, last)
  BY <1>1, <1>2, Places DEF Takes, Puts, KeepsFree, KeepsAllFree
<1> QED
  BY <1>3 DEF last, rel, stack

\* The world a move that swaps ends in.
LEMMA SwapMovedOrderly ==
    ASSUME AllTyped, Orderly(World), NEW from, IsSource(from), NEW to, IsHandler(to),
           to.place \in Slots, NEW u, NEW v, NEW x
    PROVE  LET out == Emptied(Released(from), to.place, u)
               back == Possessed(out.world, from, out.stack, v)
               last == Possessed(back, to, Viewed(from), x)
           IN  Orderly(last) /\ KeepsAllFree(World, last)
<1> DEFINE rel == Released(from)
           stack == Viewed(from)
           out == Emptied(rel, to.place, u)
           back == Possessed(out.world, from, out.stack, v)
           last == Possessed(back, to, stack, x)
<1>1. Takes(World, rel, stack) /\ IsWorld(rel) /\ IsStack(stack) /\ IsHandler(from)
  BY ReleasedOrderly, ReleasedWorld DEF IsSource
<1> HIDE DEF rel, stack
<1>2. IsWorld(out.world) /\ IsStack(out.stack)
  BY <1>1, EmptiedWorld
<1>3. Takes(rel, out.world, out.stack)
  BY <1>1, EmptiedOrderly DEF Takes
<1> HIDE DEF out
<1>4. /\ Orderly(out.world) /\ InHand(out.world, stack) /\ InHand(out.world, out.stack)
      /\ Apart(stack, out.stack)
      /\ \A j \in Mutables : IsFree(World, j) =>
            IsFree(out.world, j) /\ j # stack.item /\ j # out.stack.item
  BY <1>1, <1>3, TwoInHand
<1>5. Puts(out.world, back, out.stack) /\ IsWorld(back)
  BY <1>1, <1>2, <1>4, PossessedOrderly, PossessedWorld DEF Puts
<1> HIDE DEF back
<1>6. Orderly(back) /\ InHand(back, stack)
  BY <1>4, <1>5, TwoPut
<1>7. Puts(back, last, stack)
  BY <1>1, <1>5, <1>6, PossessedOrderly DEF Puts
<1> HIDE DEF last
<1>8. Orderly(last) /\ KeepsAllFree(World, last)
  BY <1>4, <1>5, <1>7 DEF Puts, KeepsFree, KeepsAllFree
<1> QED
  BY <1>8 DEF last, back, out, rel, stack

\* The world a swap of two slots ends in.
LEMMA SwappedOrderly ==
    ASSUME AllTyped, Orderly(World), NEW a \in Slots, NEW b \in Slots, NEW u, NEW v
    PROVE  Orderly(Swapped(a, b, u, v)) /\ KeepsAllFree(World, Swapped(a, b, u, v))
<1> DEFINE outA == Emptied(World, a, u)
           outB == Emptied(outA.world, b, v)
           inB  == SetStoredItem(outB.world, b, outA.stack.item, outA.stack.copies)
           inA  == SetStoredItem(inB, a, outB.stack.item, outB.stack.copies)
<1>1. IsWorld(World)
  BY DEF AllTyped
<1>2. IsWorld(outA.world) /\ IsStack(outA.stack) /\ Takes(World, outA.world, outA.stack)
  BY <1>1, EmptiedWorld, EmptiedOrderly
<1>3. Swapped(a, b, u, v) = inA
  BY DEF Swapped
<1> HIDE DEF outA
<1>4. IsWorld(outB.world) /\ IsStack(outB.stack) /\ Takes(outA.world, outB.world, outB.stack)
  BY <1>2, EmptiedWorld, EmptiedOrderly DEF Takes
<1> HIDE DEF outB
<1>5. /\ Orderly(outB.world) /\ InHand(outB.world, outA.stack) /\ InHand(outB.world, outB.stack)
      /\ Apart(outB.stack, outA.stack)
      /\ \A j \in Mutables : IsFree(World, j) =>
            IsFree(outB.world, j) /\ j # outA.stack.item /\ j # outB.stack.item
  BY <1>2, <1>4, TwoInHand
<1>6. /\ outA.stack = Stack(outA.stack.item, outA.stack.copies)
      /\ outB.stack = Stack(outB.stack.item, outB.stack.copies)
      /\ outA.stack.item \in Items \cup {Nothing} /\ outA.stack.copies \in Int
      /\ outA.stack.item = Nothing => outA.stack.copies = 0
  BY <1>2, <1>4 DEF IsStack
<1>7. IsWorld(inB) /\ Puts(outB.world, inB, outA.stack)
  BY <1>4, <1>5, <1>6, SetStoredItemWorld, SetStoredItemOrderly DEF Puts
<1> HIDE DEF inB
<1>8. Orderly(inB) /\ InHand(inB, outB.stack)
  BY <1>5, <1>7, TwoPut
<1>9. Puts(inB, inA, outB.stack)
  BY <1>6, <1>7, <1>8, SetStoredItemOrderly DEF Puts
<1> HIDE DEF inA
<1>10. Orderly(inA) /\ KeepsAllFree(World, inA)
  BY <1>5, <1>7, <1>9 DEF Puts, KeepsFree, KeepsAllFree
<1> QED
  BY <1>3, <1>10

\* A loose copy of a mutable item is its only one.
LooseAreFree == \A i \in Mutables : loose[i] <= IF IsFree(World, i) THEN 1 ELSE 0

AllOrderly == Orderly(World) /\ LooseAreFree

\* A call that leaves an orderly world behind.
LEMMA BecomesOrderly ==
    ASSUME AllTyped, AllOrderly, NEW w, Orderly(w), Becomes(w),
           \A i \in Mutables : loose'[i] <= IF IsFree(w, i) THEN 1 ELSE 0
    PROVE  AllOrderly'
<1>1. /\ World'.store = w.store /\ World'.slots = w.slots /\ World'.owner = w.owner
      /\ World'.gone = w.gone
  BY DEF Becomes, World
<1>2. \A i, p : Lies(w, i, p) <=> Lies(World', i, p)
  BY <1>1 DEF Lies
<1>3. \A i : IsFree(w, i) <=> IsFree(World', i)
  BY <1>1, <1>2 DEF IsFree
<1>4. Orderly(World')
  BY <1>1, <1>2 DEF Orderly
<1>5. \A i \in Mutables : loose'[i] <= IF IsFree(World', i) THEN 1 ELSE 0
  BY <1>3
<1> QED
  BY <1>4, <1>5 DEF AllOrderly, LooseAreFree

\* A call that moves what is not loose.
LEMMA MovesAreOrderly ==
    ASSUME AllTyped, AllOrderly, NEW w, Orderly(w), KeepsAllFree(World, w), Becomes(w), loose' = loose
    PROVE  AllOrderly'
<1>1. \A i \in Mutables : loose[i] <= IF IsFree(World, i) THEN 1 ELSE 0
  BY DEF AllOrderly, LooseAreFree
<1>2. \A i \in Mutables : loose[i] \in Int
  BY Places DEF AllTyped, IInv, RestInv
<1>3. \A i \in Mutables : loose'[i] <= IF IsFree(w, i) THEN 1 ELSE 0
  BY <1>1, <1>2 DEF KeepsAllFree
<1> QED
  BY <1>3, BecomesOrderly
\* The storages of an orderly state own what they hold.
LEMMA OrderlyOwns ==
    ASSUME AllTyped, AllOrderly
    PROVE  /\ OwnInv
           /\ \A i \in Mutables : \A p : Lies(World, i, p) =>
                 /\ \A s \in Storages : i \in MutablesIn(store[s]) <=> s = p
                 /\ \A s \in Slots : slots[s].item = i <=> s = p
                 /\ gone[i] = 0 => owner[i] = p
                 /\ gone[i] # 0 => p = NoOwner /\ owner[i] \notin Storages
           /\ \A i \in Mutables : loose[i] \in Int
<1>1. World.slots = slots /\ World.store = store /\ World.gone = gone /\ World.owner = owner
  BY DEF World
<1>2. ASSUME NEW i \in Mutables, NEW p, Lies(World, i, p)
      PROVE  /\ \A s \in Storages : i \in MutablesIn(store[s]) <=> s = p
             /\ \A s \in Slots : slots[s].item = i <=> s = p
             /\ gone[i] = 0 => owner[i] = p
             /\ gone[i] # 0 => p = NoOwner /\ owner[i] \notin Storages
  BY <1>1, <1>2 DEF Lies
<1>3. \A i \in Mutables : loose[i] \in Int
  BY Places DEF AllTyped, IInv, RestInv
<1>4. ASSUME NEW i \in Mutables
      PROVE  /\ \A s \in Storages : i \in MutablesIn(store[s]) <=> owner[i] = s
             /\ loose[i] <= (IF owner[i] = NoOwner THEN 1 ELSE 0)
  <2>1. PICK p \in Storages \cup Slots \cup {NoOwner} : Lies(World, i, p)
    BY DEF AllOrderly, Orderly
  <2>2. \A s \in Storages : i \in MutablesIn(store[s]) <=> owner[i] = s
    BY <1>2, <2>1, Places
  <2>3. IsFree(World, i) => owner[i] = NoOwner
    BY <1>1 DEF IsFree, Lies
  <2>4. loose[i] <= IF IsFree(World, i) THEN 1 ELSE 0
    BY DEF AllOrderly, LooseAreFree
  <2> QED
    BY <1>3, <2>2, <2>3, <2>4
<1>5. \A s \in Storages : Solitary(store[s])
  BY <1>1 DEF AllOrderly, Orderly
<1> QED
  BY <1>2, <1>3, <1>4, <1>5 DEF OwnInv

\* A call on the storages leaves what lies in the slots alone.
LEMMA NextOrderly ==
    ASSUME AllTyped, AllOrderly, OwnInv', UNCHANGED <<slots, gone>>, HooksBound,
           \A i \in Mutables : owner[i] \notin Storages /\ loose[i] <= 0
                                  => owner'[i] = owner[i] /\ loose'[i] = loose[i]
    PROVE  AllOrderly'
<1>1. /\ World'.store = store' /\ World'.slots = slots /\ World'.gone = gone
      /\ World'.owner = owner' /\ World.slots = slots
  BY DEF World
<1>2. \A i \in Mutables : loose[i] \in Int
  BY OrderlyOwns
<1>3. ASSUME NEW i \in Mutables
      PROVE  /\ \E p \in Storages \cup Slots \cup {NoOwner} : Lies(World', i, p)
             /\ loose'[i] <= IF IsFree(World', i) THEN 1 ELSE 0
  <2>1. PICK p \in Storages \cup Slots \cup {NoOwner} : Lies(World, i, p)
    BY DEF AllOrderly, Orderly
  <2>2. /\ \A s \in Storages : i \in MutablesIn(store[s]) <=> s = p
        /\ \A s \in Slots : slots[s].item = i <=> s = p
        /\ gone[i] = 0 => owner[i] = p
        /\ gone[i] # 0 => p = NoOwner /\ owner[i] \notin Storages
    BY <2>1, OrderlyOwns
  <2>3. /\ \A s \in Storages : i \in MutablesIn(store'[s]) <=> owner'[i] = s
        /\ loose'[i] <= (IF owner'[i] = NoOwner THEN 1 ELSE 0)
    BY DEF OwnInv
  <2>4. owner'[i] \in Storages \cup {NoOwner, owner[i]}
    BY DEF HooksBound
  <2>5. loose[i] <= IF IsFree(World, i) THEN 1 ELSE 0
    BY DEF AllOrderly, LooseAreFree
  <2>6. CASE gone[i] = 0 /\ p \notin Slots
    <3>1. owner'[i] \in Storages \cup {NoOwner}
      BY <2>2, <2>4, <2>6
    <3>2. \A s \in Slots : slots[s].item # i
      BY <2>2, <2>6
    <3>3. Lies(World', i, owner'[i])
      BY <1>1, <2>3, <2>6, <3>1, <3>2, Places DEF Lies
    <3>4. owner'[i] = NoOwner => IsFree(World', i)
      BY <1>1, <2>6, <3>3 DEF IsFree
    <3>5. CASE owner'[i] = NoOwner
      BY <2>3, <3>1, <3>3, <3>4, <3>5
    <3>6. CASE owner'[i] # NoOwner
      <4>1. ~IsFree(World', i)
        BY <1>1, <3>6 DEF IsFree, Lies
      <4> QED
        BY <2>3, <3>1, <3>3, <3>6, <4>1
    <3> QED
      BY <3>5, <3>6
  <2>7. CASE gone[i] # 0 \/ p \in Slots
    <3>1. ~IsFree(World, i)
      BY <1>1, <2>2, <2>7, Places DEF IsFree, Lies, World
    <3>2. owner[i] \notin Storages /\ loose[i] <= 0
      BY <1>2, <2>2, <2>5, <2>7, <3>1, Places
    <3>3. owner'[i] = owner[i] /\ loose'[i] = loose[i]
      BY <3>2
    <3>4. \A s \in Storages : i \notin MutablesIn(store'[s])
      BY <2>3, <3>2, <3>3
    <3>5. p \notin Storages
      BY <2>2, <2>7, Places
    <3>6. Lies(World', i, p)
      BY <1>1, <2>2, <3>2, <3>3, <3>4, <3>5 DEF Lies
    <3>7. ~IsFree(World', i)
      BY <1>1, <2>2, <2>7, Places DEF IsFree, Lies
    <3> QED
      BY <3>2, <3>3, <3>6, <3>7
  <2> QED
    BY <2>6, <2>7
<1>4. \A s \in Storages : Solitary(store'[s])
  BY DEF OwnInv
<1>5. \A s \in Slots : slots[s].item \in Mutables => slots[s].copies = 1
  BY <1>1 DEF AllOrderly, Orderly
<1>6. Orderly(World')
  BY <1>1, <1>3, <1>4, <1>5 DEF Orderly
<1> QED
  BY <1>3, <1>6 DEF AllOrderly, LooseAreFree

\* Every call on storages and slots keeps hooks and items together.
LEMMA AllNextOrderly ==
    ASSUME SplitAmounts \subseteq Nat \ {0}, AllTyped, AllOrderly, [AllNext]_allVars
    PROVE  AllOrderly'
<1>1. /\ IsWorld(World) /\ World.slots = slots /\ World.gone = gone
      /\ Orderly(World) /\ IInv /\ OwnInv
      /\ \A i \in Mutables : i \in Items /\ loose[i] \in Int
      /\ \A i \in Mutables : loose[i] <= IF IsFree(World, i) THEN 1 ELSE 0
      /\ loose = [i \in Items |-> loose[i]]
  BY OrderlyOwns, Places DEF AllTyped, AllOrderly, LooseAreFree, World, IInv, RestInv
<1>2. CASE UNCHANGED allVars
  <2>1. World' = World /\ loose' = loose
    BY <1>2 DEF allVars, vars, World
  <2>2. Orderly(World') /\ \A i \in Mutables : loose'[i] <= IF IsFree(World', i) THEN 1 ELSE 0
    BY <1>1, <2>1
  <2> QED
    BY <2>2 DEF AllOrderly, LooseAreFree
<1>3. CASE Next /\ UNCHANGED <<slots, gone>>
  <2>1. OwnInv'
    BY <1>1, <1>3, NextOwns
  <2>2. HooksBound
    BY <1>1, <1>3, NextBindsHooks DEF IInv, RestInv
  <2>3. \A i \in Mutables : owner[i] \notin Storages /\ loose[i] <= 0
                              => owner'[i] = owner[i] /\ loose'[i] = loose[i]
    BY <1>1, <1>3, AbsentStays
  <2> QED
    BY <1>3, <2>1, <2>2, <2>3, NextOrderly
<1>4. ASSUME NEW s \in Slots, NEW i \in Items, NEW n \in 1..loose[i], NEW v \in Verdicts,
             SetItemInSlot(s, i, n, v)
      PROVE  AllOrderly'
  <2> DEFINE w == SetStoredItem(World, s, i, n)
  <2>1. Becomes(w) /\ loose' = [loose EXCEPT ![i] = @ - n]
    BY <1>4 DEF SetItemInSlot
  <2>2. i \in Mutables => n = 1 /\ IsFree(World, i) /\ loose[i] = 1
    BY <1>1
  <2>3. InHand(World, Stack(i, n))
    BY <2>2 DEF InHand, Stack
  <2>4. Orderly(w) /\ KeepsFree(World, w, i)
    BY <1>1, <2>3, SetStoredItemOrderly
  <2> HIDE DEF w
  <2>5. ASSUME NEW j \in Mutables PROVE loose'[j] <= IF IsFree(w, j) THEN 1 ELSE 0
    <3>1. CASE j = i
      BY <1>1, <2>1, <2>2, <3>1
    <3>2. CASE j # i
      <4>1. loose'[j] = loose[j] /\ (IsFree(World, j) => IsFree(w, j))
        BY <1>1, <2>1, <2>4, <3>2 DEF KeepsFree
      <4> QED
        BY <1>1, <4>1
    <3> QED
      BY <3>1, <3>2
  <2> QED
    BY <2>1, <2>4, <2>5, BecomesOrderly
<1>5. ASSUME NEW s \in Slots, NEW n \in Amounts, NEW tag \in RemovalTags, NEW v \in Verdicts,
             TakeItemFromSlot(s, n, tag, v)
      PROVE  AllOrderly'
  <2> DEFINE w == TakeItem(World, s, n, tag)
             i == slots[s].item
             m == IF n = EntireStack THEN slots[s].copies ELSE n
  <2>1. /\ i # Nothing /\ Becomes(w)
        /\ loose' = [loose EXCEPT ![i] = @ + m]
        /\ n = EntireStack \/ n <= slots[s].copies
    BY <1>1, <1>5 DEF TakeItemFromSlot, CanTakeFromSlot
  <2>2. IsSlot(slots[s])
    BY <1>1 DEF IsWorld
  <2>3. n = EntireStack \/ n \in 1..slots[s].copies
    <3>1. slots[s].copies \in Int /\ (n = EntireStack \/ (n \in Int /\ n >= 1))
      BY <1>1, <2>2, InputsAssumption DEF Amounts, IsSlot
    <3> QED
      BY ONLY <2>1, <3>1
  <2>4. Orderly(w) /\ KeepsFree(World, w, Nothing) /\ InHand(w, Stack(i, slots[s].copies))
    BY <1>1, <2>1, <2>3, TakeItemOrderly
  <2>5. i \in Mutables => slots[s].copies = 1 /\ m = 1 /\ IsFree(w, i) /\ ~IsFree(World, i)
    <3>1. i \in Mutables => slots[s].copies = 1
      BY <1>1 DEF Orderly
    <3>2. i \in Mutables => m = 1
      BY <2>3, <3>1
    <3>3. i \in Mutables => IsFree(w, i)
      BY <2>4 DEF InHand, Stack
    <3>4. ~IsFree(World, i)
      BY <1>1, Places DEF IsFree, Lies
    <3> QED
      BY <3>1, <3>2, <3>3, <3>4
  <2> HIDE DEF w, m
  <2>6. ASSUME NEW j \in Mutables PROVE loose'[j] <= IF IsFree(w, j) THEN 1 ELSE 0
    <3>1. CASE j = i
      BY <1>1, <2>1, <2>5, <3>1
    <3>2. CASE j # i
      <4>1. loose'[j] = loose[j] /\ (IsFree(World, j) => IsFree(w, j))
        BY <1>1, <2>1, <2>4, <3>2, Places DEF KeepsFree
      <4> QED
        BY <1>1, <4>1
    <3> QED
      BY <3>1, <3>2
  <2> QED
    BY <2>1, <2>4, <2>6, BecomesOrderly
<1>6. ASSUME NEW a \in Slots, NEW b \in Slots, SwapCall(a, b) PROVE AllOrderly'
  <2>1. PICK u, v : Becomes(Swapped(a, b, u, v)) /\ loose' = loose
    BY <1>6 DEF SwapCall, TrySwapSlots
  <2> QED
    BY <1>1, <2>1, SwappedOrderly, MovesAreOrderly
<1>7. ASSUME NEW from \in Sources, NEW to \in Targets, MoveCall(from, to)
      PROVE  AllOrderly'
  <2>1. IsSource(from) /\ IsHandler(to) /\ IsHandler(from)
    BY Handlers DEF IsSource
  <2>2. ASSUME NEW u, NEW v, MoveInto(from, to, u, v) PROVE AllOrderly'
    BY <1>1, <2>1, <2>2, MovedOrderly, MovesAreOrderly DEF MoveInto
  <2>3. ASSUME NEW u, NEW v, NEW x, NEW y, MoveSwap(from, to, u, v, x, y) PROVE AllOrderly'
    <3>1. to.place \in Slots
      BY <2>3 DEF MoveSwap, SwapValidated, IsSwap, Targets, StorageHandler, SlotHandler
    <3> QED
      BY <1>1, <2>1, <2>3, <3>1, SwapMovedOrderly, MovesAreOrderly DEF MoveSwap
  <2>4. ASSUME NEW u, NEW v, NEW x, NEW y, NEW z, MoveSwapFails(from, to, u, v, x, y, z)
        PROVE  AllOrderly'
    BY <1>1, <2>1, <2>4, MovedOrderly, MovesAreOrderly DEF MoveSwapFails, PossessedAgain
  <2> QED
    BY <1>7, <2>2, <2>3, <2>4 DEF MoveCall
<1> QED
  BY <1>2, <1>3, <1>4, <1>5, <1>6, <1>7 DEF AllNext, SlotCall

\* The hook of a mutable item is bound to the storage or slot it is in, and to
\* nothing when it is in none, unless a call let it go: whatever swaps and
\* moves do, refused or not.  There is one copy of a mutable item.
THEOREM HooksFollow ==
    /\ \A i \in Mutables : Supply[i] <= 1
    /\ SplitAmounts \subseteq Nat \ {0}
    => (AllSpec => []HooksFollowItems)
<1> SUFFICES ASSUME \A i \in Mutables : Supply[i] <= 1, SplitAmounts \subseteq Nat \ {0}
             PROVE  AllSpec => []HooksFollowItems
  OBVIOUS
<1>1. AllInit => AllOrderly
  <2> SUFFICES ASSUME AllInit PROVE AllOrderly
    OBVIOUS
  <2>1. World.slots = slots /\ World.store = store /\ World.gone = gone /\ World.owner = owner
    BY DEF World
  <2>2. \A s \in Storages : DOMAIN store[s].entries = {}
    BY DEF AllInit, Init, EmptyStorage
  <2>3. \A s \in Storages : Solitary(store[s]) /\ MutablesIn(store[s]) = {}
    BY <2>2 DEF Solitary, MutablesIn, Holding
  <2>4. \A s \in Slots : slots[s].item = Nothing
    BY DEF AllInit
  <2>5. \A i \in Mutables : owner[i] = NoOwner /\ gone[i] = 0 /\ loose[i] <= 1
    BY Places DEF AllInit, Init
  <2>6. \A i \in Mutables : IsFree(World, i)
    BY <2>1, <2>3, <2>4, <2>5, Places DEF IsFree, Lies
  <2>7. Orderly(World)
    BY <2>1, <2>3, <2>4, <2>6, Places DEF Orderly, IsFree
  <2> QED
    BY <2>5, <2>6, <2>7 DEF AllOrderly, LooseAreFree
<1>2. AllTyped /\ AllOrderly /\ [AllNext]_allVars => AllOrderly'
  BY AllNextOrderly
<1>3. AllTyped /\ AllOrderly => HooksFollowItems
  <2> SUFFICES ASSUME AllTyped, AllOrderly, NEW i \in Mutables, gone[i] = 0
               PROVE  PlacesOf(i) = IF owner[i] = NoOwner THEN {} ELSE {owner[i]}
    BY DEF HooksFollowItems
  <2>1. PICK p \in Storages \cup Slots \cup {NoOwner} : Lies(World, i, p)
    BY DEF AllOrderly, Orderly
  <2>2. /\ \A s \in Storages : i \in MutablesIn(store[s]) <=> s = p
        /\ \A s \in Slots : slots[s].item = i <=> s = p
        /\ owner[i] = p
    BY <2>1, OrderlyOwns
  <2>3. HeldBy(i) = {s \in Storages : s = p}
    BY <2>2 DEF HeldBy, MutablesIn
  <2> QED
    BY <2>2, <2>3, Places DEF PlacesOf
<1> QED
  BY <1>1, <1>2, <1>3, AllTypesHold, PTL DEF AllSpec

-----------------------------------------------------------------------------
(* The simple grid of a storage.                                            *)

\* An address is stored if its entry has the stack.
LEMMA StoredIs ==
    ASSUME NEW st
    PROVE  /\ \A k, j : <<k, j>> \in StoredAddresses(st) <=> j \in StacksOf(st, k)
           /\ \A a \in StoredAddresses(st) : a = <<a[1], a[2]>>
BY DEF StoredAddresses, StacksOf

\* The addresses of a storage are of the keys its generators give out.
LEMMA StoredWithin ==
    ASSUME NEW st, Sound(st), WithinBounds(st)
    PROVE  StoredAddresses(st) \subseteq EntryKeys \X StackKeys
<1> SUFFICES ASSUME NEW a \in StoredAddresses(st) PROVE a \in EntryKeys \X StackKeys
  OBVIOUS
<1>1. PICK k \in DOMAIN st.entries : \E j \in DOMAIN st.entries[k].stacks : a = <<k, j>>
  BY DEF StoredAddresses
<1>2. PICK j \in DOMAIN st.entries[k].stacks : a = <<k, j>>
  BY <1>1
<1>3. KeyGenReset \in Int /\ MaxEntryKey \in Int /\ MaxStackKey \in Int
  BY InputsAssumption DEF KeyGenReset
<1>4. k \in (KeyGenReset + 1) .. st.keyGen /\ st.keyGen \in Int /\ st.keyGen <= MaxEntryKey
  BY DEF Sound, IsStorage, WithinBounds
<1>5. IsEntry(st.entries[k]) /\ st.entries[k].gen <= MaxStackKey
  BY DEF Sound, IsStorage, WithinBounds
<1>6. j \in (KeyGenReset + 1) .. st.entries[k].gen /\ st.entries[k].gen \in Int
  BY <1>2, <1>5 DEF IsEntry
<1>7. k \in EntryKeys
  BY <1>3, <1>4 DEF EntryKeys
<1>8. j \in StackKeys
  BY <1>3, <1>5, <1>6 DEF StackKeys
<1> QED
  BY <1>2, <1>7, <1>8

\* There are finitely many of them.
LEMMA AddressesFinite == IsFiniteSet(EntryKeys \X StackKeys)
<1>1. KeyGenReset + 1 \in Int /\ MaxEntryKey \in Int /\ MaxStackKey \in Int
  BY InputsAssumption DEF KeyGenReset
<1>2. IsFiniteSet(EntryKeys) /\ IsFiniteSet(StackKeys)
  BY <1>1, FS_Interval DEF EntryKeys, StackKeys
<1> QED
  BY <1>2, FS_Product

\* The addresses of an event are gone through once each: the number of those
\* before one of them is its place.
LEMMA InOrderIs ==
    ASSUME NEW A, A \subseteq Int \X Int, IsFiniteSet(A)
    PROVE  /\ Cardinality(A) \in Nat
           /\ \A n \in 1 .. Cardinality(A) : InOrder(A)[n] \in A
           /\ \A a \in A : \E n \in 1 .. Cardinality(A) : InOrder(A)[n] = a
           /\ \A m, n \in 1 .. Cardinality(A) : InOrder(A)[m] = InOrder(A)[n] => m = n
<1> DEFINE N == Cardinality(A)
           Below(a) == {b \in A : AddressBefore(b, a)}
           rank == [a \in A |-> Cardinality(Below(a))]
           row == InOrder(A)
<1>1. N \in Nat
  BY FS_CardinalityType
<1>2. ASSUME NEW a \in A
      PROVE  Cardinality(Below(a)) \in 0 .. N - 1 /\ IsFiniteSet(Below(a))
  <2>1. Below(a) \in SUBSET A /\ a \notin Below(a)
    BY DEF AddressBefore
  <2>2. IsFiniteSet(Below(a)) /\ Cardinality(Below(a)) <= N /\ Cardinality(Below(a)) # N
    BY <2>1, FS_Subset
  <2>3. Cardinality(Below(a)) \in Nat
    BY <2>2, FS_CardinalityType
  <2> HIDE DEF Below, N
  <2> QED
    BY <1>1, <2>2, <2>3
<1>3. ASSUME NEW a \in A, NEW b \in A, AddressBefore(a, b)
      PROVE  Cardinality(Below(a)) < Cardinality(Below(b))
  <2>1. \A c \in A : AddressBefore(c, a) => AddressBefore(c, b)
    BY <1>3 DEF AddressBefore
  <2>2. Below(a) \in SUBSET Below(b) /\ a \in Below(b) /\ a \notin Below(a)
    BY <1>3, <2>1 DEF AddressBefore
  <2>3. Cardinality(Below(a)) <= Cardinality(Below(b)) /\ Cardinality(Below(a)) # Cardinality(Below(b))
    BY <1>2, <2>2, FS_Subset
  <2> HIDE DEF Below, N
  <2> QED
    BY <1>1, <1>2, <2>3
<1>4. rank \in Injection(A, 0 .. N - 1)
  <2>1. rank \in [A -> 0 .. N - 1]
    BY <1>2
  <2>2. ASSUME NEW a \in A, NEW b \in A, rank[a] = rank[b] PROVE a = b
    <3>1. Cardinality(Below(a)) = Cardinality(Below(b))
      BY <2>2
    <3>2. Cardinality(Below(a)) \in 0 .. N - 1
      BY <1>2
    <3>3. Cardinality(Below(a)) \in Int
      <4> HIDE DEF N, Below
      <4> QED
        BY ONLY <3>2, <1>1
    <3>4. ~AddressBefore(a, b) /\ ~AddressBefore(b, a)
      <4> HIDE DEF Below
      <4> QED
        BY <1>3, <3>1, <3>3
    <3> QED
      BY <3>4 DEF AddressBefore
  <2> HIDE DEF rank
  <2> QED
    BY <2>1, <2>2 DEF Injection, IsInjective
<1>5. rank \in Surjection(A, 0 .. N - 1)
  <2>1. IsFiniteSet(0 .. N - 1) /\ Cardinality(0 .. N - 1) = N
    <3> HIDE DEF N
    <3>1. N \in Nat
      BY ONLY <1>1
    <3>2. N - 1 \in Int /\ ~(0 > N - 1 /\ N # 0) /\ (N - 1) - 0 + 1 = N /\ (0 > N - 1 <=> N = 0)
      BY ONLY <3>1
    <3>3. IsFiniteSet(0 .. N - 1) /\ Cardinality(0 .. N - 1) = IF 0 > N - 1 THEN 0 ELSE (N - 1) - 0 + 1
      BY ONLY <3>2, FS_Interval
    <3> QED
      BY ONLY <3>2, <3>3
  <2> HIDE DEF rank
  <2> QED
    BY <1>4, <2>1, FS_Injection
<1>6. ASSUME NEW n \in 1 .. N
      PROVE  row[n] \in A /\ rank[row[n]] = n - 1
  <2>1. n - 1 \in 0 .. N - 1
    <3> HIDE DEF N
    <3> QED
      BY <1>1
  <2>2. \E a \in A : rank[a] = n - 1
    BY <1>5, <2>1 DEF Surjection
  <2>3. \E a \in A : Cardinality(Below(a)) = n - 1
    BY <2>2
  <2>4. row[n] = CHOOSE a \in A : Cardinality(Below(a)) = n - 1
    BY DEF InOrder
  <2> HIDE DEF row
  <2> QED
    BY <2>3, <2>4
<1>7. ASSUME NEW a \in A PROVE \E n \in 1 .. N : row[n] = a
  <2>1. rank[a] \in 0 .. N - 1
    BY <1>2
  <2>2. rank[a] + 1 \in 1 .. N /\ (rank[a] + 1) - 1 = rank[a]
    <3> HIDE DEF N, rank
    <3> QED
      BY ONLY <1>1, <2>1
  <2> HIDE DEF rank, row, N
  <2>3. rank[row[rank[a] + 1]] = rank[a] /\ row[rank[a] + 1] \in A
    BY <1>6, <2>2
  <2>4. row[rank[a] + 1] = a
    BY <1>4, <2>3 DEF Injection, IsInjective
  <2> QED
    BY <2>2, <2>4
<1>8. ASSUME NEW m \in 1 .. N, NEW n \in 1 .. N, row[m] = row[n] PROVE m = n
  <2> HIDE DEF rank, row, N
  <2>1. m - 1 = n - 1
    BY <1>6, <1>8
  <2> QED
    BY <1>1, <2>1
<1> QED
  BY <1>1, <1>6, <1>7, <1>8

\* A grid on which every stack lies alone on its cell, and these are marked.
GridOK(g) ==
    /\ \A a, b \in DOMAIN g.placed : g.placed[a] = g.placed[b] => a = b
    /\ \A p : p \in g.marked <=> \E a \in DOMAIN g.placed : p = g.placed[a]
    /\ g.marked \subseteq CellsOf(gridSize)

\* What an addition of the addresses of A makes of grid g, and what a removal does.
Adds(g, h, A) ==
    /\ GridOK(h)
    /\ DOMAIN g.placed \subseteq DOMAIN h.placed
    /\ DOMAIN h.placed \subseteq DOMAIN g.placed \cup A
    /\ \A a \in DOMAIN g.placed : h.placed[a] = g.placed[a]
    /\ \A a \in A : a \in DOMAIN h.placed \/ CellsOf(gridSize) \subseteq h.marked

Removes(g, h, A, there) ==
    /\ GridOK(h)
    /\ DOMAIN h.placed = DOMAIN g.placed \ (A \ there)
    /\ \A a \in DOMAIN h.placed : h.placed[a] = g.placed[a]

\* FindFirstEmptyLocation finds a cell if there is one: a first row with free
\* cells, and the first of them.
LEMMA FirstIsFree ==
    ASSUME gridSize \in Nat \X Nat, NEW g
    PROVE  /\ FirstEmptyLocation(g) \subseteq CellsOf(gridSize) \ g.marked
           /\ FirstEmptyLocation(g) = {} => CellsOf(gridSize) \subseteq g.marked
<1> DEFINE free == CellsOf(gridSize) \ g.marked
<1>1. FirstEmptyLocation(g) = {p \in free : \A q \in free : Before(p, q)}
  BY DEF FirstEmptyLocation
<1>2. \A p \in free : /\ p \in Nat \X Nat /\ p[1] \in 0 .. gridSize[1] - 1 /\ p[2] \in 0 .. gridSize[2] - 1
                      /\ p = <<p[1], p[2]>>
  BY DEF CellsOf
<1>3. gridSize[1] \in Nat /\ gridSize[2] \in Nat
  OBVIOUS
<1> HIDE DEF free
<1>4. ASSUME NEW p \in free PROVE FirstEmptyLocation(g) # {}
  <2> DEFINE rows == {y \in 0 .. gridSize[2] - 1 : \E q \in free : q[2] = y}
  <2>1. PICK y \in rows : \A z \in rows : y <= z
    <3>1. rows # {} /\ rows \in SUBSET (0 .. gridSize[2] - 1) /\ rows \subseteq Int
      BY <1>2, <1>3
    <3>2. IsFiniteSet(rows)
      <4> HIDE DEF rows
      <4>1. gridSize[2] - 1 \in Int /\ 0 \in Int
        BY <1>3
      <4>2. IsFiniteSet(0 .. gridSize[2] - 1)
        BY <4>1, FS_Interval
      <4> QED
        BY <3>1, <4>2, FS_Subset
    <3> HIDE DEF rows
    <3> QED
      BY <3>1, <3>2, LeastInteger
  <2> DEFINE columns == {x \in 0 .. gridSize[1] - 1 : \E q \in free : q[2] = y /\ q[1] = x}
  <2>2. PICK x \in columns : \A z \in columns : x <= z
    <3>1. columns # {} /\ columns \in SUBSET (0 .. gridSize[1] - 1) /\ columns \subseteq Int
      BY <1>2, <1>3
    <3>2. IsFiniteSet(columns)
      <4> HIDE DEF columns
      <4>1. gridSize[1] - 1 \in Int /\ 0 \in Int
        BY <1>3
      <4>2. IsFiniteSet(0 .. gridSize[1] - 1)
        BY <4>1, FS_Interval
      <4> QED
        BY <3>1, <4>2, FS_Subset
    <3> HIDE DEF columns
    <3> QED
      BY <3>1, <3>2, LeastInteger
  <2>3. PICK q \in free : q[2] = y /\ q[1] = x
    BY <2>2
  <2>4. ASSUME NEW r \in free PROVE Before(q, r)
    <3>1. r[2] \in rows /\ (r[2] = y => r[1] \in columns)
      BY <1>2
    <3>2. y <= r[2] /\ (r[2] = y => x <= r[1])
      BY <2>1, <2>2, <3>1
    <3>3. y \in Int /\ r[2] \in Int
      BY <1>2, <1>3
    <3> HIDE DEF rows, columns
    <3> QED
      BY <2>3, <3>2, <3>3 DEF Before
  <2> QED
    BY <1>1, <2>3, <2>4
<1>5. FirstEmptyLocation(g) \subseteq free
  BY <1>1
<1> QED
  BY <1>4, <1>5 DEF free

\* AddItemToGrid puts the address on a free cell, if there is one.
LEMMA OneAdded ==
    ASSUME gridSize \in Nat \X Nat, NEW g, GridOK(g), NEW a
    PROVE  Adds(g, IF a \in DOMAIN g.placed THEN g ELSE AddItemToGrid(g, a), {a})
<1>1. CASE a \in DOMAIN g.placed
  BY <1>1 DEF Adds
<1>2. CASE a \notin DOMAIN g.placed /\ FirstEmptyLocation(g) = {}
  BY <1>2, FirstIsFree DEF Adds, AddItemToGrid
<1>3. CASE a \notin DOMAIN g.placed /\ FirstEmptyLocation(g) # {}
  <2> DEFINE origin == CHOOSE p \in FirstEmptyLocation(g) : TRUE
             h == AddItemToGrid(g, a)
  <2>1. origin \in CellsOf(gridSize) /\ origin \notin g.marked
    BY <1>3, FirstIsFree
  <2>2. /\ h.marked = g.marked \cup {origin}
        /\ h.placed = [b \in DOMAIN g.placed \cup {a} |-> IF b = a THEN origin ELSE g.placed[b]]
    BY <1>3 DEF AddItemToGrid
  <2> HIDE DEF origin, h
  <2>3. /\ DOMAIN h.placed = DOMAIN g.placed \cup {a} /\ h.placed[a] = origin
        /\ \A b \in DOMAIN g.placed : h.placed[b] = g.placed[b]
    BY <1>3, <2>2
  <2>4. \A b \in DOMAIN g.placed : g.placed[b] # origin
    BY <2>1 DEF GridOK
  <2>5. GridOK(h)
    <3>1. \A b, c \in DOMAIN h.placed : h.placed[b] = h.placed[c] => b = c
      BY <2>3, <2>4 DEF GridOK
    <3>2. ASSUME NEW p PROVE p \in h.marked <=> \E b \in DOMAIN h.placed : p = h.placed[b]
      <4>1. p \in h.marked <=> p = origin \/ \E b \in DOMAIN g.placed : p = g.placed[b]
        BY <2>2 DEF GridOK
      <4>2. (\E b \in DOMAIN h.placed : p = h.placed[b])
              <=> p = h.placed[a] \/ \E b \in DOMAIN g.placed : p = h.placed[b]
        BY <2>3
      <4> QED
        BY <2>3, <4>1, <4>2
    <3>3. h.marked \subseteq CellsOf(gridSize)
      BY <2>1, <2>2 DEF GridOK
    <3> QED
      BY <3>1, <3>2, <3>3 DEF GridOK
  <2>6. Adds(g, h, {a})
    BY <2>3, <2>5 DEF Adds
  <2> QED
    BY <1>3, <2>6 DEF h
<1> QED
  BY <1>1, <1>2, <1>3

\* RemoveItem takes off an address that is no longer stored, with its mark.
LEMMA OneRemoved ==
    ASSUME NEW g, GridOK(g), NEW a, NEW there
    PROVE  Removes(g, IF a \in there THEN g ELSE RemoveItem(g, a), {a}, there)
<1>1. CASE a \in there \/ a \notin DOMAIN g.placed
  BY <1>1 DEF Removes, RemoveItem
<1>2. CASE a \notin there /\ a \in DOMAIN g.placed
  <2> DEFINE h == RemoveItem(g, a)
  <2>1. /\ h.marked = g.marked \ {g.placed[a]}
        /\ h.placed = [b \in DOMAIN g.placed \ {a} |-> g.placed[b]]
    BY <1>2 DEF RemoveItem
  <2> HIDE DEF h
  <2>2. DOMAIN h.placed = DOMAIN g.placed \ {a} /\ \A b \in DOMAIN h.placed : h.placed[b] = g.placed[b]
    BY <2>1
  <2>3. GridOK(h)
    <3>1. \A b, c \in DOMAIN h.placed : h.placed[b] = h.placed[c] => b = c
      BY <2>2 DEF GridOK
    <3>2. \A p : p \in h.marked <=> \E b \in DOMAIN h.placed : p = h.placed[b]
      BY <1>2, <2>1, <2>2 DEF GridOK
    <3>3. h.marked \subseteq CellsOf(gridSize)
      BY <2>1 DEF GridOK
    <3> QED
      BY <3>1, <3>2, <3>3 DEF GridOK
  <2>4. Removes(g, h, {a}, there)
    BY <1>2, <2>2, <2>3 DEF Removes
  <2> QED
    BY <1>2, <2>4 DEF h
<1> QED
  BY <1>1, <1>2

\* One address more.
LEMMA AddsMore ==
    ASSUME NEW g, NEW h, NEW i, NEW A, NEW B, Adds(g, h, A), Adds(h, i, B)
    PROVE  Adds(g, i, A \cup B)
<1>1. h.marked \subseteq i.marked
  BY DEF Adds, GridOK
<1> QED
  BY <1>1 DEF Adds

\* And one less.
LEMMA RemovesMore ==
    ASSUME NEW g, NEW h, NEW i, NEW A, NEW B, NEW there,
           Removes(g, h, A, there), Removes(h, i, B, there)
    PROVE  Removes(g, i, A \cup B, there)
BY DEF Removes

-----------------------------------------------------------------------------
(* The grid goes through the addresses of a batch.                          *)

\* The loop of HandledAll: the grid after each of its steps.
IsHandling(f, type, there, grid, A) ==
    f = [n \in 0 .. Cardinality(A) |->
           IF n = 0 THEN grid ELSE Handled(type, there, f[n - 1], InOrder(A)[n])]

\* The loop ends: there is such a function, and its last value is the grid's.
LEMMA HandlingEnds ==
    ASSUME NEW type, NEW there, NEW grid, NEW A, Cardinality(A) \in Nat
    PROVE  \E f : /\ IsHandling(f, type, there, grid, A)
                  /\ HandledAll(type, there, grid, A) = f[Cardinality(A)]
<1> DEFINE size == Cardinality(A)
           step(m, n) == Handled(type, there, m, InOrder(A)[n])
           Loops(f, k) == f = [n \in 0 .. k |-> IF n = 0 THEN grid ELSE step(f[n - 1], n)]
           stuck == {k \in 0 .. size : ~ \E f : Loops(f, k)}
<1>1. \A f : IsHandling(f, type, there, grid, A) <=> Loops(f, size)
  BY DEF IsHandling
<1>2. size \in Nat
  OBVIOUS
<1>3. \E f : Loops(f, size)
  <2>1. SUFFICES ASSUME stuck # {} PROVE FALSE
    <3>1. size \in 0 .. size
      BY <1>2
    <3> HIDE DEF Loops, size
    <3> QED
      BY <3>1
  <2>2. PICK k \in stuck : \A j \in stuck : k <= j
    <3>1. stuck \in SUBSET (0 .. size) /\ stuck \subseteq Int
      <4> HIDE DEF Loops
      <4> QED
        BY <1>2
    <3>2. IsFiniteSet(stuck)
      <4> HIDE DEF stuck, size
      <4>1. IsFiniteSet(0 .. size)
        BY <1>2, FS_Interval
      <4> QED
        BY <3>1, <4>1, FS_Subset
    <3> HIDE DEF stuck
    <3> QED
      BY <2>1, <3>1, <3>2, LeastInteger
  <2> HIDE DEF step
  <2>3. CASE k = 0
    <3> DEFINE f == [n \in 0 .. 0 |-> grid]
    <3>1. Loops(f, 0)
      OBVIOUS
    <3> HIDE DEF f, Loops
    <3> QED
      BY <2>2, <2>3, <3>1
  <2>4. CASE k # 0
    <3>1. k - 1 \in 0 .. size /\ ~(k <= k - 1) /\ k \in Nat /\ k - 1 \in Nat
      BY <1>2, <2>2, <2>4
    <3>2. PICK f : Loops(f, k - 1)
      <4> HIDE DEF Loops, size
      <4> QED
        BY <2>2, <3>1
    <3> DEFINE g == [n \in 0 .. k |-> IF n = k THEN step(f[k - 1], k) ELSE f[n]]
    <3>3. \A n \in 0 .. k : g[n] = IF n = 0 THEN grid ELSE step(g[n - 1], n)
      <4> TAKE n \in 0 .. k
      <4>1. CASE n = k
        BY <2>4, <3>1, <4>1
      <4>2. CASE n # k
        <5>1. n \in 0 .. (k - 1) /\ (n # 0 => n - 1 \in 0 .. (k - 1) /\ n - 1 # k)
          BY <3>1, <4>2
        <5>2. f[n] = IF n = 0 THEN grid ELSE step(f[n - 1], n)
          BY <3>2, <5>1
        <5>3. g[n] = f[n] /\ (n # 0 => g[n - 1] = f[n - 1])
          BY <3>1, <4>2, <5>1
        <5> QED
          BY <5>2, <5>3
      <4> QED
        BY <4>1, <4>2
    <3>4. Loops(g, k)
      <4>1. g = [n \in 0 .. k |-> g[n]]
        OBVIOUS
      <4> HIDE DEF g
      <4> QED
        BY <3>3, <4>1
    <3> HIDE DEF g, Loops
    <3> QED
      BY <2>2, <3>4
  <2> QED
    BY <2>3, <2>4
<1> DEFINE after[n \in 0 .. size] ==
             IF n = 0 THEN grid ELSE Handled(type, there, after[n - 1], InOrder(A)[n])
<1>4. after = CHOOSE f : IsHandling(f, type, there, grid, A)
  BY DEF IsHandling, after
<1>5. HandledAll(type, there, grid, A) = after[size]
  BY DEF HandledAll
<1> HIDE DEF after, Loops
<1>6. IsHandling(after, type, there, grid, A)
  BY <1>1, <1>3, <1>4
<1> QED
  BY <1>5, <1>6

\* The addresses that the first n steps handle.
Done(A, n) == {InOrder(A)[m] : m \in 1 .. n}

\* They are none at first, one more by each step, all in the end.
LEMMA DoneIs ==
    ASSUME NEW A, A \subseteq Int \X Int, IsFiniteSet(A)
    PROVE  /\ Cardinality(A) \in Nat
           /\ Done(A, 0) = {} /\ Done(A, Cardinality(A)) = A
           /\ \A n \in 1 .. Cardinality(A) :
                /\ Done(A, n) = Done(A, n - 1) \cup {InOrder(A)[n]}
                /\ InOrder(A)[n] \in A
<1> DEFINE N == Cardinality(A)
<1>1. /\ N \in Nat
      /\ \A n \in 1 .. N : InOrder(A)[n] \in A
      /\ \A a \in A : \E n \in 1 .. N : InOrder(A)[n] = a
  BY InOrderIs
<1>2. Done(A, 0) = {}
  BY DEF Done
<1>3. Done(A, N) = A
  BY <1>1 DEF Done
<1>4. ASSUME NEW n \in 1 .. N PROVE Done(A, n) = Done(A, n - 1) \cup {InOrder(A)[n]}
  <2>1. 1 .. n = (1 .. n - 1) \cup {n}
    <3> HIDE DEF N
    <3> QED
      BY <1>1
  <2> QED
    BY <2>1 DEF Done
<1> QED
  BY <1>1, <1>2, <1>3, <1>4

\* One step handles one address.
LEMMA HandlingSteps ==
    ASSUME NEW f, NEW type, NEW there, NEW grid, NEW A, Cardinality(A) \in Nat,
           IsHandling(f, type, there, grid, A)
    PROVE  /\ f[0] = grid
           /\ \A n \in 1 .. Cardinality(A) :
                 f[n] = Handled(type, there, f[n - 1], InOrder(A)[n])
<1> DEFINE N == Cardinality(A)
<1>1. \A n \in 0 .. N : f[n] = IF n = 0 THEN grid ELSE Handled(type, there, f[n - 1], InOrder(A)[n])
  BY DEF IsHandling
<1>2. N \in Nat /\ 0 \in 0 .. N /\ \A n \in 1 .. N : n \in 0 .. N /\ n # 0
  OBVIOUS
<1> HIDE DEF N
<1> QED
  BY <1>1, <1>2 DEF N

\* A batch of additions, or of a split, whose addresses are stored adds each of
\* them for which there is a cell.
LEMMA AllAdded ==
    ASSUME gridSize \in Nat \X Nat, NEW type \in {"Addition", "Split"}, NEW there,
           NEW A, A \subseteq Int \X Int, IsFiniteSet(A), A \subseteq there,
           NEW g, GridOK(g)
    PROVE  Adds(g, HandledAll(type, there, g, A), A)
<1> DEFINE N == Cardinality(A)
<1>1. /\ N \in Nat /\ Done(A, 0) = {} /\ Done(A, N) = A
      /\ \A n \in 1 .. N : /\ Done(A, n) = Done(A, n - 1) \cup {InOrder(A)[n]}
                           /\ InOrder(A)[n] \in A
  BY DoneIs
<1>2. PICK f : IsHandling(f, type, there, g, A) /\ HandledAll(type, there, g, A) = f[N]
  BY <1>1, HandlingEnds
<1>3. f[0] = g /\ \A n \in 1 .. N : f[n] = Handled(type, there, f[n - 1], InOrder(A)[n])
  BY <1>1, <1>2, HandlingSteps
<1> HIDE DEF N
<1> DEFINE Kept == {n \in 0 .. N : Adds(g, f[n], Done(A, n))}
<1>4. 0 \in Kept
  <2>1. Adds(g, g, {})
    BY DEF Adds
  <2> QED
    BY <1>1, <1>3, <2>1
<1>5. ASSUME NEW n \in 1 .. N, n - 1 \in Kept PROVE n \in Kept
  <2> DEFINE a == InOrder(A)[n]
             h == f[n - 1]
  <2>1. Adds(g, h, Done(A, n - 1)) /\ a \in there /\ n \in 0 .. N
    BY <1>1, <1>5
  <2>2. GridOK(h)
    BY <2>1 DEF Adds
  <2>3. f[n] = Handled(type, there, h, a)
    BY <1>3
  <2> HIDE DEF a, h
  <2>4. f[n] = IF a \in DOMAIN h.placed THEN h ELSE AddItemToGrid(h, a)
    BY <2>1, <2>3 DEF Handled
  <2>5. Adds(h, f[n], {a})
    BY <2>2, <2>4, OneAdded
  <2>6. Adds(g, f[n], Done(A, n - 1) \cup {a})
    BY <2>1, <2>5, AddsMore
  <2> QED
    BY <1>1, <2>1, <2>6 DEF a
<1>6. N \in Kept
  <2> HIDE DEF Kept
  <2> QED
    BY <1>1, <1>4, <1>5, LoopInduction
<1> QED
  BY <1>1, <1>2, <1>6

\* Any other batch takes off those that are no longer stored.
LEMMA AllRemoved ==
    ASSUME NEW type, type \notin {"Addition", "Split"}, NEW there,
           NEW A, A \subseteq Int \X Int, IsFiniteSet(A), NEW g, GridOK(g)
    PROVE  Removes(g, HandledAll(type, there, g, A), A, there)
<1> DEFINE N == Cardinality(A)
<1>1. /\ N \in Nat /\ Done(A, 0) = {} /\ Done(A, N) = A
      /\ \A n \in 1 .. N : /\ Done(A, n) = Done(A, n - 1) \cup {InOrder(A)[n]}
                           /\ InOrder(A)[n] \in A
  BY DoneIs
<1>2. PICK f : IsHandling(f, type, there, g, A) /\ HandledAll(type, there, g, A) = f[N]
  BY <1>1, HandlingEnds
<1>3. f[0] = g /\ \A n \in 1 .. N : f[n] = Handled(type, there, f[n - 1], InOrder(A)[n])
  BY <1>1, <1>2, HandlingSteps
<1> HIDE DEF N
<1> DEFINE Kept == {n \in 0 .. N : Removes(g, f[n], Done(A, n), there)}
<1>4. 0 \in Kept
  <2>1. Removes(g, g, {}, there)
    BY DEF Removes
  <2> QED
    BY <1>1, <1>3, <2>1
<1>5. ASSUME NEW n \in 1 .. N, n - 1 \in Kept PROVE n \in Kept
  <2> DEFINE a == InOrder(A)[n]
             h == f[n - 1]
  <2>1. Removes(g, h, Done(A, n - 1), there) /\ n \in 0 .. N
    BY <1>1, <1>5
  <2>2. GridOK(h)
    BY <2>1 DEF Removes
  <2>3. f[n] = Handled(type, there, h, a)
    BY <1>3
  <2> HIDE DEF a, h
  <2>4. f[n] = IF a \in there THEN h ELSE RemoveItem(h, a)
    BY <2>3 DEF Handled
  <2>5. Removes(h, f[n], {a}, there)
    <3>1. Removes(h, IF a \in there THEN h ELSE RemoveItem(h, a), {a}, there)
      BY <2>2, OneRemoved
    <3> QED
      BY ONLY <2>4, <3>1
  <2>6. Removes(g, f[n], Done(A, n - 1) \cup {a}, there)
    BY <2>1, <2>5, RemovesMore
  <2> QED
    BY <1>1, <2>1, <2>6 DEF a
<1>6. N \in Kept
  <2> HIDE DEF Kept
  <2> QED
    BY <1>1, <1>4, <1>5, LoopInduction
<1> QED
  BY <1>1, <1>2, <1>6

-----------------------------------------------------------------------------
(* What the batches of a call say of what is stored.                        *)

\* Entries that stay keep their item; the copies at each address of A fall.
KeepsItems(st, tt) ==
    \A k \in DOMAIN st.entries \cap DOMAIN tt.entries : tt.entries[k].item = st.entries[k].item

Falls(st, tt, A) == \A a \in A : CopiesAt(tt, a) < CopiesAt(st, a)

\* The addresses of A come to a storage, or all that goes from it is in A.
Comes(st, tt, A) ==
    /\ DiffersWithin(st, tt, A)
    /\ A \subseteq StoredAddresses(tt)
    /\ StoredAddresses(st) \subseteq StoredAddresses(tt)
    /\ KeepsItems(st, tt)

Goes(st, tt, A) ==
    /\ DiffersWithin(st, tt, A)
    /\ A \subseteq StoredAddresses(st)
    /\ StoredAddresses(tt) \subseteq StoredAddresses(st)
    /\ KeepsItems(st, tt)
    /\ Filling(st) => Falls(st, tt, A)

\* A step that keeps the names of a storage keeps the items of its entries.
LEMMA StepKeepsItems ==
    ASSUME NEW st, NEW tt, SoundStep(st, tt)
    PROVE  KeepsItems(st, tt)
BY DEF SoundStep, KeepsNames, Continues, KeepsItems

\* What only names stacks that are there afterwards only adds.
LEMMA OnlyComes ==
    ASSUME NEW st, NEW tt, NEW A, DiffersWithin(st, tt, A), A \subseteq StoredAddresses(tt),
           KeepsItems(st, tt)
    PROVE  Comes(st, tt, A)
<1>1. ASSUME NEW a \in StoredAddresses(st) PROVE a \in StoredAddresses(tt)
  <2>1. a = <<a[1], a[2]>> /\ a[2] \in StacksOf(st, a[1])
    BY <1>1, StoredIs
  <2>2. CASE a \in A
    BY <2>2
  <2>3. CASE a \notin A
    <3>1. a[2] \in StacksOf(tt, a[1])
      BY <2>1, <2>3 DEF DiffersWithin
    <3> QED
      BY <2>1, <3>1, StoredIs
  <2> QED
    BY <2>2, <2>3
<1> QED
  BY <1>1 DEF Comes

\* What only names stacks that were there before only removes.
LEMMA OnlyGoes ==
    ASSUME NEW st, NEW tt, NEW A, DiffersWithin(st, tt, A), A \subseteq StoredAddresses(st),
           KeepsItems(st, tt), Filling(st) => Falls(st, tt, A)
    PROVE  Goes(st, tt, A)
<1>1. ASSUME NEW a \in StoredAddresses(tt) PROVE a \in StoredAddresses(st)
  <2>1. a = <<a[1], a[2]>> /\ a[2] \in StacksOf(tt, a[1])
    BY <1>1, StoredIs
  <2>2. CASE a \in A
    BY <2>2
  <2>3. CASE a \notin A
    <3>1. a[2] \in StacksOf(st, a[1])
      BY <2>1, <2>3 DEF DiffersWithin
    <3> QED
      BY <2>1, <3>1, StoredIs
  <2> QED
    BY <2>2, <2>3
<1> QED
  BY <1>1 DEF Goes

\* An addition names stacks that its entry has afterwards.
LEMMA AddedComes ==
    ASSUME NEW st, Sound(st), NEW i \in Items, NEW n \in Nat \ {0}, NEW f \in BOOLEAN
    PROVE  Comes(st, Added(st, i, n, f), AdditionEvent(st, i, n, f).addresses)
<1> DEFINE k == KeyOfAddition(st, i)
           tt == Added(st, i, n, f)
           old == IF Joins(st, i) THEN DOMAIN st.entries[k].stacks ELSE {}
           A == AdditionEvent(st, i, n, f).addresses
<1>1. DiffersWithin(st, tt, A)
  BY AddedDiffers
<1>2. k \in DOMAIN tt.entries
  <2>1. tt.entries = [j \in DOMAIN st.entries \cup {k} |->
                        IF j = k THEN EntryOfAddition(st, i, n, f) ELSE st.entries[j]]
    BY AddedEntries
  <2> HIDE DEF k, tt
  <2> QED
    BY <2>1
<1>3. AdditionEvent(st, i, n, f) = Event(k, n, DOMAIN tt.entries[k].stacks \ old)
  BY DEF AdditionEvent, KeyOfAddition
<1>4. KeepsItems(st, tt)
  BY AddedSound, StepKeepsItems
<1> HIDE DEF k, tt, old
<1>5. A = {<<k, j>> : j \in DOMAIN tt.entries[k].stacks \ old}
  BY <1>3 DEF Event
<1> HIDE DEF A
<1>6. A \subseteq StoredAddresses(tt)
  BY <1>2, <1>5, StoredIs DEF StacksOf
<1>7. Comes(st, tt, A)
  BY <1>1, <1>4, <1>6, OnlyComes
<1> QED
  BY <1>7 DEF tt, A

\* A split names the stack it takes from and the one it makes.
LEMMA SplitComes ==
    ASSUME NEW st, Sound(st), NEW k \in DOMAIN st.entries, NEW j \in DOMAIN st.entries[k].stacks, NEW n
    PROVE  Comes(st, SplitOff(st, k, j, n), {<<k, j>>, <<k, NextStackKey(st.entries[k])>>})
<1> DEFINE e == SplitStack(st.entries[k], j, n)
           p == PostContentChanged(st.proxies, k, e)
           new == NextStackKey(st.entries[k])
           tt == SplitOff(st, k, j, n)
<1>1. DOMAIN e.stacks = DOMAIN st.entries[k].stacks \cup {new}
  BY DEF SplitStack, NextStackKey
<1>2. DiffersWithin(st, tt, {<<k, new>>}) /\ e.item = st.entries[k].item
  BY SplitOffDiffers DEF SplitStack
<1> HIDE DEF e
<1>3. SetEntry(st, k, e).proxies = st.proxies
  BY DEF SetEntry, Sound, IsStorage
<1>4. tt = [SetEntry(st, k, e) EXCEPT !.proxies = p]
  BY <1>3 DEF SplitOff, e
<1> HIDE DEF p, new, tt
<1>5. tt.entries = [l \in DOMAIN st.entries \cup {k} |-> IF l = k THEN e ELSE st.entries[l]]
  BY <1>4, SetEntryEntries
<1>6. k \in DOMAIN tt.entries /\ tt.entries[k] = e
  BY <1>5
<1> DEFINE A == {<<k, j>>, <<k, new>>}
<1>7. A \subseteq StoredAddresses(tt)
  BY <1>1, <1>6, StoredIs DEF StacksOf
<1>8. DiffersWithin(st, tt, A)
  BY <1>2 DEF DiffersWithin
<1>9. KeepsItems(st, tt)
  BY <1>2, <1>5 DEF KeepsItems
<1> HIDE DEF A
<1>10. Comes(st, tt, A)
  BY <1>7, <1>8, <1>9, OnlyComes
<1> QED
  BY <1>10 DEF A, tt, new

\* The stacks of a removed entry lose all their copies.
LEMMA EntryFalls ==
    ASSUME NEW st, NEW tt, Filling(st), NEW k \in DOMAIN st.entries, k \notin DOMAIN tt.entries
    PROVE  Falls(st, tt, {<<k, j>> : j \in DOMAIN st.entries[k].stacks})
<1> SUFFICES ASSUME NEW j \in DOMAIN st.entries[k].stacks
             PROVE  CopiesAt(tt, <<k, j>>) < CopiesAt(st, <<k, j>>)
  BY DEF Falls
<1>1. CopiesAt(tt, <<k, j>>) = 0 /\ CopiesAt(st, <<k, j>>) = st.entries[k].stacks[j]
  BY DEF CopiesAt, Contains
<1>2. st.entries[k].stacks[j] > 0
  BY DEF Filling, Full
<1> QED
  BY <1>1, <1>2

\* What is removed from an entry, the stacks that are named lose.
LEMMA EntryRemovalFalls ==
    ASSUME NEW st, Sound(st), Filling(st), NEW k \in DOMAIN st.entries, NEW n \in Int, IsAmount(n)
    PROVE  Falls(st, RemovedFromEntry(st, k, n), EntryRemovalEvent(st, k, n).addresses)
<1>1. CASE RemovesEntry(st, k, n)
  <2>1. RemovedFromEntry(st, k, n) = WithoutEntry(st, k) /\ k \notin DOMAIN WithoutEntry(st, k).entries
    BY <1>1 DEF RemovedFromEntry, WithoutEntry
  <2>2. EntryRemovalEvent(st, k, n).addresses = {<<k, j>> : j \in DOMAIN st.entries[k].stacks}
    BY <1>1 DEF EntryRemovalEvent, Event
  <2> QED
    BY <2>1, <2>2, EntryFalls
<1>2. CASE ~RemovesEntry(st, k, n)
  <2> DEFINE e == RemoveFromAnyStack(st.entries[k], n)
             tt == RemovedFromEntry(st, k, n)
             p == IF PartlyRemoved(st.entries[k], n) = {}
                  THEN st.proxies ELSE PostContentChanged(st.proxies, k, e)
  <2>1. n \in Nat \ {0}
    BY <1>2 DEF RemovesEntry, IsAmount
  <2>2. IsEntry(st.entries[k]) /\ Full(st.entries[k])
    BY DEF Sound, IsStorage, Filling
  <2>3. ASSUME NEW j \in ReachedFromTail(st.entries[k], n)
        PROVE  /\ j \in DOMAIN st.entries[k].stacks /\ st.entries[k].stacks[j] \in Nat \ {0}
               /\ j \in DOMAIN e.stacks => e.stacks[j] < st.entries[k].stacks[j]
    BY <2>1, <2>2, ReachedFalls
  <2> HIDE DEF e
  <2>4. SetEntry(st, k, e).proxies = st.proxies
    BY DEF SetEntry, Sound, IsStorage
  <2>5. tt = [SetEntry(st, k, e) EXCEPT !.proxies = p]
    BY <1>2, <2>4 DEF RemovedFromEntry, e
  <2> HIDE DEF p, tt
  <2>6. tt.entries = [j \in DOMAIN st.entries \cup {k} |-> IF j = k THEN e ELSE st.entries[j]]
    BY <2>5, SetEntryEntries
  <2>7. EntryRemovalEvent(st, k, n).addresses = {<<k, j>> : j \in ReachedFromTail(st.entries[k], n)}
    BY <1>2 DEF EntryRemovalEvent, Event
  <2>8. ASSUME NEW j \in ReachedFromTail(st.entries[k], n)
        PROVE  CopiesAt(tt, <<k, j>>) < CopiesAt(st, <<k, j>>)
    <3>1. CopiesAt(st, <<k, j>>) = st.entries[k].stacks[j]
      BY <2>3 DEF CopiesAt, Contains
    <3>2. CopiesAt(tt, <<k, j>>) = IF j \in DOMAIN e.stacks THEN e.stacks[j] ELSE 0
      BY <2>6 DEF CopiesAt, Contains
    <3> QED
      BY <2>3, <3>1, <3>2
  <2>9. Falls(st, tt, EntryRemovalEvent(st, k, n).addresses)
    BY <2>7, <2>8 DEF Falls
  <2> QED
    BY <2>9 DEF tt
<1> QED
  BY <1>1, <1>2

\* What is removed from a stack, the stack loses.
LEMMA StackRemovalFalls ==
    ASSUME NEW st, Sound(st), Filling(st), NEW k \in DOMAIN st.entries,
           NEW j \in DOMAIN st.entries[k].stacks, NEW n \in Int, IsAmount(n)
    PROVE  Falls(st, RemovedFromStack(st, k, j, n), {<<k, j>>})
<1> DEFINE e == st.entries[k]
           m == StackRemovalAmount(st, k, j, n)
           tt == RemovedFromStack(st, k, j, n)
<1>1. IsEntry(e) /\ e.stacks[j] \in Nat \ {0}
  BY DEF Sound, IsStorage, IsEntry, Filling, Full
<1>2. m \in Nat \ {0} /\ m <= e.stacks[j]
  BY <1>1 DEF StackRemovalAmount, IsAmount, Lesser
<1>3. CopiesAt(st, <<k, j>>) = e.stacks[j]
  BY DEF CopiesAt, Contains
<1> HIDE DEF m
<1>4. CASE RemovesOnlyStack(st, k, j, n)
  <2>1. k \notin DOMAIN tt.entries
    BY <1>4 DEF RemovedFromStack, WithoutEntry
  <2>2. CopiesAt(tt, <<k, j>>) = 0
    BY <2>1 DEF CopiesAt, Contains
  <2> QED
    BY <1>1, <1>3, <2>2 DEF Falls
<1>5. CASE ~RemovesOnlyStack(st, k, j, n)
  <2> DEFINE x == IF m = e.stacks[j] THEN RemoveStack(e, j) ELSE SetStack(e, j, e.stacks[j] - m)
  <2>1. tt = SetEntry(st, k, x)
    BY <1>5 DEF RemovedFromStack, m
  <2>2. j \in DOMAIN x.stacks => x.stacks[j] < e.stacks[j]
    BY <1>1, <1>2 DEF RemoveStack, SetStack, IsEntry
  <2> HIDE DEF x, tt
  <2>3. tt.entries = [l \in DOMAIN st.entries \cup {k} |-> IF l = k THEN x ELSE st.entries[l]]
    BY <2>1 DEF SetEntry, Sound, IsStorage
  <2>4. CopiesAt(tt, <<k, j>>) = IF j \in DOMAIN x.stacks THEN x.stacks[j] ELSE 0
    BY <2>3 DEF CopiesAt, Contains
  <2>5. CopiesAt(tt, <<k, j>>) < CopiesAt(st, <<k, j>>)
    BY <1>1, <1>3, <2>2, <2>4
  <2>6. Falls(st, tt, {<<k, j>>})
    BY <2>5 DEF Falls
  <2> QED
    BY <2>6 DEF tt
<1> QED
  BY <1>4, <1>5

\* A removal names stacks that its entry had.
LEMMA EntryGoes ==
    ASSUME NEW st, Sound(st), NEW k \in DOMAIN st.entries, NEW n \in Int, IsAmount(n)
    PROVE  /\ Goes(st, RemovedFromEntry(st, k, n), EntryRemovalEvent(st, k, n).addresses)
           /\ Goes(st, WithoutEntry(st, k), EntryRemovalEvent(st, k, EntireStack).addresses)
<1> DEFINE all == {<<k, j>> : j \in DOMAIN st.entries[k].stacks}
           A == EntryRemovalEvent(st, k, n).addresses
<1>1. all \subseteq StoredAddresses(st)
  BY StoredIs DEF StacksOf
<1>2. A \subseteq all
  <2>1. ReachedFromTail(st.entries[k], n) \subseteq DOMAIN st.entries[k].stacks
    BY DEF ReachedFromTail
  <2> QED
    BY <2>1 DEF EntryRemovalEvent, Event
<1>3. DiffersWithin(st, RemovedFromEntry(st, k, n), A)
  BY RemovedFromEntryDiffers
<1>4. EntryRemovalEvent(st, k, EntireStack).addresses = all
  BY DEF EntryRemovalEvent, RemovesEntry, Event
<1>5. DiffersWithin(st, WithoutEntry(st, k), all)
  BY WithoutEntryDiffers
<1>6. /\ KeepsItems(st, RemovedFromEntry(st, k, n))
      /\ Filling(st) => Falls(st, RemovedFromEntry(st, k, n), A)
      /\ KeepsItems(st, WithoutEntry(st, k))
      /\ Filling(st) => Falls(st, WithoutEntry(st, k), all)
  <2>1. KeepsItems(st, RemovedFromEntry(st, k, n)) /\ KeepsItems(st, WithoutEntry(st, k))
    BY RemovedFromEntrySound, WithoutEntrySound, StepKeepsItems
  <2>2. Filling(st) => Falls(st, RemovedFromEntry(st, k, n), A)
    BY EntryRemovalFalls
  <2>3. k \notin DOMAIN WithoutEntry(st, k).entries
    BY DEF WithoutEntry
  <2>4. Filling(st) => Falls(st, WithoutEntry(st, k), all)
    BY <2>3, EntryFalls
  <2> HIDE DEF A, all
  <2> QED
    BY <2>1, <2>2, <2>4
<1> HIDE DEF A, all
<1>7. A \subseteq StoredAddresses(st)
  BY <1>1, <1>2
<1>8. Goes(st, RemovedFromEntry(st, k, n), A)
  BY <1>3, <1>6, <1>7, OnlyGoes
<1>9. Goes(st, WithoutEntry(st, k), all)
  BY <1>1, <1>5, <1>6, OnlyGoes
<1> QED
  BY <1>4, <1>8, <1>9 DEF A

\* A removal from a stack names the stack.
LEMMA StackGoes ==
    ASSUME NEW st, Sound(st), NEW k \in DOMAIN st.entries,
           NEW j \in DOMAIN st.entries[k].stacks, NEW n \in Int, IsAmount(n)
    PROVE  Goes(st, RemovedFromStack(st, k, j, n), StackRemovalEvent(st, k, j, n).addresses)
<1>1. StackRemovalEvent(st, k, j, n).addresses = {<<k, j>>}
  BY DEF StackRemovalEvent, Event
<1>2. {<<k, j>>} \subseteq StoredAddresses(st)
  BY StoredIs DEF StacksOf
<1>3. DiffersWithin(st, RemovedFromStack(st, k, j, n), {<<k, j>>})
  BY RemovedFromStackDiffers
<1>4. /\ KeepsItems(st, RemovedFromStack(st, k, j, n))
      /\ Filling(st) => Falls(st, RemovedFromStack(st, k, j, n), {<<k, j>>})
  BY RemovedFromStackSound, StepKeepsItems, StackRemovalFalls
<1>5. Goes(st, RemovedFromStack(st, k, j, n), {<<k, j>>})
  BY <1>2, <1>3, <1>4, OnlyGoes
<1> QED
  BY <1>1, <1>5

\* Clear names all the stacks of the entries it removes.
LEMMA ClearGoes ==
    ASSUME NEW st, NEW kept
    PROVE  LET data == {EntryRemovalEvent(st, k, EntireStack) : k \in DOMAIN st.entries \ kept}
           IN  Goes(st, Cleared(st, kept), UNION {d.addresses : d \in data})
<1> DEFINE lost == DOMAIN st.entries \ kept
           data == {EntryRemovalEvent(st, k, EntireStack) : k \in lost}
           A == UNION {d.addresses : d \in data}
<1>1. \A k \in lost : EntryRemovalEvent(st, k, EntireStack).addresses
                        = {<<k, j>> : j \in DOMAIN st.entries[k].stacks}
  BY DEF EntryRemovalEvent, RemovesEntry, Event
<1>2. A \subseteq StoredAddresses(st)
  <2> SUFFICES ASSUME NEW k \in lost, NEW a \in EntryRemovalEvent(st, k, EntireStack).addresses
               PROVE  a \in StoredAddresses(st)
    OBVIOUS
  <2>1. PICK j \in DOMAIN st.entries[k].stacks : a = <<k, j>>
    BY <1>1
  <2> QED
    BY <2>1, StoredIs DEF StacksOf
<1>3. \A k \in DOMAIN st.entries \ kept : \A j \in DOMAIN st.entries[k].stacks : <<k, j>> \in A
  <2> SUFFICES ASSUME NEW k \in lost, NEW j \in DOMAIN st.entries[k].stacks PROVE <<k, j>> \in A
    OBVIOUS
  <2>1. EntryRemovalEvent(st, k, EntireStack) \in data
    OBVIOUS
  <2>2. <<k, j>> \in EntryRemovalEvent(st, k, EntireStack).addresses
    BY <1>1
  <2> HIDE DEF data
  <2> QED
    BY <2>1, <2>2
<1>4. Cleared(st, kept).entries = [k \in DOMAIN st.entries \ lost |-> st.entries[k]]
  <2> DEFINE left == WithoutEntries(st, lost)
  <2>1. left = [entries |-> left.entries, keyGen |-> left.keyGen, proxies |-> left.proxies]
    BY DEF WithoutEntries
  <2>2. left.entries = [k \in DOMAIN st.entries \ lost |-> st.entries[k]]
    BY DEF WithoutEntries
  <2> HIDE DEF left
  <2>3. [left EXCEPT !.keyGen = KeyGenReset].entries = left.entries
    BY <2>1
  <2> QED
    BY <2>2, <2>3 DEF Cleared, left
<1>5. KeepsItems(st, Cleared(st, kept))
  BY <1>4 DEF KeepsItems
<1>6. ASSUME Filling(st) PROVE Falls(st, Cleared(st, kept), A)
  <2> SUFFICES ASSUME NEW k \in lost, NEW a \in EntryRemovalEvent(st, k, EntireStack).addresses
               PROVE  CopiesAt(Cleared(st, kept), a) < CopiesAt(st, a)
    BY DEF Falls
  <2>1. k \notin DOMAIN Cleared(st, kept).entries /\ k \in DOMAIN st.entries
    BY <1>4
  <2>2. Falls(st, Cleared(st, kept), {<<k, j>> : j \in DOMAIN st.entries[k].stacks})
    BY <1>6, <2>1, EntryFalls
  <2> HIDE DEF data, A
  <2> QED
    BY <1>1, <2>2 DEF Falls
<1> HIDE DEF A
<1>7. DiffersWithin(st, Cleared(st, kept), A)
  BY <1>3, ClearedDiffers
<1>8. Goes(st, Cleared(st, kept), A)
  BY <1>2, <1>5, <1>6, <1>7, OnlyGoes
<1> QED
  BY <1>8 DEF A

\* A batch tells what came or went by its type and by the addresses it names.
Tells(st, tt, batch) ==
    IF batch.type \in {"Addition", "Split"} THEN Comes(st, tt, TouchedBy(batch))
    ELSE Goes(st, tt, TouchedBy(batch))

\* A storage whose entries change has a batch, and each of its batches tells.
Hears(s) ==
    \/ store'[s].entries = store[s].entries
    \/ /\ \E n \in DOMAIN log' : log'[n].storage = s
       /\ \A n \in DOMAIN log' : log'[n].storage = s => Tells(store[s], store'[s], log'[n])

AllHear == \A s \in Storages : Hears(s)

\* A batch of one event touches what that event names.
LEMMA OneEventTouches ==
    ASSUME NEW s, NEW type, NEW d
    PROVE  TouchedBy(Batch(s, type, {d})) = d.addresses
BY DEF TouchedBy, Batch

\* A call that changes one storage and broadcasts one batch.
LEMMA OneStorageHears ==
    ASSUME StoreInv, NEW s \in Storages, NEW tt, store' = [store EXCEPT ![s] = tt],
           NEW type, NEW data, log' = <<Batch(s, type, data)>>,
           Tells(store[s], tt, Batch(s, type, data))
    PROVE  AllHear
<1>1. store'[s] = tt /\ \A x \in Storages : x # s => store'[x] = store[x]
  BY DEF StoreInv
<1>2. DOMAIN log' = {1} /\ log'[1] = Batch(s, type, data) /\ Batch(s, type, data).storage = s
  BY DEF Batch
<1>3. Hears(s)
  BY <1>1, <1>2 DEF Hears
<1> QED
  BY <1>1, <1>3 DEF AllHear, Hears

\* A call that leaves the entries of every storage alone.
LEMMA SameEntriesHear ==
    ASSUME \A s \in Storages : store'[s].entries = store[s].entries
    PROVE  AllHear
BY DEF AllHear, Hears

\* A call that changes proxies only.
LEMMA ProxiesHear ==
    ASSUME StoreInv, NEW s \in Storages, NEW p, store' = [store EXCEPT ![s].proxies = p]
    PROVE  AllHear
BY ProxiesOnly, SameEntriesHear

\* Each call on one storage.
LEMMA AddItemStackHeard ==
    ASSUME StoreInv, NEW s \in Storages, NEW i \in Items, NEW n \in Int,
           NEW f \in BOOLEAN, NEW v, AddItemStack(s, i, n, f, v)
    PROVE  AllHear
<1> DEFINE tt == Added(store[s], i, n, f)
           d == AdditionEvent(store[s], i, n, f)
<1>1. n \in Nat \ {0}
  BY DEF AddItemStack, CanAddStack
<1>2. Comes(store[s], tt, d.addresses)
  BY <1>1, AddedComes, StorageFacts
<1>3. store' = [store EXCEPT ![s] = tt] /\ log' = <<Batch(s, "Addition", {d})>>
  BY DEF AddItemStack
<1> HIDE DEF tt, d
<1>4. Batch(s, "Addition", {d}).type = "Addition"
  BY DEF Batch
<1>5. Tells(store[s], tt, Batch(s, "Addition", {d}))
  BY <1>2, <1>4, OneEventTouches DEF Tells
<1> QED
  BY <1>3, <1>5, OneStorageHears

\* A removal, whatever its tag.
LEMMA RemovalHeard ==
    ASSUME StoreInv, NEW s \in Storages, NEW tt, NEW d, NEW tag \in RemovalTags,
           store' = [store EXCEPT ![s] = tt], log' = <<Batch(s, tag, {d})>>,
           Goes(store[s], tt, d.addresses)
    PROVE  AllHear
<1>1. Batch(s, tag, {d}).type = tag /\ tag \notin {"Addition", "Split"}
  BY InputsAssumption DEF Batch
<1>2. Tells(store[s], tt, Batch(s, tag, {d}))
  BY <1>1, OneEventTouches DEF Tells
<1> QED
  BY <1>2, OneStorageHears

\* Clear tells of all entries in one batch.
LEMMA ClearHeard ==
    ASSUME StoreInv, NEW s \in Storages, NEW kept, NEW tag \in RemovalTags, Clear(s, kept, tag)
    PROVE  AllHear
<1> DEFINE st == store[s]
           tt == Cleared(st, kept)
           data == {EntryRemovalEvent(st, k, EntireStack) : k \in DOMAIN st.entries \ kept}
<1>1. store' = [store EXCEPT ![s] = tt] /\ log' = <<Batch(s, tag, data)>>
  BY DEF Clear
<1>2. Goes(st, tt, UNION {d.addresses : d \in data})
  BY ClearGoes
<1> HIDE DEF tt, data
<1>3. /\ Batch(s, tag, data).type = tag /\ tag \notin {"Addition", "Split"}
      /\ TouchedBy(Batch(s, tag, data)) = UNION {d.addresses : d \in data}
  BY InputsAssumption DEF Batch, TouchedBy
<1>4. Tells(st, tt, Batch(s, tag, data))
  BY <1>2, <1>3 DEF Tells
<1> QED
  BY <1>1, <1>4, OneStorageHears

\* A split.
LEMMA SplitHeard ==
    ASSUME StoreInv, NEW s \in Storages, NEW k \in DOMAIN store[s].entries,
           NEW j \in DOMAIN store[s].entries[k].stacks, NEW n, NEW v, Split(s, k, j, n, v)
    PROVE  AllHear
<1> DEFINE tt == SplitOff(store[s], k, j, n)
           new == NextStackKey(store[s].entries[k])
           d == Event(k, n, {j, new})
<1>1. Comes(store[s], tt, {<<k, j>>, <<k, new>>})
  BY SplitComes, StorageFacts
<1>2. store' = [store EXCEPT ![s] = tt] /\ log' = <<Batch(s, "Split", {d})>>
  BY DEF Split
<1> HIDE DEF tt, new
<1>3. d.addresses = {<<k, j>>, <<k, new>>}
  BY DEF Event
<1> HIDE DEF d
<1>4. Batch(s, "Split", {d}).type = "Split"
  BY DEF Batch
<1>5. Tells(store[s], tt, Batch(s, "Split", {d}))
  BY <1>1, <1>3, <1>4, OneEventTouches DEF Tells
<1> QED
  BY <1>2, <1>5, OneStorageHears

\* A move tells each of the two storages its part.
LEMMA MovedHeard ==
    ASSUME StoreInv, NEW s \in Storages, NEW t \in Storages, s # t,
           NEW taken, NEW i \in Items, NEW n \in Nat \ {0}, NEW f \in BOOLEAN,
           NEW released, NEW d, Goes(store[s], taken, d.addresses),
           Moved(s, t, taken, i, n, f, released, d)
    PROVE  AllHear
<1> DEFINE added == Added(store[t], i, n, f)
           c == AdditionEvent(store[t], i, n, f)
           out == Batch(s, "RemovalMoving", {d})
           in == Batch(t, "Addition", {c})
<1>1. Comes(store[t], added, c.addresses)
  BY AddedComes, StorageFacts
<1>2. /\ store'[s] = taken /\ store'[t] = added
      /\ \A x \in Storages \ {s, t} : store'[x] = store[x]
      /\ log' = <<out, in>>
  BY DEF Moved, StoreInv
<1> HIDE DEF added, c
<1>3. Tells(store[s], taken, out) /\ out.storage = s
  BY OneEventTouches DEF Tells, Batch
<1>4. Tells(store[t], added, in) /\ in.storage = t
  BY <1>1, OneEventTouches DEF Tells, Batch
<1> HIDE DEF out, in
<1>5. DOMAIN log' = {1, 2} /\ log'[1] = out /\ log'[2] = in
  BY <1>2
<1>6. Hears(s) /\ Hears(t)
  BY <1>2, <1>3, <1>4, <1>5 DEF Hears
<1> QED
  BY <1>2, <1>6 DEF AllHear, Hears

\* A stack that is moved.
LEMMA MoveStackHeard ==
    ASSUME StoreInv, NEW s \in Storages, NEW t \in Storages,
           NEW k \in DOMAIN store[s].entries, NEW j \in DOMAIN store[s].entries[k].stacks,
           NEW n \in Int, IsAmount(n), NEW f \in BOOLEAN, NEW v, NEW w,
           MoveStack(s, t, k, j, n, f, v, w)
    PROVE  AllHear
<1> DEFINE taken == RemovedFromStack(store[s], k, j, n)
           m == StackRemovalAmount(store[s], k, j, n)
           i == store[s].entries[k].item
           released == RemovesOnlyStack(store[s], k, j, n)
           d == StackRemovalEvent(store[s], k, j, n)
<1>1. m \in Int /\ i \in Items
  BY RemovedFromStackSound, StorageFacts
<1>2. m \in Nat \ {0} /\ s # t
  BY <1>1 DEF MoveStack, CanAddStack
<1>3. Moved(s, t, taken, i, m, f, released, d)
  BY DEF MoveStack
<1>4. Goes(store[s], taken, d.addresses)
  BY StackGoes, StorageFacts
<1> HIDE DEF taken, m, i, released, d
<1> QED
  BY <1>1, <1>2, <1>3, <1>4, MovedHeard

\* An entry that is moved.
LEMMA MoveEntryHeard ==
    ASSUME StoreInv, NEW s \in Storages, NEW t \in Storages,
           NEW k \in DOMAIN store[s].entries, NEW f \in BOOLEAN, NEW v, NEW w,
           MoveEntry(s, t, k, f, v, w)
    PROVE  AllHear
<1> DEFINE taken == WithoutEntry(store[s], k)
           m == StackSum(store[s].entries[k])
           i == store[s].entries[k].item
           d == EntryRemovalEvent(store[s], k, EntireStack)
<1>1. m \in Int /\ i \in Items
  BY StorageFacts
<1>2. m \in Nat \ {0} /\ s # t
  BY <1>1 DEF MoveEntry, CanAddStack
<1>3. Moved(s, t, taken, i, m, f, TRUE, d)
  BY DEF MoveEntry
<1>4. Goes(store[s], taken, d.addresses)
  <2>1. EntireStack \in Int /\ IsAmount(EntireStack)
    BY DEF EntireStack, IsAmount
  <2> QED
    BY <2>1, EntryGoes, StorageFacts
<1> HIDE DEF taken, m, i, d
<1> QED
  BY <1>1, <1>2, <1>3, <1>4, MovedHeard

\* Whatever is called, the batches of a storage tell what came or went.
LEMMA NextHeard ==
    ASSUME StoreInv, Next
    PROVE  AllHear
<1> USE InputsAssumption
<1>1. \A n \in Amounts : IsAmount(n) /\ n \in Int
  BY DEF Amounts, IsAmount, EntireStack
<1>2. ASSUME NEW s \in Storages, StorageCall(s) PROVE AllHear
  <2>1. ASSUME NEW i \in Items, NEW n \in 1..loose[i], NEW f \in BOOLEAN, NEW v \in Verdicts,
               AddItemStack(s, i, n, f, v)
        PROVE  AllHear
    BY <2>1, AddItemStackHeard
  <2>2. ASSUME NEW tag \in RemovalTags, NEW kept \in SUBSET DOMAIN store[s].entries,
               Clear(s, kept, tag)
        PROVE  AllHear
    BY <2>2, ClearHeard
  <2>3. ASSUME NEW k \in DOMAIN store[s].entries, NEW v \in Verdicts,
               NEW n \in Amounts, NEW tag \in RemovalTags, RemoveFromEntry(s, k, n, tag, v)
        PROVE  AllHear
    <3> DEFINE tt == RemovedFromEntry(store[s], k, n)
               d == EntryRemovalEvent(store[s], k, n)
    <3>1. Goes(store[s], tt, d.addresses)
      BY <1>1, EntryGoes, StorageFacts
    <3>2. store' = [store EXCEPT ![s] = tt] /\ log' = <<Batch(s, tag, {d})>>
      BY <2>3 DEF RemoveFromEntry
    <3> HIDE DEF tt, d
    <3> QED
      BY <3>1, <3>2, RemovalHeard
  <2>4. ASSUME NEW k \in DOMAIN store[s].entries, NEW v \in Verdicts,
               NEW j \in DOMAIN store[s].entries[k].stacks,
               NEW n \in Amounts, NEW tag \in RemovalTags, RemoveFromStack(s, k, j, n, tag, v)
        PROVE  AllHear
    <3> DEFINE tt == RemovedFromStack(store[s], k, j, n)
               d == StackRemovalEvent(store[s], k, j, n)
    <3>1. Goes(store[s], tt, d.addresses)
      BY <1>1, StackGoes, StorageFacts
    <3>2. store' = [store EXCEPT ![s] = tt] /\ log' = <<Batch(s, tag, {d})>>
      BY <2>4 DEF RemoveFromStack
    <3> HIDE DEF tt, d
    <3> QED
      BY <3>1, <3>2, RemovalHeard
  <2>5. ASSUME NEW k \in DOMAIN store[s].entries, NEW v \in Verdicts,
               NEW j \in DOMAIN store[s].entries[k].stacks,
               NEW n \in SplitAmounts, Split(s, k, j, n, v)
        PROVE  AllHear
    BY <2>5, SplitHeard
  <2>6. ASSUME NEW k \in DOMAIN store[s].entries, NEW v \in Verdicts,
               NEW j \in DOMAIN store[s].entries[k].stacks,
               NEW from \in StackKeys, MergeStacks(s, k, from, j, v)
        PROVE  AllHear
    BY <2>6, SameEntriesHear DEF MergeStacks
  <2>7. ASSUME NEW a \in Watched, RequestProxy(s, a) \/ DropProxy(s, a)
        PROVE  AllHear
    <3>1. PICK p : store' = [store EXCEPT ![s].proxies = p]
      BY <2>7 DEF RequestProxy, DropProxy
    <3> QED
      BY <3>1, ProxiesHear
  <2> QED
    BY <1>2, <2>1, <2>2, <2>3, <2>4, <2>5, <2>6, <2>7 DEF StorageCall
<1>3. ASSUME NEW i \in Mutables, MutateItem(i) PROVE AllHear
  <2>1. owner[i] \in Storages /\ \E p : store' = [store EXCEPT ![owner[i]].proxies = p]
    BY <1>3 DEF MutateItem
  <2> QED
    BY <2>1, ProxiesHear
<1>4. ASSUME NEW s \in Storages, NEW t \in Storages, TransferCall(s, t) PROVE AllHear
  <2>1. ASSUME NEW k \in DOMAIN store[s].entries, NEW f \in BOOLEAN,
               NEW v \in Verdicts, NEW w \in Verdicts, MoveEntry(s, t, k, f, v, w)
        PROVE  AllHear
    BY <2>1, MoveEntryHeard
  <2>2. ASSUME NEW k \in DOMAIN store[s].entries, NEW f \in BOOLEAN,
               NEW v \in Verdicts, NEW w \in Verdicts,
               NEW j \in DOMAIN store[s].entries[k].stacks, NEW n \in Amounts,
               MoveStack(s, t, k, j, n, f, v, w)
        PROVE  AllHear
    BY <1>1, <2>2, MoveStackHeard
  <2> QED
    BY <1>4, <2>1, <2>2 DEF TransferCall
<1> QED
  BY <1>2, <1>3, <1>4 DEF Next

-----------------------------------------------------------------------------
(* The invariant of the grid.                                               *)

\* The grid's state as the record its operators work on.
TheGrid == [marked |-> marked, placed |-> placed]

\* Only what is stored is placed, and nothing while the extension is not initialised.
SimpleGridInv ==
    /\ gridSize \in Nat \X Nat
    /\ GridOK(TheGrid)
    /\ DOMAIN placed \subseteq StoredAddresses(store[Gridded])
    /\ ~gridded => DOMAIN placed = {}

\* No step makes the grid smaller.
GridGrows == CellsOf(gridSize) \subseteq CellsOf(gridSize')

\* What ComersGetCells says of a step.
Arrivals ==
    gridded' =>
        \A a \in StoredAddresses(store'[Gridded])
                    \ (IF gridded THEN StoredAddresses(store[Gridded]) ELSE {}) :
            a \in DOMAIN placed' \/ Unmarked' = {}

Staying ==
    gridded /\ gridded' =>
        \A a \in DOMAIN placed \cap StoredAddresses(store'[Gridded]) :
            a \in DOMAIN placed' /\ placed'[a] = placed[a]

\* The invariant has the cells of OneStackPerCell.
LEMMA InvariantHasCells == SimpleGridInv => OneStackPerCell
BY DEF SimpleGridInv, GridOK, TheGrid, OneStackPerCell

\* An addition to the grid of what comes to its storage.
LEMMA GridAfterAddition ==
    ASSUME SimpleGridInv, UNCHANGED <<gridded, gridSize>>, gridded,
           NEW A, Comes(store[Gridded], store'[Gridded], A),
           Adds(TheGrid, [marked |-> marked', placed |-> placed'], A)
    PROVE  SimpleGridInv' /\ Arrivals /\ Staying
<1> DEFINE there == StoredAddresses(store'[Gridded])
           h == [marked |-> marked', placed |-> placed']
<1>1. h.marked = marked' /\ h.placed = placed' /\ TheGrid.placed = placed
  BY DEF TheGrid
<1>2. A \subseteq there /\ StoredAddresses(store[Gridded]) \subseteq there
  BY DEF Comes
<1>3. /\ GridOK(h)
      /\ DOMAIN placed \subseteq DOMAIN placed'
      /\ DOMAIN placed' \subseteq DOMAIN placed \cup A
      /\ \A a \in DOMAIN placed : placed'[a] = placed[a]
      /\ \A a \in A : a \in DOMAIN placed' \/ CellsOf(gridSize) \subseteq marked'
  BY <1>1 DEF Adds
<1>4. GridOK(TheGrid)'
  BY <1>3 DEF GridOK, TheGrid
<1>5. DOMAIN placed' \subseteq there
  BY <1>2, <1>3 DEF SimpleGridInv
<1>6. SimpleGridInv'
  BY <1>4, <1>5 DEF SimpleGridInv
<1>7. ASSUME NEW a \in there \ StoredAddresses(store[Gridded]) PROVE a \in A
  <2>1. /\ a = <<a[1], a[2]>> /\ a[2] \in StacksOf(store'[Gridded], a[1])
        /\ a[2] \notin StacksOf(store[Gridded], a[1])
    BY <1>7, StoredIs
  <2> QED
    BY <2>1 DEF Comes, DiffersWithin
<1>8. CellsOf(gridSize) \subseteq marked' => Unmarked' = {}
  BY DEF Unmarked
<1>9. Arrivals
  BY <1>3, <1>7, <1>8 DEF Arrivals
<1>10. Staying
  BY <1>3 DEF Staying
<1> QED
  BY <1>6, <1>9, <1>10

\* A removal from the grid of what goes from its storage.
LEMMA GridAfterRemoval ==
    ASSUME SimpleGridInv, UNCHANGED <<gridded, gridSize>>, gridded,
           NEW A, Goes(store[Gridded], store'[Gridded], A),
           Removes(TheGrid, [marked |-> marked', placed |-> placed'], A, StoredAddresses(store'[Gridded]))
    PROVE  SimpleGridInv' /\ Arrivals /\ Staying
<1> DEFINE there == StoredAddresses(store'[Gridded])
           h == [marked |-> marked', placed |-> placed']
<1>1. h.marked = marked' /\ h.placed = placed' /\ TheGrid.placed = placed
  BY DEF TheGrid
<1>2. there \subseteq StoredAddresses(store[Gridded])
  BY DEF Goes
<1>3. /\ GridOK(h)
      /\ DOMAIN placed' = DOMAIN placed \ (A \ there)
      /\ \A a \in DOMAIN placed' : placed'[a] = placed[a]
  BY <1>1 DEF Removes
<1>4. GridOK(TheGrid)'
  BY <1>3 DEF GridOK, TheGrid
<1>5. ASSUME NEW a \in DOMAIN placed' PROVE a \in there
  <2>1. a \in StoredAddresses(store[Gridded]) /\ ~(a \in A /\ a \notin there)
    BY <1>3, <1>5 DEF SimpleGridInv
  <2>2. a = <<a[1], a[2]>> /\ a[2] \in StacksOf(store[Gridded], a[1])
    BY <2>1, StoredIs
  <2>3. a \notin A => a[2] \in StacksOf(store'[Gridded], a[1])
    BY <2>2 DEF Goes, DiffersWithin
  <2>4. a[2] \in StacksOf(store'[Gridded], a[1]) => a \in there
    BY <2>2, StoredIs
  <2> QED
    BY <2>1, <2>3, <2>4
<1>6. SimpleGridInv'
  BY <1>4, <1>5 DEF SimpleGridInv
<1>7. Arrivals
  BY <1>2 DEF Arrivals
<1>8. Staying
  BY <1>3 DEF Staying
<1> QED
  BY <1>6, <1>7, <1>8

\* A call on the storages.
LEMMA StorageStepsKeep ==
    ASSUME IInv, SimpleGridInv, StorageSteps
    PROVE  SimpleGridInv' /\ Arrivals /\ Staying
<1>1. StoreInv /\ Next /\ Gridded \in Storages /\ UNCHANGED <<gridded, gridSize>>
  BY GridAssumption DEF IInv, StorageSteps
<1>2. Hears(Gridded)
  BY <1>1, NextHeard DEF AllHear
<1>3. StoreInv'
  BY <1>1, StepInv DEF IInv
<1>4. CASE Posted = {}
  <2>1. UNCHANGED <<marked, placed>>
    BY <1>4 DEF StorageSteps, PostEventBatch
  <2>2. GridOK(TheGrid)'
    BY <1>1, <2>1 DEF SimpleGridInv, GridOK, TheGrid
  <2>3. CASE ~gridded
    <3>1. DOMAIN placed' = {}
      BY <2>1, <2>3 DEF SimpleGridInv
    <3> QED
      BY <1>1, <2>2, <2>3, <3>1 DEF SimpleGridInv, Arrivals, Staying
  <2>4. CASE gridded
    <3>1. store'[Gridded].entries = store[Gridded].entries
      BY <1>2, <1>4, <2>4 DEF Hears, Posted
    <3>2. StoredAddresses(store'[Gridded]) = StoredAddresses(store[Gridded])
      BY <3>1 DEF StoredAddresses
    <3>3. SimpleGridInv'
      BY <1>1, <2>1, <2>2, <2>4, <3>2 DEF SimpleGridInv
    <3>4. Arrivals
      BY <2>4, <3>2 DEF Arrivals
    <3>5. Staying
      BY <2>1 DEF Staying
    <3> QED
      BY <3>3, <3>4, <3>5
  <2> QED
    BY <2>3, <2>4
<1>5. CASE Posted # {}
  <2> DEFINE there == StoredAddresses(store'[Gridded])
  <2>1. PICK batch \in Posted :
          LET grid == HandledAll(batch.type, there, [marked |-> marked, placed |-> placed], TouchedBy(batch))
          IN  marked' = grid.marked /\ placed' = grid.placed
    BY <1>5 DEF StorageSteps, PostEventBatch
  <2> DEFINE A == TouchedBy(batch)
             h == HandledAll(batch.type, there, TheGrid, A)
  <2>2. marked' = h.marked /\ placed' = h.placed
    BY <2>1 DEF TheGrid
  <2>3. gridded /\ store'[Gridded].entries # store[Gridded].entries
    BY <1>5 DEF Posted
  <2>4. PICK n \in DOMAIN log' : batch = log'[n] /\ log'[n].storage = Gridded
    BY <2>3 DEF Posted
  <2>5. Tells(store[Gridded], store'[Gridded], batch)
    BY <1>2, <2>3, <2>4 DEF Hears
  <2>6. A \subseteq Int \X Int /\ IsFiniteSet(A)
    <3>1. /\ StoredAddresses(store[Gridded]) \subseteq EntryKeys \X StackKeys
          /\ StoredAddresses(store'[Gridded]) \subseteq EntryKeys \X StackKeys
      BY <1>1, <1>3, StoredWithin DEF StoreInv
    <3>2. A \subseteq EntryKeys \X StackKeys
      BY <2>5, <3>1 DEF Tells, Comes, Goes
    <3>3. EntryKeys \X StackKeys \subseteq Int \X Int
      BY DEF EntryKeys, StackKeys
    <3> HIDE DEF A
    <3> QED
      BY <3>2, <3>3, AddressesFinite, FS_Subset
  <2>7. gridSize \in Nat \X Nat /\ GridOK(TheGrid)
    BY DEF SimpleGridInv
  <2>8. CASE batch.type \in {"Addition", "Split"}
    <3>1. Comes(store[Gridded], store'[Gridded], A)
      BY <2>5, <2>8 DEF Tells
    <3>2. Adds(TheGrid, h, A)
      <4>1. A \subseteq there
        BY <3>1 DEF Comes
      <4> HIDE DEF A, there
      <4> QED
        BY <2>6, <2>7, <2>8, <4>1, AllAdded
    <3> HIDE DEF A, h
    <3>3. Adds(TheGrid, [marked |-> marked', placed |-> placed'], A)
      BY <2>2, <3>2 DEF Adds, GridOK
    <3> QED
      BY <1>1, <2>3, <3>1, <3>3, GridAfterAddition
  <2>9. CASE batch.type \notin {"Addition", "Split"}
    <3>1. Goes(store[Gridded], store'[Gridded], A)
      BY <2>5, <2>9 DEF Tells
    <3>2. Removes(TheGrid, h, A, there)
      <4> HIDE DEF A, there
      <4> QED
        BY <2>6, <2>7, <2>9, AllRemoved
    <3> HIDE DEF A, h
    <3>3. Removes(TheGrid, [marked |-> marked', placed |-> placed'], A, there)
      BY <2>2, <3>2 DEF Removes, GridOK
    <3> QED
      BY <1>1, <2>3, <3>1, <3>3, GridAfterRemoval
  <2> QED
    BY <2>8, <2>9
<1> QED
  BY <1>4, <1>5

\* The grid is set up: all that is stored comes to it.
LEMMA InitializeKeeps ==
    ASSUME IInv, SimpleGridInv, InitializeExtension
    PROVE  SimpleGridInv' /\ Arrivals /\ Staying
<1> DEFINE there == StoredAddresses(store[Gridded])
           empty == [marked |-> {}, placed |-> placed]
           h == HandledAll("Addition", there, empty, there)
<1>1. /\ marked' = h.marked /\ placed' = h.placed
      /\ ~gridded /\ gridded' /\ store' = store /\ gridSize' = gridSize
  BY DEF InitializeExtension, vars
<1>2. DOMAIN placed = {} /\ gridSize \in Nat \X Nat
  BY <1>1 DEF SimpleGridInv
<1>3. there \subseteq Int \X Int /\ IsFiniteSet(there)
  <2>1. there \subseteq EntryKeys \X StackKeys
    BY GridAssumption, StoredWithin DEF IInv, StoreInv
  <2>2. EntryKeys \X StackKeys \subseteq Int \X Int
    BY DEF EntryKeys, StackKeys
  <2> HIDE DEF there
  <2> QED
    BY <2>1, <2>2, AddressesFinite, FS_Subset
<1>4. GridOK(empty) /\ DOMAIN empty.placed = {}
  BY <1>2 DEF GridOK
<1>5. Adds(empty, h, there)
  <2> HIDE DEF there, empty
  <2>1. "Addition" \in {"Addition", "Split"} /\ there \subseteq there
    OBVIOUS
  <2> QED
    BY <1>2, <1>3, <1>4, <2>1, AllAdded
<1> HIDE DEF h, empty
<1>6. /\ GridOK(h) /\ DOMAIN placed' \subseteq there
      /\ \A a \in there : a \in DOMAIN placed' \/ CellsOf(gridSize) \subseteq marked'
  BY <1>1, <1>4, <1>5 DEF Adds
<1>7. GridOK(TheGrid)'
  BY <1>1, <1>6 DEF GridOK, TheGrid
<1>8. SimpleGridInv'
  BY <1>1, <1>2, <1>6, <1>7 DEF SimpleGridInv
<1>9. CellsOf(gridSize) \subseteq marked' => Unmarked' = {}
  BY <1>1 DEF Unmarked
<1> QED
  BY <1>1, <1>6, <1>8, <1>9 DEF Arrivals, Staying

\* The other calls on the grid move nothing; a grid that grows keeps its marks.
LEMMA GridCallsKeep ==
    ASSUME SimpleGridInv, GridGrows,
           \/ \E a \in DOMAIN placed, p \in CellsOf(gridSize) : MoveItem(a, p)
           \/ \E size \in GridSizes : SetGridSize(size)
           \/ DeinitializeExtension
           \/ UNCHANGED <<vars, simpleGridVars>>
    PROVE  SimpleGridInv' /\ Arrivals /\ Staying
<1>1. CASE DeinitializeExtension
  <2>1. /\ ~gridded' /\ marked' = {} /\ placed' = <<>> /\ gridSize' = gridSize /\ store' = store
    BY <1>1 DEF DeinitializeExtension, vars
  <2>2. DOMAIN placed' = {}
    BY <2>1
  <2>3. GridOK(TheGrid)'
    BY <2>1, <2>2 DEF GridOK, TheGrid
  <2> QED
    BY <2>1, <2>2, <2>3 DEF SimpleGridInv, Arrivals, Staying
<1>2. ASSUME UNCHANGED <<store, gridded, placed>>, marked' = marked, gridSize' \in Nat \X Nat
      PROVE  SimpleGridInv' /\ Arrivals /\ Staying
  <2>1. GridOK(TheGrid)'
    BY <1>2 DEF SimpleGridInv, GridOK, TheGrid, GridGrows
  <2>2. SimpleGridInv'
    BY <1>2, <2>1 DEF SimpleGridInv
  <2> QED
    BY <1>2, <2>2 DEF Arrivals, Staying
<1>3. ASSUME NEW a \in DOMAIN placed, NEW p, MoveItem(a, p)
      PROVE  SimpleGridInv' /\ Arrivals /\ Staying
  <2>1. FindOverlappingItem(a) # {}
    BY DEF FindOverlappingItem
  <2>2. UNCHANGED <<store, gridded, placed, marked, gridSize>>
    BY <1>3, <2>1 DEF MoveItem, vars
  <2> QED
    BY <1>2, <2>2 DEF SimpleGridInv
<1>4. ASSUME NEW size \in GridSizes, SetGridSize(size)
      PROVE  SimpleGridInv' /\ Arrivals /\ Staying
  <2>1. /\ gridSize' = size /\ marked' = marked \cap CellsOf(gridSize')
        /\ UNCHANGED <<store, gridded, placed>>
    BY <1>4 DEF SetGridSize, vars
  <2>2. marked \subseteq CellsOf(gridSize)
    BY DEF SimpleGridInv, GridOK, TheGrid
  <2>3. marked' = marked
    BY <2>1, <2>2 DEF GridGrows
  <2> QED
    BY <1>2, <2>1, <2>3, GridAssumption
<1>5. ASSUME UNCHANGED <<vars, simpleGridVars>> PROVE SimpleGridInv' /\ Arrivals /\ Staying
  BY <1>2, <1>5 DEF vars, simpleGridVars, SimpleGridInv
<1> QED
  BY <1>1, <1>3, <1>4, <1>5

\* A grid that is never made smaller keeps every stack alone on its cell, gives a
\* cell to whatever comes while one is free, and moves nothing that stays, whatever
\* is called on the storages and on the grid.  (A grid that shrinks forgets the
\* marks of the cells it loses, but not what lies there: FCellGrid::Resize.)
THEOREM ComersAlwaysGetCells ==
    SimpleGridSpec /\ [][GridGrows]_<<vars, simpleGridVars>> => ComersGetCells
<1>1. Init /\ SimpleGridInit => SimpleGridInv
  <2> SUFFICES ASSUME Init, SimpleGridInit PROVE SimpleGridInv
    OBVIOUS
  <2>1. gridSize \in Nat \X Nat /\ gridded /\ marked = {} /\ placed = <<>>
    BY GridAssumption DEF SimpleGridInit
  <2>2. DOMAIN placed = {}
    BY <2>1
  <2>3. GridOK(TheGrid)
    BY <2>1, <2>2 DEF GridOK, TheGrid
  <2> QED
    BY <2>1, <2>2, <2>3 DEF SimpleGridInv
<1>2. ASSUME IInv, SimpleGridInv, [SimpleGridNext]_<<vars, simpleGridVars>>,
             [GridGrows]_<<vars, simpleGridVars>>
      PROVE  SimpleGridInv' /\ Arrivals /\ Staying
  <2>1. GridGrows
    BY <1>2 DEF GridGrows, simpleGridVars
  <2>2. CASE StorageSteps
    BY <1>2, <2>2, StorageStepsKeep
  <2>3. CASE InitializeExtension
    BY <1>2, <2>3, InitializeKeeps
  <2> QED
    BY <1>2, <2>1, <2>2, <2>3, GridCallsKeep DEF SimpleGridNext
<1>3. IInv /\ [SimpleGridNext]_<<vars, simpleGridVars>> => IInv'
  <2> SUFFICES ASSUME IInv, [SimpleGridNext]_<<vars, simpleGridVars>> PROVE IInv'
    OBVIOUS
  <2>1. [Next]_vars
    BY DEF SimpleGridNext, StorageSteps, MoveItem, SetGridSize, InitializeExtension,
           DeinitializeExtension
  <2> QED
    BY <2>1, StepInv
<1> DEFINE Step == LET there == StoredAddresses(store'[Gridded])
                   IN  /\ OneStackPerCell'
                       /\ gridded' =>
                             \A a \in there \ (IF gridded THEN StoredAddresses(store[Gridded]) ELSE {}) :
                                a \in DOMAIN placed' \/ Unmarked' = {}
                       /\ gridded /\ gridded' =>
                             \A a \in DOMAIN placed \cap there :
                                a \in DOMAIN placed' /\ placed'[a] = placed[a]
<1>4. IInv /\ SimpleGridInv /\ [SimpleGridNext]_<<vars, simpleGridVars>>
        /\ [GridGrows]_<<vars, simpleGridVars>> => SimpleGridInv' /\ [Step]_<<vars, simpleGridVars>>
  <2> SUFFICES ASSUME IInv, SimpleGridInv, [SimpleGridNext]_<<vars, simpleGridVars>>,
                      [GridGrows]_<<vars, simpleGridVars>>
               PROVE  SimpleGridInv' /\ Step
    OBVIOUS
  <2>1. SimpleGridInv' /\ Arrivals /\ Staying
    BY <1>2
  <2>2. OneStackPerCell'
    <3>1. (SimpleGridInv => OneStackPerCell)'
      BY InvariantHasCells, PTL
    <3> QED
      BY <2>1, <3>1
  <2> QED
    BY <2>1, <2>2 DEF Arrivals, Staying
<1>5. Init => IInv
  BY InitInv
<1> QED
  BY <1>1, <1>3, <1>4, <1>5, PTL DEF SimpleGridSpec, ComersGetCells

-----------------------------------------------------------------------------
(* The iterators of a storage.                                              *)

\* The addresses of a storage are what is stored in it.
LEMMA AddressesAreStored ==
    ASSUME NEW st, Sound(st), WithinBounds(st)
    PROVE  /\ AddressesOf(st) = StoredAddresses(st)
           /\ AddressesOf(st) \subseteq Int \X Int
           /\ IsFiniteSet(AddressesOf(st))
           /\ NoIndex \notin AddressesOf(st)
<1>1. AddressesOf(st) \subseteq StoredAddresses(st)
  BY StoredIs DEF AddressesOf, Contains, StacksOf
<1>2. StoredAddresses(st) \subseteq AddressesOf(st)
  BY StoredIs, StoredWithin DEF AddressesOf, Contains, StacksOf
<1>3. EntryKeys \X StackKeys \subseteq Int \X Int /\ 0 \notin EntryKeys
  BY InputsAssumption DEF EntryKeys, StackKeys, KeyGenReset
<1>4. AddressesOf(st) \in SUBSET (EntryKeys \X StackKeys)
  BY DEF AddressesOf
<1> QED
  BY <1>1, <1>2, <1>3, <1>4, AddressesFinite, FS_Subset DEF NoIndex

\* Addresses are in a total order.
LEMMA AddressesOrdered ==
    ASSUME NEW a \in Int \X Int, NEW b \in Int \X Int
    PROVE  /\ ~AddressBefore(a, a)
           /\ a = b \/ AddressBefore(a, b) \/ AddressBefore(b, a)
           /\ AddressBefore(a, b) => ~AddressBefore(b, a)
           /\ \A c \in Int \X Int : AddressBefore(a, b) /\ AddressBefore(b, c) => AddressBefore(a, c)
BY DEF AddressBefore

\* The least of some keys of a finite set.
LEMMA LeastIs ==
    ASSUME NEW S, IsFiniteSet(S), S \subseteq Int, S # {}
    PROVE  Least(S) \in S /\ \A j \in S : Least(S) <= j
<1>1. \E k \in S : \A j \in S : k <= j
  BY LeastInteger
<1> QED
  BY <1>1 DEF Least

\* The keys of a storage and of its entries are finitely many integers.
LEMMA KeysFinite ==
    ASSUME NEW st, Sound(st)
    PROVE  /\ DOMAIN st.entries \subseteq Int /\ IsFiniteSet(DOMAIN st.entries)
           /\ \A k \in DOMAIN st.entries :
                 /\ DOMAIN st.entries[k].stacks \subseteq Int
                 /\ IsFiniteSet(DOMAIN st.entries[k].stacks)
<1>1. DOMAIN st.entries \in SUBSET ((KeyGenReset + 1) .. st.keyGen) /\ st.keyGen \in Int
  BY DEF Sound, IsStorage
<1>2. KeyGenReset + 1 \in Int
  BY DEF KeyGenReset
<1>3. IsFiniteSet((KeyGenReset + 1) .. st.keyGen)
  BY ONLY <1>1, <1>2, FS_Interval
<1>4. IsFiniteSet(DOMAIN st.entries)
  BY ONLY <1>1, <1>3, FS_Subset
<1>5. ASSUME NEW k \in DOMAIN st.entries
      PROVE  /\ DOMAIN st.entries[k].stacks \subseteq Int
             /\ IsFiniteSet(DOMAIN st.entries[k].stacks)
  <2>1. IsEntry(st.entries[k])
    BY DEF Sound, IsStorage
  <2> QED
    BY <2>1, <1>2, StacksFinite DEF IsEntry
<1> QED
  BY <1>1, <1>2, <1>4, <1>5

\* Where an iterator is when it enters some of the entries: at the first of
\* their stacks, or past the last if there is none.
LEMMA FirstOfIs ==
    ASSUME NEW st, Sound(st), Filling(st), NEW keys \in SUBSET DOMAIN st.entries
    PROVE  /\ keys = {} => FirstOf(st, keys) = NoIndex
           /\ keys # {} => /\ FirstOf(st, keys) \in StoredAddresses(st)
                           /\ FirstOf(st, keys)[1] \in keys
                           /\ \A b \in StoredAddresses(st) :
                                 b[1] \in keys => b = FirstOf(st, keys)
                                                  \/ AddressBefore(FirstOf(st, keys), b)
<1>1. CASE keys = {}
  BY <1>1 DEF FirstOf
<1>2. CASE keys # {}
  <2> DEFINE k == Least(keys)
             S == DOMAIN st.entries[k].stacks
             j == Least(S)
  <2>1. k \in keys /\ \A l \in keys : k <= l
    <3>1. IsFiniteSet(keys) /\ keys \subseteq Int
      BY KeysFinite, FS_Subset
    <3> QED
      BY <1>2, <3>1, LeastIs
  <2> HIDE DEF k
  <2>2. S # {} /\ S \subseteq Int /\ IsFiniteSet(S)
    BY <2>1, KeysFinite DEF Filling, Full
  <2>3. j \in S /\ \A l \in S : j <= l
    <3> HIDE DEF S
    <3> QED
      BY <2>2, LeastIs
  <2>4. FirstOf(st, keys) = <<k, j>>
    BY <1>2 DEF FirstOf, k
  <2> HIDE DEF j
  <2>5. <<k, j>> \in StoredAddresses(st)
    BY <2>1, <2>3, StoredIs DEF StacksOf
  <2>6. ASSUME NEW b \in StoredAddresses(st), b[1] \in keys
        PROVE  b = <<k, j>> \/ AddressBefore(<<k, j>>, b)
    <3>1. b = <<b[1], b[2]>> /\ b[2] \in StacksOf(st, b[1])
      BY StoredIs
    <3>2. b[1] \in Int /\ k \in Int /\ k <= b[1]
      BY <2>1, <2>6, KeysFinite
    <3>3. CASE b[1] = k
      <4>1. b[2] \in S
        BY <2>1, <3>1, <3>3 DEF StacksOf
      <4>2. j <= b[2] /\ j \in Int /\ b[2] \in Int
        BY <2>2, <2>3, <4>1
      <4> QED
        BY <3>1, <3>3, <4>2 DEF AddressBefore
    <3>4. CASE b[1] # k
      BY <3>2, <3>4 DEF AddressBefore
    <3> QED
      BY <3>3, <3>4
  <2> QED
    BY <1>2, <2>1, <2>4, <2>5, <2>6
<1> QED
  BY <1>1, <1>2

\* Where an iterator goes from an address: to the next, or past the last.
LEMMA NextIs ==
    ASSUME NEW st, Sound(st), WithinBounds(st), Filling(st), NEW at \in StoredAddresses(st)
    PROVE  /\ Advance(st, at) = NoIndex =>
                 \A b \in StoredAddresses(st) : ~AddressBefore(at, b)
           /\ Advance(st, at) # NoIndex =>
                 /\ Advance(st, at) \in StoredAddresses(st)
                 /\ AddressBefore(at, Advance(st, at))
                 /\ \A b \in StoredAddresses(st) : AddressBefore(at, b) =>
                       b = Advance(st, at) \/ AddressBefore(Advance(st, at), b)
<1> DEFINE S == DOMAIN st.entries[at[1]].stacks
           remaining == {j \in S : at[2] < j}
           keys == {k \in DOMAIN st.entries : at[1] < k}
<1>1. at \in Int \X Int /\ NoIndex \notin StoredAddresses(st)
      /\ \A b \in StoredAddresses(st) : b \in Int \X Int
  BY AddressesAreStored
<1>2. /\ at[1] \in DOMAIN st.entries
      /\ \A b \in StoredAddresses(st) :
            b[1] \in DOMAIN st.entries /\ b[2] \in DOMAIN st.entries[b[1]].stacks
  BY StoredIs DEF StacksOf
<1>3. S \subseteq Int /\ IsFiniteSet(S)
  BY <1>2, KeysFinite
<1>4. CASE remaining # {}
  <2> DEFINE j == Least(remaining)
  <2>1. j \in remaining /\ \A l \in remaining : j <= l
    <3>1. remaining \subseteq Int /\ IsFiniteSet(remaining)
      BY <1>3, FS_Subset
    <3> HIDE DEF remaining
    <3> QED
      BY <1>4, <3>1, LeastIs
  <2>2. Advance(st, at) = <<at[1], j>>
    BY <1>4 DEF Advance
  <2> HIDE DEF j
  <2>3. <<at[1], j>> \in StoredAddresses(st)
    BY <1>2, <2>1, StoredIs DEF StacksOf
  <2>4. AddressBefore(at, <<at[1], j>>)
    BY <2>1 DEF AddressBefore
  <2>5. ASSUME NEW b \in StoredAddresses(st), AddressBefore(at, b)
        PROVE  b = <<at[1], j>> \/ AddressBefore(<<at[1], j>>, b)
    <3>1. CASE b[1] = at[1]
      <4>1. b[2] \in remaining
        BY <1>1, <1>2, <2>5, <3>1 DEF AddressBefore
      <4>2. j <= b[2] /\ j \in Int /\ b[2] \in Int
        BY <1>1, <1>3, <2>1, <4>1
      <4> QED
        BY <1>1, <3>1, <4>2 DEF AddressBefore
    <3>2. CASE b[1] # at[1]
      BY <2>5, <3>2 DEF AddressBefore
    <3> QED
      BY <3>1, <3>2
  <2> QED
    BY <1>1, <2>2, <2>3, <2>4, <2>5
<1>5. CASE remaining = {}
  <2>1. Advance(st, at) = FirstOf(st, keys)
    BY <1>5 DEF Advance, AdvanceEntry
  <2>2. \A b \in StoredAddresses(st) : AddressBefore(at, b) => b[1] \in keys
    BY <1>1, <1>2, <1>5 DEF AddressBefore
  <2>3. \A b \in StoredAddresses(st) : b[1] \in keys => AddressBefore(at, b)
    BY DEF AddressBefore
  <2>4. keys \in SUBSET DOMAIN st.entries
    OBVIOUS
  <2> HIDE DEF keys
  <2> QED
    BY <1>1, <2>1, <2>2, <2>3, <2>4, FirstOfIs
<1> QED
  BY <1>4, <1>5

\* The addresses before one.
AllBefore(st, at) == {b \in StoredAddresses(st) : AddressBefore(b, at)}

\* An iterator passes one address with each step.
LEMMA AdvanceIs ==
    ASSUME NEW st, Sound(st), WithinBounds(st), Filling(st), NEW at \in StoredAddresses(st)
    PROVE  /\ Advance(st, at) = NoIndex => AllBefore(st, at) \cup {at} = StoredAddresses(st)
           /\ Advance(st, at) # NoIndex =>
                 /\ Advance(st, at) \in StoredAddresses(st)
                 /\ AllBefore(st, Advance(st, at)) = AllBefore(st, at) \cup {at}
<1> DEFINE next == Advance(st, at)
<1>1. \A b \in StoredAddresses(st) : b \in Int \X Int
  BY AddressesAreStored
<1>2. CASE next = NoIndex
  BY <1>1, <1>2, NextIs, AddressesOrdered DEF AllBefore
<1>3. CASE next # NoIndex
  <2>1. /\ next \in StoredAddresses(st) /\ AddressBefore(at, next)
        /\ \A b \in StoredAddresses(st) : AddressBefore(at, b) => b = next \/ AddressBefore(next, b)
    BY <1>3, NextIs
  <2> HIDE DEF next
  <2>2. ASSUME NEW b \in StoredAddresses(st)
        PROVE  AddressBefore(b, next) <=> AddressBefore(b, at) \/ b = at
    BY <1>1, <2>1, AddressesOrdered
  <2>3. AllBefore(st, next) = AllBefore(st, at) \cup {at}
    BY <2>2 DEF AllBefore
  <2> QED
    BY <1>3, <2>1, <2>3 DEF next
<1> QED
  BY <1>2, <1>3

-----------------------------------------------------------------------------
(* Lists of addresses.                                                      *)

\* A list has each member of a set once.
ListsOnce(list, S) ==
    /\ list \in Seq(Int \X Int)
    /\ Listed(list) = S
    /\ \A m, n \in DOMAIN list : list[m] = list[n] => m = n

\* It has as many places as the set has members.
LEMMA ListsOnceCounts ==
    ASSUME NEW list, NEW S, ListsOnce(list, S)
    PROVE  IsFiniteSet(S) /\ Cardinality(S) = Len(list)
<1>1. DOMAIN list = 1 .. Len(list) /\ Len(list) \in Nat
  BY DEF ListsOnce
<1>2. IsFiniteSet(1 .. Len(list)) /\ Cardinality(1 .. Len(list)) = Len(list)
  BY <1>1, UpTo
<1> DEFINE f == [n \in 1 .. Len(list) |-> list[n]]
<1>3. f \in Surjection(1 .. Len(list), S) /\ f \in Injection(1 .. Len(list), S)
  BY <1>1 DEF ListsOnce, Listed, Surjection, Injection, IsInjective
<1> HIDE DEF f
<1> QED
  BY <1>2, <1>3, FS_Surjection

\* The place of what is at place m when another is put in at place n.
Shift(m, n) == IF m < n THEN m ELSE m + 1

\* What is put in at a place moves the rest by one.
LEMMA InsertedIs ==
    ASSUME NEW list \in Seq(Int \X Int), NEW n \in 1 .. Len(list) + 1, NEW a \in Int \X Int
    PROVE  /\ Inserted(list, n, a) \in Seq(Int \X Int)
           /\ DOMAIN Inserted(list, n, a) = 1 .. Len(list) + 1
           /\ Inserted(list, n, a)[n] = a
           /\ \A m \in DOMAIN list : Inserted(list, n, a)[Shift(m, n)] = list[m]
           /\ \A m \in DOMAIN list : Shift(m, n) \in 1 .. Len(list) + 1
           /\ \A m \in 1 .. Len(list) + 1 : m = n \/ \E l \in DOMAIN list : m = Shift(l, n)
<1> DEFINE L == Len(list)
           p == Inserted(list, n, a)
<1>1. L \in Nat /\ DOMAIN list = 1 .. L /\ n \in 1 .. L + 1 /\ \A m \in 1 .. L : list[m] \in Int \X Int
  OBVIOUS
<1>2. p = [m \in 1 .. L + 1 |-> IF m < n THEN list[m] ELSE IF m = n THEN a ELSE list[m - 1]]
  BY DEF Inserted
<1> HIDE DEF L, p
<1>3. ASSUME NEW m \in 1 .. L + 1
      PROVE  /\ p[m] \in Int \X Int
             /\ m = n \/ \E l \in 1 .. L : m = Shift(l, n)
  <2>1. CASE m < n
    <3>1. m \in 1 .. L
      BY <1>1, <2>1
    <3>2. m = Shift(m, n) /\ p[m] = list[m]
      BY <1>2, <2>1 DEF Shift
    <3> QED
      BY <1>1, <3>1, <3>2
  <2>2. CASE m = n
    BY <1>1, <1>2, <2>2
  <2>3. CASE m > n
    <3>1. m - 1 \in 1 .. L /\ ~(m - 1 < n) /\ m = (m - 1) + 1 /\ ~(m < n) /\ m # n
      BY <1>1, <2>3
    <3>2. p[m] = list[m - 1] /\ m = Shift(m - 1, n)
      BY <1>2, <3>1 DEF Shift
    <3> QED
      BY <1>1, <3>1, <3>2
  <2> QED
    BY <1>1, <2>1, <2>2, <2>3
<1>4. p \in Seq(Int \X Int) /\ DOMAIN p = 1 .. L + 1
  <2>1. p \in [1 .. L + 1 -> Int \X Int] /\ L + 1 \in Nat
    BY <1>1, <1>2, <1>3
  <2> QED
    BY <2>1
<1>5. p[n] = a
  BY <1>1, <1>2
<1>6. ASSUME NEW m \in 1 .. L PROVE p[Shift(m, n)] = list[m] /\ Shift(m, n) \in 1 .. L + 1
  <2>1. CASE m < n
    BY <1>1, <1>2, <2>1 DEF Shift
  <2>2. CASE ~(m < n)
    <3>1. m + 1 \in 1 .. L + 1 /\ ~(m + 1 < n) /\ m + 1 # n /\ (m + 1) - 1 = m
      BY <1>1, <2>2
    <3> QED
      BY <1>2, <2>2, <3>1 DEF Shift
  <2> QED
    BY <2>1, <2>2
<1> QED
  BY <1>1, <1>3, <1>4, <1>5, <1>6 DEF L, p

\* Appending is putting in at the end.
LEMMA AppendInserts ==
    ASSUME NEW list \in Seq(Int \X Int), NEW a \in Int \X Int
    PROVE  Append(list, a) = Inserted(list, Len(list) + 1, a)
<1>1. /\ Append(list, a) = [m \in 1 .. Len(list) + 1 |-> Append(list, a)[m]]
      /\ \A m \in 1 .. Len(list) : Append(list, a)[m] = list[m]
      /\ Append(list, a)[Len(list) + 1] = a /\ Len(list) \in Nat
  <2> DEFINE p == Append(list, a)
  <2>1. p \in Seq(Int \X Int) /\ Len(p) = Len(list) + 1 /\ Len(list) \in Nat
    OBVIOUS
  <2>2. (\A m \in 1 .. Len(list) : p[m] = list[m]) /\ p[Len(list) + 1] = a
    OBVIOUS
  <2> HIDE DEF p
  <2>3. p = [m \in 1 .. Len(p) |-> p[m]]
    BY <2>1
  <2> QED
    BY <2>1, <2>2, <2>3 DEF p
<1>2. ASSUME NEW m \in 1 .. Len(list) + 1
      PROVE  Append(list, a)[m] = IF m < Len(list) + 1 THEN list[m]
                                  ELSE IF m = Len(list) + 1 THEN a ELSE list[m - 1]
  BY <1>1
<1> QED
  BY <1>1, <1>2 DEF Inserted

\* What a list puts in that it does not have, it has once.
LEMMA InsertionListsOnce ==
    ASSUME NEW list, NEW S, ListsOnce(list, S), NEW n \in 1 .. Len(list) + 1,
           NEW a \in (Int \X Int) \ S
    PROVE  ListsOnce(Inserted(list, n, a), S \cup {a})
<1> DEFINE p == Inserted(list, n, a)
<1>1. /\ p \in Seq(Int \X Int) /\ DOMAIN p = 1 .. Len(list) + 1 /\ p[n] = a
      /\ \A l \in DOMAIN list : p[Shift(l, n)] = list[l] /\ Shift(l, n) \in DOMAIN p
      /\ \A m \in DOMAIN p : m = n \/ \E l \in DOMAIN list : m = Shift(l, n)
  <2>1. list \in Seq(Int \X Int)
    BY DEF ListsOnce
  <2>2. a \in Int \X Int
    OBVIOUS
  <2>3. /\ p \in Seq(Int \X Int) /\ DOMAIN p = 1 .. Len(list) + 1 /\ p[n] = a
        /\ \A l \in DOMAIN list : p[Shift(l, n)] = list[l]
        /\ \A l \in DOMAIN list : Shift(l, n) \in 1 .. Len(list) + 1
        /\ \A m \in 1 .. Len(list) + 1 : m = n \/ \E l \in DOMAIN list : m = Shift(l, n)
    BY <2>1, <2>2, InsertedIs, SMTT(60)
  <2> HIDE DEF p
  <2> QED
    BY <2>3
<1>2. \A l \in DOMAIN list : list[l] \in S
  BY DEF ListsOnce, Listed
<1> HIDE DEF p
<1>3. Listed(p) = S \cup {a}
  <2>1. Listed(p) \subseteq S \cup {a}
    <3> SUFFICES ASSUME NEW m \in DOMAIN p PROVE p[m] \in S \cup {a}
      BY DEF Listed
    <3> QED
      BY <1>1, <1>2
  <2>2. ASSUME NEW b \in S PROVE b \in Listed(p)
    <3>1. PICK l \in DOMAIN list : b = list[l]
      BY DEF ListsOnce, Listed
    <3> QED
      BY <1>1, <3>1 DEF Listed
  <2>3. a \in Listed(p)
    BY <1>1 DEF Listed
  <2> QED
    BY <2>1, <2>2, <2>3
<1>4. ASSUME NEW k \in DOMAIN p, NEW m \in DOMAIN p, p[k] = p[m] PROVE k = m
  <2>1. CASE k = n \/ m = n
    BY <1>1, <1>2, <1>4, <2>1
  <2>2. CASE k # n /\ m # n
    <3>1. PICK l \in DOMAIN list : k = Shift(l, n)
      BY <1>1, <2>2
    <3>2. PICK h \in DOMAIN list : m = Shift(h, n)
      BY <1>1, <2>2
    <3> QED
      BY <1>1, <1>4, <3>1, <3>2 DEF ListsOnce
  <2> QED
    BY <2>1, <2>2
<1> QED
  BY <1>1, <1>3, <1>4 DEF ListsOnce, p

-----------------------------------------------------------------------------
(* What a query finds.                                                      *)

\* The states of a walk through a storage.
Walks(st) ==
    {w \in [at : Int \X Int, emitted : Seq(Int \X Int)] :
        w.at = NoIndex \/ w.at \in StoredAddresses(st)}

\* What of some addresses the filter lets pass.
Passing(st, q, A) == {a \in A : TestIterator(st, q, a)}

\* After n steps a walk has passed n addresses, and emitted what passes of them,
\* or it has passed them all.
Walked(st, q, w, n) ==
    /\ w \in Walks(st)
    /\ w.at = NoIndex => ListsOnce(w.emitted, Passing(st, q, StoredAddresses(st)))
    /\ w.at # NoIndex => /\ Cardinality(AllBefore(st, w.at)) = n
                         /\ ListsOnce(w.emitted, Passing(st, q, AllBefore(st, w.at)))

\* One step of a walk.
LEMMA WalkGoesOn ==
    ASSUME NEW st, Sound(st), WithinBounds(st), Filling(st), NEW q,
           NEW w \in Walks(st)
    PROVE  /\ WalkStep(st, q, w) \in Walks(st)
           /\ \A n \in Nat : Walked(st, q, w, n) => Walked(st, q, WalkStep(st, q, w), n + 1)
<1>1. CASE w.at = NoIndex
  <2>1. WalkStep(st, q, w) = w
    BY <1>1 DEF WalkStep, IsValidIterator
  <2> QED
    BY <1>1, <2>1 DEF Walked
<1>2. CASE w.at # NoIndex
  <2> DEFINE at == w.at
             next == Advance(st, at)
             emitted == IF TestIterator(st, q, at) THEN Append(w.emitted, at) ELSE w.emitted
             v == [at |-> next, emitted |-> emitted]
  <2>1. WalkStep(st, q, w) = v
    BY <1>2 DEF WalkStep, IsValidIterator
  <2>2. at \in StoredAddresses(st) /\ w.emitted \in Seq(Int \X Int)
    BY <1>2 DEF Walks
  <2>3. StoredAddresses(st) \subseteq Int \X Int /\ IsFiniteSet(StoredAddresses(st))
    BY AddressesAreStored
  <2>4. /\ next = NoIndex => AllBefore(st, at) \cup {at} = StoredAddresses(st)
        /\ next # NoIndex => /\ next \in StoredAddresses(st)
                             /\ AllBefore(st, next) = AllBefore(st, at) \cup {at}
    BY <2>2, AdvanceIs
  <2> HIDE DEF at, next
  <2>5. NoIndex \in Int \X Int
    BY DEF NoIndex
  <2>6. emitted \in Seq(Int \X Int)
    BY <2>2, <2>3
  <2>7. v \in Walks(st)
    BY <2>3, <2>4, <2>5, <2>6 DEF Walks
  <2>8. ASSUME NEW n \in Nat, Walked(st, q, w, n) PROVE Walked(st, q, v, n + 1)
    <3> DEFINE B == AllBefore(st, at)
    <3>1. Cardinality(B) = n /\ ListsOnce(w.emitted, Passing(st, q, B))
      BY <1>2, <2>8 DEF Walked, at
    <3>2. at \notin B /\ B \in SUBSET StoredAddresses(st)
      BY <2>2, <2>3, AddressesOrdered DEF AllBefore
    <3>3. Cardinality(B \cup {at}) = n + 1
      <4>1. IsFiniteSet(B)
        BY <2>3, <3>2, FS_Subset
      <4> HIDE DEF B
      <4> QED
        BY <3>1, <3>2, <4>1, FS_AddElement
    <3> HIDE DEF B
    <3>4. ListsOnce(emitted, Passing(st, q, B \cup {at}))
      <4>1. CASE TestIterator(st, q, at)
        <5>1. Passing(st, q, B \cup {at}) = Passing(st, q, B) \cup {at} /\ at \notin Passing(st, q, B)
          BY <3>2, <4>1 DEF Passing
        <5>2. emitted = Inserted(w.emitted, Len(w.emitted) + 1, at)
          BY <2>2, <2>3, <4>1, AppendInserts
        <5>3. Len(w.emitted) + 1 \in 1 .. Len(w.emitted) + 1
          BY <2>2
        <5>4. at \in (Int \X Int) \ Passing(st, q, B)
          BY <2>2, <2>3, <5>1
        <5> HIDE DEF emitted
        <5>5. ListsOnce(Inserted(w.emitted, Len(w.emitted) + 1, at), Passing(st, q, B) \cup {at})
          BY <3>1, <5>3, <5>4, InsertionListsOnce
        <5> QED
          BY <5>1, <5>2, <5>5
      <4>2. CASE ~TestIterator(st, q, at)
        <5>1. Passing(st, q, B \cup {at}) = Passing(st, q, B)
          BY <4>2 DEF Passing
        <5> QED
          BY <3>1, <4>2, <5>1
      <4> QED
        BY <4>1, <4>2
    <3>5. v.at = next /\ v.emitted = emitted
      OBVIOUS
    <3> HIDE DEF v, emitted
    <3> QED
      BY <2>4, <2>7, <3>3, <3>4, <3>5 DEF Walked, B
  <2> HIDE DEF v
  <2> QED
    BY <2>1, <2>7, <2>8
<1> QED
  BY <1>1, <1>2

\* A walk starts with nothing passed.
LEMMA WalkStarts ==
    ASSUME NEW st, Sound(st), WithinBounds(st), Filling(st), NEW q
    PROVE  Walked(st, q, [at |-> CreateAddressIterator(st), emitted |-> <<>>], 0)
<1> DEFINE at == CreateAddressIterator(st)
           keys == DOMAIN st.entries
<1>1. /\ keys = {} => at = NoIndex
      /\ keys # {} => /\ at \in StoredAddresses(st)
                      /\ \A b \in StoredAddresses(st) : b[1] \in keys => b = at \/ AddressBefore(at, b)
  BY FirstOfIs DEF CreateAddressIterator
<1>2. \A b \in StoredAddresses(st) : b[1] \in keys /\ b \in Int \X Int
  BY StoredIs, AddressesAreStored DEF StacksOf
<1>3. NoIndex \in Int \X Int /\ NoIndex \notin StoredAddresses(st)
  BY AddressesAreStored DEF NoIndex
<1>4. ListsOnce(<<>>, {})
  BY DEF ListsOnce, Listed
<1> DEFINE w == [at |-> at, emitted |-> <<>>]
<1>7. w.at = at /\ w.emitted = <<>>
  OBVIOUS
<1>8. at \in Int \X Int => w \in [at : Int \X Int, emitted : Seq(Int \X Int)]
  OBVIOUS
<1> HIDE DEF w
<1>5. CASE keys = {}
  <2>1. Passing(st, q, StoredAddresses(st)) = {}
    BY <1>2, <1>5 DEF Passing
  <2> HIDE DEF at
  <2>2. w \in Walks(st)
    BY <1>1, <1>3, <1>5, <1>7, <1>8 DEF Walks
  <2>3. Walked(st, q, w, 0)
    BY <1>1, <1>4, <1>5, <1>7, <2>1, <2>2 DEF Walked
  <2> QED
    BY <2>3 DEF w, at
<1>6. CASE keys # {}
  <2>1. at \in StoredAddresses(st) /\ at \in Int \X Int
    BY <1>1, <1>2, <1>6
  <2>2. AllBefore(st, at) = {}
    BY <1>1, <1>2, <1>6, <2>1, AddressesOrdered DEF AllBefore
  <2>3. Passing(st, q, AllBefore(st, at)) = {} /\ Cardinality(AllBefore(st, at)) = 0
    BY <2>2, FS_EmptySet DEF Passing
  <2> HIDE DEF at
  <2>4. w \in Walks(st)
    BY <1>7, <1>8, <2>1 DEF Walks
  <2>5. Walked(st, q, w, 0)
    BY <1>3, <1>4, <1>7, <2>1, <2>3, <2>4 DEF Walked
  <2> QED
    BY <2>5 DEF w, at
<1> QED
  BY <1>5, <1>6

\* A walk emits what passes of a storage.
LEMMA EmitIs ==
    ASSUME NEW st, Sound(st), WithinBounds(st), Filling(st), NEW q
    PROVE  ListsOnce(Emit(st, q), Passing(st, q, StoredAddresses(st)))
<1> DEFINE N == Cardinality(AddressesOf(st))
           start == [at |-> CreateAddressIterator(st), emitted |-> <<>>]
           S == Walks(st)
           IsWalk(f) == f = [n \in 0 .. N |-> IF n = 0 THEN start ELSE WalkStep(st, q, f[n - 1])]
           step == [x \in (1 .. N) \X S |-> WalkStep(st, q, x[2])]
<1>1. N \in Nat /\ AddressesOf(st) = StoredAddresses(st) /\ IsFiniteSet(AddressesOf(st))
  BY AddressesAreStored, FS_CardinalityType
<1>2. Walked(st, q, start, 0) /\ start \in S
  BY WalkStarts DEF Walked
<1>3. step \in [(1 .. N) \X S -> S]
  BY WalkGoesOn
<1>4. \A k \in 1 .. N : \A w \in S : step[<<k, w>>] = WalkStep(st, q, w)
  OBVIOUS
<1> HIDE DEF step, S, start, N
<1>5. PICK f \in [0 .. N -> S] : LoopOf(f, N, start, step)
  BY <1>1, <1>2, <1>3, LoopRuns
<1>6. \A n \in 0 .. N : n # 0 => n \in 1 .. N /\ n - 1 \in 0 .. N
  BY <1>1
<1>7. \A n \in 0 .. N : f[n] = IF n = 0 THEN start ELSE WalkStep(st, q, f[n - 1])
  BY <1>4, <1>5, <1>6, SMTT(30) DEF LoopOf
<1>8. IsWalk(f)
  <2>1. f = [n \in 0 .. N |-> f[n]]
    BY <1>5
  <2> QED
    BY <1>7, <2>1
<1> DEFINE walk[n \in 0 .. N] == IF n = 0 THEN start ELSE WalkStep(st, q, walk[n - 1])
<1>9. walk = CHOOSE g : IsWalk(g)
  BY DEF walk
<1>10. Emit(st, q) = walk[N].emitted
  BY DEF Emit, N, start
<1> HIDE DEF walk
<1>11. IsWalk(walk)
  <2> HIDE DEF IsWalk
  <2> QED
    BY <1>8, <1>9
<1>12. \A n \in 0 .. N : walk[n] = IF n = 0 THEN start ELSE WalkStep(st, q, walk[n - 1])
  BY <1>11
<1> HIDE DEF IsWalk
<1> DEFINE Kept == {n \in 0 .. N : Walked(st, q, walk[n], n)}
<1>13. 0 \in Kept
  BY <1>1, <1>2, <1>12
<1>14. ASSUME NEW n \in 1 .. N, n - 1 \in Kept PROVE n \in Kept
  <2>1. n - 1 \in Nat /\ (n - 1) + 1 = n /\ n \in 0 .. N /\ n # 0
    BY <1>1
  <2>2. Walked(st, q, walk[n - 1], n - 1) /\ walk[n] = WalkStep(st, q, walk[n - 1])
    BY <1>12, <1>14, <2>1
  <2>3. walk[n - 1] \in Walks(st)
    BY <2>2 DEF Walked
  <2>4. Walked(st, q, walk[n], (n - 1) + 1)
    BY <2>1, <2>2, <2>3, WalkGoesOn
  <2> QED
    BY <2>1, <2>4
<1>15. N \in Kept
  <2> HIDE DEF Kept
  <2> QED
    BY <1>1, <1>13, <1>14, LoopInduction
<1> DEFINE at == walk[N].at
<1>16. Walked(st, q, walk[N], N)
  BY <1>15
<1>17. at = NoIndex
  <2> SUFFICES ASSUME at # NoIndex PROVE FALSE
    OBVIOUS
  <2>1. at \in StoredAddresses(st) /\ Cardinality(AllBefore(st, at)) = N
    BY <1>16 DEF Walked, Walks
  <2>2. at \notin AllBefore(st, at) /\ AllBefore(st, at) \in SUBSET StoredAddresses(st)
    BY <2>1, AddressesAreStored, AddressesOrdered DEF AllBefore
  <2> QED
    BY <1>1, <2>1, <2>2, FS_Subset DEF N
<1> QED
  BY <1>10, <1>16, <1>17 DEF Walked

-----------------------------------------------------------------------------
(* The order of a query.                                                    *)

QueryStates ==
    [filter : Filters \cup {Nobody}, filterObject : Filters \cup {Nobody}, invertFilter : BOOLEAN,
     sort : Sorts \cup {Nobody}, sortObject : Sorts \cup {Nobody}, invertSort : BOOLEAN]

RankOf(st, q, a) == Rank[q.sort][ViewedItem(st, a)]

\* One stack may be listed before another.
InPlace(st, q, a, b) ==
    IF q.invertSort THEN RankOf(st, q, a) >= RankOf(st, q, b)
    ELSE RankOf(st, q, a) <= RankOf(st, q, b)

InPlaces(st, q, list) ==
    q.sort # Nobody => \A m, n \in DOMAIN list : m < n => InPlace(st, q, list[m], list[n])

\* A list of stacks that are there, each once, in the order of the query.
IsListing(st, q, list) ==
    /\ ListsOnce(list, Listed(list))
    /\ Listed(list) \subseteq StoredAddresses(st)
    /\ InPlaces(st, q, list)

\* A comparator compares numbers.
LEMMA RanksNat ==
    ASSUME NEW st, Sound(st), NEW q \in QueryStates, q.sort # Nobody, NEW a \in StoredAddresses(st)
    PROVE  RankOf(st, q, a) \in Nat
<1>1. a[1] \in DOMAIN st.entries
  BY StoredIs DEF StacksOf
<1>2. ViewedItem(st, a) \in Items
  BY <1>1 DEF ViewedItem, Sound, IsStorage
<1>3. q.sort \in Sorts
  BY DEF QueryStates
<1> QED
  BY <1>2, <1>3, QueriesAssumption DEF RankOf

\* The answer of the comparator puts two stacks in place.
LEMMA Comparing ==
    ASSUME NEW st, Sound(st), NEW q \in QueryStates, q.sort # Nobody,
           NEW a \in StoredAddresses(st), NEW b \in StoredAddresses(st)
    PROVE  /\ CompareAddresses(st, q, a, b) => InPlace(st, q, a, b)
           /\ ~CompareAddresses(st, q, a, b) => InPlace(st, q, b, a)
           /\ \A c \in StoredAddresses(st) :
                 InPlace(st, q, a, b) /\ InPlace(st, q, b, c) => InPlace(st, q, a, c)
<1>1. RankOf(st, q, a) \in Nat /\ RankOf(st, q, b) \in Nat
  BY RanksNat
<1>2. \A c \in StoredAddresses(st) : RankOf(st, q, c) \in Nat
  BY RanksNat
<1>3. CompareAddresses(st, q, a, b) <=> (RankOf(st, q, a) < RankOf(st, q, b)) # q.invertSort
  BY DEF CompareAddresses, RankOf
<1>4. q.invertSort \in BOOLEAN
  BY DEF QueryStates
<1>5. CompareAddresses(st, q, a, b) <=>
        IF q.invertSort THEN ~(RankOf(st, q, a) < RankOf(st, q, b))
        ELSE RankOf(st, q, a) < RankOf(st, q, b)
  BY <1>3, <1>4
<1> QED
  BY <1>1, <1>2, <1>5 DEF InPlace

\* Such a list is as ListsStacksInOrder has it.
LEMMA ListingIsSound ==
    ASSUME NEW st, Sound(st), WithinBounds(st), NEW q \in QueryStates, NEW list, IsListing(st, q, list)
    PROVE  /\ Listed(list) \subseteq AddressesOf(st)
           /\ Cardinality(Listed(list)) = Len(list)
           /\ Sorted(st, q, list)
<1>1. Listed(list) \subseteq AddressesOf(st)
  BY AddressesAreStored DEF IsListing
<1>2. Cardinality(Listed(list)) = Len(list)
  BY ListsOnceCounts DEF IsListing
<1>3. Sorted(st, q, list)
  BY DEF IsListing, InPlaces, InPlace, RankOf, Sorted
<1> QED
  BY <1>1, <1>2, <1>3

\* It stays one while its stacks are there and keep their items.
LEMMA ListingCarries ==
    ASSUME NEW st, NEW tt, NEW q, NEW list, IsListing(st, q, list), KeepsItems(st, tt),
           Listed(list) \subseteq StoredAddresses(tt)
    PROVE  IsListing(tt, q, list)
<1>1. ASSUME NEW a \in Listed(list) PROVE RankOf(tt, q, a) = RankOf(st, q, a)
  <2>1. a[1] \in DOMAIN st.entries /\ a[1] \in DOMAIN tt.entries
    BY StoredIs DEF IsListing, StacksOf
  <2> QED
    BY <2>1 DEF KeepsItems, RankOf, ViewedItem
<1>2. \A n \in DOMAIN list : list[n] \in Listed(list)
  BY DEF Listed
<1>3. \A m, n \in DOMAIN list : InPlace(st, q, list[m], list[n]) <=> InPlace(tt, q, list[m], list[n])
  BY <1>1, <1>2 DEF InPlace
<1> QED
  BY <1>3 DEF IsListing, InPlaces

\* A query finds what it shows, in its order.
LEMMA QueryFinds ==
    ASSUME NEW st, Sound(st), WithinBounds(st), Filling(st), NEW q \in QueryStates,
           NEW list \in QueryAllAddresses(st, q)
    PROVE  IsListing(st, q, list) /\ Listed(list) = Shown(st, q)
<1> DEFINE found == IF q.filter # Nobody THEN Emit(st, q) ELSE GetAllAddresses(st)
<1>1. AddressesOf(st) = StoredAddresses(st) /\ AddressesOf(st) \subseteq Int \X Int
      /\ IsFiniteSet(AddressesOf(st))
  BY AddressesAreStored
<1>2. Shown(st, q) \subseteq StoredAddresses(st)
  BY <1>1 DEF Shown
<1>3. ListsOnce(found, Shown(st, q))
  <2>1. CASE q.filter # Nobody
    <3>1. Passing(st, q, StoredAddresses(st)) = Shown(st, q)
      BY <1>1, <2>1 DEF Passing, Shown, TestIterator
    <3> QED
      BY <2>1, <3>1, EmitIs
  <2>2. CASE q.filter = Nobody
    <3> DEFINE A == AddressesOf(st)
               row == InOrder(A)
    <3>1. Shown(st, q) = A
      BY <2>2 DEF Shown
    <3>2. /\ Cardinality(A) \in Nat
          /\ \A n \in 1 .. Cardinality(A) : row[n] \in A
          /\ \A a \in A : \E n \in 1 .. Cardinality(A) : row[n] = a
          /\ \A m, n \in 1 .. Cardinality(A) : row[m] = row[n] => m = n
      BY <1>1, InOrderIs
    <3>3. row = [n \in 1 .. Cardinality(A) |-> row[n]]
      <4> DEFINE pick(n) == CHOOSE a \in A : Cardinality({b \in A : AddressBefore(b, a)}) = n - 1
      <4>1. row = [n \in 1 .. Cardinality(A) |-> pick(n)]
        BY DEF InOrder
      <4> HIDE DEF pick, A, row
      <4> QED
        BY <4>1
    <3> HIDE DEF A, row
    <3>4. row \in [1 .. Cardinality(A) -> Int \X Int] /\ DOMAIN row = 1 .. Cardinality(A)
      BY <1>1, <3>2, <3>3 DEF A
    <3>5. row \in Seq(Int \X Int)
      BY <3>2, <3>4
    <3>6. Listed(row) = A
      BY <3>2, <3>4 DEF Listed
    <3>7. found = row
      BY <2>2 DEF GetAllAddresses, row, A
    <3> HIDE DEF found
    <3> QED
      BY <3>1, <3>2, <3>4, <3>5, <3>6, <3>7 DEF ListsOnce
  <2> QED
    BY <2>1, <2>2
<1>4. CASE q.sort = Nobody
  <2>1. list = found
    BY <1>4 DEF QueryAllAddresses
  <2> HIDE DEF found
  <2> QED
    BY <1>2, <1>3, <1>4, <2>1 DEF IsListing, InPlaces, ListsOnce
<1>5. CASE q.sort # Nobody
  <2>1. list \in SortedLists(st, q, found)
    BY <1>5 DEF QueryAllAddresses
  <2> HIDE DEF found
  <2>2. /\ list \in [DOMAIN found -> Listed(found)] /\ Listed(list) = Listed(found)
        /\ \A m, n \in DOMAIN list :
              m < n => CompareAddresses(st, q, list[m], list[n])
                       \/ ~CompareAddresses(st, q, list[n], list[m])
    BY <2>1 DEF SortedLists
  <2>3. /\ DOMAIN found = 1 .. Len(found) /\ Len(found) \in Nat
        /\ Listed(found) = Shown(st, q) /\ Cardinality(Shown(st, q)) = Len(found)
    BY <1>3, ListsOnceCounts DEF ListsOnce
  <2>4. DOMAIN list = 1 .. Len(found) /\ list \in [1 .. Len(found) -> Shown(st, q)]
    BY <2>2, <2>3
  <2>5. list \in Seq(Int \X Int)
    BY <1>1, <1>2, <2>3, <2>4
  <2>6. \A m, n \in DOMAIN list : list[m] = list[n] => m = n
    <3>1. IsFiniteSet(1 .. Len(found)) /\ Cardinality(1 .. Len(found)) = Len(found)
      BY <2>3, UpTo
    <3>2. list \in Surjection(1 .. Len(found), Shown(st, q))
      BY <2>2, <2>3, <2>4 DEF Surjection, Listed
    <3>3. list \in Injection(1 .. Len(found), Shown(st, q))
      BY <2>3, <3>1, <3>2, FS_Surjection
    <3> QED
      BY <2>4, <3>3 DEF Injection, IsInjective
  <2>7. ListsOnce(list, Listed(list)) /\ Listed(list) = Shown(st, q)
    BY <2>2, <2>3, <2>5, <2>6 DEF ListsOnce
  <2>8. \A n \in DOMAIN list : list[n] \in StoredAddresses(st)
    BY <1>2, <2>4
  <2>9. InPlaces(st, q, list)
    BY <1>5, <2>2, <2>8, Comparing DEF InPlaces
  <2> QED
    BY <1>2, <2>7, <2>9 DEF IsListing
<1> QED
  BY <1>4, <1>5

-----------------------------------------------------------------------------
(* The list is patched.                                                     *)

\* The first place whose stack does not come before another.
LEMMA LowerBoundIs ==
    ASSUME NEW st, NEW q, NEW list \in Seq(Int \X Int), NEW a
    PROVE  /\ LowerBound(st, q, list, a) \in 1 .. Len(list) + 1
           /\ \A m \in DOMAIN list :
                 m < LowerBound(st, q, list, a) => CompareAddresses(st, q, list[m], a)
           /\ \A m \in DOMAIN list :
                 m = LowerBound(st, q, list, a) => ~CompareAddresses(st, q, list[m], a)
<1> DEFINE after == {n \in DOMAIN list : ~CompareAddresses(st, q, list[n], a)}
           L == Len(list)
<1>1. L \in Nat /\ DOMAIN list = 1 .. L
  OBVIOUS
<1>2. \A m \in DOMAIN list : m \in after <=> ~CompareAddresses(st, q, list[m], a)
  OBVIOUS
<1>3. after \in SUBSET (1 .. L) /\ IsFiniteSet(1 .. L) /\ after \subseteq Int
  BY <1>1, UpTo
<1>4. LowerBound(st, q, list, a) = IF after = {} THEN L + 1 ELSE Least(after)
  BY DEF LowerBound
<1> HIDE DEF after, L
<1>5. CASE after = {}
  BY <1>1, <1>2, <1>4, <1>5 DEF L
<1>6. CASE after # {}
  <2>1. IsFiniteSet(after) /\ after \subseteq Int
    <3>1. IsFiniteSet(after)
      BY ONLY <1>3, FS_Subset
    <3> QED
      BY <1>3, <3>1
  <2>2. Least(after) \in after /\ \A m \in after : Least(after) <= m
    BY <1>6, <2>1, LeastIs
  <2>3. LowerBound(st, q, list, a) = Least(after)
    BY <1>4, <1>6
  <2>4. \A m \in DOMAIN list : m < Least(after) => m \notin after
    <3> SUFFICES ASSUME NEW m \in DOMAIN list, m < Least(after), m \in after PROVE FALSE
      OBVIOUS
    <3>1. Least(after) \in Int /\ m \in Int /\ Least(after) <= m
      BY <1>3, <2>2
    <3> QED
      BY <3>1
  <2>5. Least(after) \in 1 .. L + 1 /\ Least(after) \in DOMAIN list
    <3>1. Least(after) \in 1 .. L
      BY <1>3, <2>2
    <3> QED
      BY <1>1, <3>1
  <2> QED
    BY <1>2, <2>2, <2>3, <2>4, <2>5 DEF L
<1> QED
  BY <1>5, <1>6

\* A stack that is put in its place leaves all in place.
LEMMA InsertionInPlace ==
    ASSUME NEW st, NEW q, NEW list \in Seq(Int \X Int), NEW n \in 1 .. Len(list) + 1,
           NEW a \in Int \X Int,
           \A j, k \in DOMAIN list : j < k => InPlace(st, q, list[j], list[k]),
           \A j \in DOMAIN list : j < n => InPlace(st, q, list[j], a),
           \A j \in DOMAIN list : ~(j < n) => InPlace(st, q, a, list[j])
    PROVE  \A j, k \in DOMAIN Inserted(list, n, a) :
              j < k => InPlace(st, q, Inserted(list, n, a)[j], Inserted(list, n, a)[k])
<1> DEFINE p == Inserted(list, n, a)
<1>1. /\ DOMAIN p = 1 .. Len(list) + 1 /\ p[n] = a
      /\ \A l \in DOMAIN list : p[Shift(l, n)] = list[l]
      /\ \A m \in 1 .. Len(list) + 1 : m = n \/ \E l \in DOMAIN list : m = Shift(l, n)
  BY InsertedIs
<1>2. DOMAIN list \subseteq Int /\ n \in Int
  OBVIOUS
<1> HIDE DEF p
<1> SUFFICES ASSUME NEW j \in DOMAIN p, NEW k \in DOMAIN p, j < k
             PROVE  InPlace(st, q, p[j], p[k])
  BY DEF p
<1>3. CASE j = n
  <2>3. k # n /\ k \in 1 .. Len(list) + 1
    BY <1>1, <1>2, <1>3
  <2>1. PICK l \in DOMAIN list : k = Shift(l, n)
    BY <1>1, <2>3
  <2>2. ~(l < n)
    BY <1>2, <1>3, <2>1 DEF Shift
  <2> QED
    BY <1>1, <1>3, <2>1, <2>2
<1>4. CASE k = n
  <2>3. j # n /\ j \in 1 .. Len(list) + 1
    BY <1>1, <1>2, <1>4
  <2>1. PICK l \in DOMAIN list : j = Shift(l, n)
    BY <1>1, <2>3
  <2>2. l < n
    BY <1>2, <1>4, <2>1 DEF Shift
  <2> QED
    BY <1>1, <1>4, <2>1, <2>2
<1>5. CASE j # n /\ k # n
  <2>1. PICK l \in DOMAIN list : j = Shift(l, n)
    BY <1>1, <1>5
  <2>2. PICK h \in DOMAIN list : k = Shift(h, n)
    BY <1>1, <1>5
  <2>3. l < h
    BY <1>2, <2>1, <2>2, SMTT(30) DEF Shift
  <2> QED
    BY <1>1, <2>1, <2>2, <2>3
<1> QED
  BY <1>3, <1>4, <1>5

\* A stack that is there is added to a list.
LEMMA AddingKeeps ==
    ASSUME NEW st, Sound(st), NEW q \in QueryStates, NEW list, IsListing(st, q, list),
           NEW a \in StoredAddresses(st), a \in Int \X Int
    PROVE  /\ IsListing(st, q, AddToSortOrder(st, q, list, a))
           /\ Listed(list) \subseteq Listed(AddToSortOrder(st, q, list, a))
           /\ q.filter = Nobody => a \in Listed(AddToSortOrder(st, q, list, a))
<1> DEFINE l == AddToSortOrder(st, q, list, a)
<1>1. CASE IsAddressFiltered(st, q, a) \/ a \in Listed(list)
  <2>1. l = list
    BY <1>1 DEF AddToSortOrder
  <2> HIDE DEF l
  <2> QED
    BY <1>1, <2>1 DEF IsAddressFiltered, l
<1>2. CASE ~(IsAddressFiltered(st, q, a) \/ a \in Listed(list))
  <2> DEFINE n == IF q.sort # Nobody THEN LowerBound(st, q, list, a) ELSE Len(list) + 1
  <2>1. list \in Seq(Int \X Int) /\ ListsOnce(list, Listed(list)) /\ a \notin Listed(list)
    BY <1>2 DEF IsListing, ListsOnce
  <2>2. n \in 1 .. Len(list) + 1
    BY <2>1, LowerBoundIs, SMTT(30)
  <2>3. l = Inserted(list, n, a)
    BY <1>2, <2>1, AppendInserts DEF AddToSortOrder
  <2>4. q.sort # Nobody => n = LowerBound(st, q, list, a)
    OBVIOUS
  <2> HIDE DEF n, l
  <2>5. ListsOnce(l, Listed(list) \cup {a})
    BY <2>1, <2>2, <2>3, InsertionListsOnce
  <2>6. Listed(l) = Listed(list) \cup {a}
    BY <2>5 DEF ListsOnce
  <2>7. InPlaces(st, q, l)
    <3> SUFFICES ASSUME q.sort # Nobody PROVE \A j, k \in DOMAIN l : j < k => InPlace(st, q, l[j], l[k])
      BY DEF InPlaces
    <3>1. /\ \A m \in DOMAIN list : m < n => CompareAddresses(st, q, list[m], a)
          /\ \A m \in DOMAIN list : m = n => ~CompareAddresses(st, q, list[m], a)
      BY <2>1, <2>4, LowerBoundIs
    <3>2. \A m \in DOMAIN list : list[m] \in StoredAddresses(st)
      BY DEF IsListing, Listed
    <3>3. \A j, k \in DOMAIN list : j < k => InPlace(st, q, list[j], list[k])
      BY DEF IsListing, InPlaces
    <3>4. \A m \in DOMAIN list : m < n => InPlace(st, q, list[m], a)
      BY <3>1, <3>2, Comparing
    <3>5. ASSUME NEW m \in DOMAIN list, ~(m < n) PROVE InPlace(st, q, a, list[m])
      <4>1. n \in DOMAIN list /\ (m = n \/ n < m)
        BY <2>1, <2>2, <3>5
      <4>2. InPlace(st, q, a, list[n])
        BY <3>1, <3>2, <4>1, Comparing
      <4>3. n < m => InPlace(st, q, list[n], list[m])
        BY <3>3, <4>1
      <4> QED
        BY <3>2, <4>1, <4>2, <4>3, Comparing
    <3>6. \A j, k \in DOMAIN Inserted(list, n, a) :
              j < k => InPlace(st, q, Inserted(list, n, a)[j], Inserted(list, n, a)[k])
      BY <2>1, <2>2, <3>3, <3>4, <3>5, InsertionInPlace
    <3> QED
      BY <2>3, <3>6
  <2>8. IsListing(st, q, l)
    BY <2>5, <2>6, <2>7 DEF IsListing
  <2> QED
    BY <2>6, <2>8 DEF l
<1> QED
  BY <1>1, <1>2

\* What is taken off at a place moves the rest back by one.
LEMMA RemovedIs ==
    ASSUME NEW list \in Seq(Int \X Int), NEW n \in DOMAIN list
    PROVE  /\ RemoveAt(list, n) \in Seq(Int \X Int)
           /\ DOMAIN RemoveAt(list, n) = 1 .. Len(list) - 1
           /\ \A m \in 1 .. Len(list) - 1 :
                 /\ RemoveAt(list, n)[m] = list[Shift(m, n)]
                 /\ Shift(m, n) \in DOMAIN list /\ Shift(m, n) # n
           /\ \A l \in DOMAIN list : l # n => \E m \in 1 .. Len(list) - 1 : l = Shift(m, n)
<1> DEFINE L == Len(list)
           p == RemoveAt(list, n)
<1>1. L \in Nat /\ DOMAIN list = 1 .. L /\ n \in 1 .. L /\ \A m \in 1 .. L : list[m] \in Int \X Int
  OBVIOUS
<1>2. p = [m \in 1 .. L - 1 |-> IF m < n THEN list[m] ELSE list[m + 1]]
  BY DEF RemoveAt
<1> HIDE DEF L, p
<1>3. ASSUME NEW m \in 1 .. L - 1
      PROVE  p[m] = list[Shift(m, n)] /\ Shift(m, n) \in 1 .. L /\ Shift(m, n) # n
  BY <1>1, <1>2 DEF Shift
<1>4. p \in Seq(Int \X Int) /\ DOMAIN p = 1 .. L - 1
  <2>1. DOMAIN p = 1 .. L - 1 /\ L - 1 \in Nat /\ p = [m \in 1 .. L - 1 |-> p[m]]
    BY <1>1, <1>2
  <2>2. \A m \in 1 .. L - 1 : p[m] \in Int \X Int
    BY <1>1, <1>3
  <2>3. p \in [1 .. L - 1 -> Int \X Int]
    BY <2>1, <2>2
  <2>4. L - 1 \in Nat
    BY <2>1
  <2>5. p \in Seq(Int \X Int)
    <3> DEFINE k == L - 1
    <3>1. k \in Nat /\ p \in [1 .. k -> Int \X Int]
      BY <2>3, <2>4
    <3> HIDE DEF k
    <3> QED
      BY ONLY <3>1
  <2> QED
    BY <2>1, <2>5
<1>5. ASSUME NEW l \in 1 .. L, l # n PROVE \E m \in 1 .. L - 1 : l = Shift(m, n)
  <2>1. CASE l < n
    BY <1>1, <2>1 DEF Shift
  <2>2. CASE l > n
    <3>1. l - 1 \in 1 .. L - 1 /\ ~(l - 1 < n) /\ l = (l - 1) + 1
      BY <1>1, <2>2
    <3> QED
      BY <3>1 DEF Shift
  <2> QED
    BY <1>1, <1>5, <2>1, <2>2
<1> QED
  BY <1>1, <1>3, <1>4, <1>5 DEF L, p

\* A stack is taken off a list.
LEMMA RemovingKeeps ==
    ASSUME NEW st, NEW q, NEW w, IsListing(st, q, w.list), NEW a
    PROVE  /\ IsListing(st, q, RemoveFromList(w, a).list)
           /\ Listed(RemoveFromList(w, a).list) = Listed(w.list) \ {a}
<1>1. CASE a \notin Listed(w.list)
  <2>1. RemoveFromList(w, a).list = w.list
    BY <1>1 DEF RemoveFromList
  <2> QED
    BY <1>1, <2>1
<1>2. CASE a \in Listed(w.list)
  <2> DEFINE list == w.list
             n == CHOOSE n \in DOMAIN list : list[n] = a
             p == RemoveAt(list, n)
  <2>1. RemoveFromList(w, a).list = p
    BY <1>2 DEF RemoveFromList
  <2>2. n \in DOMAIN list /\ list[n] = a
    BY <1>2 DEF Listed
  <2>3. list \in Seq(Int \X Int) /\ \A j, k \in DOMAIN list : list[j] = list[k] => j = k
    BY DEF IsListing, ListsOnce
  <2> HIDE DEF n
  <2>4. /\ p \in Seq(Int \X Int)
        /\ \A m \in DOMAIN p : /\ p[m] = list[Shift(m, n)]
                               /\ Shift(m, n) \in DOMAIN list /\ Shift(m, n) # n
        /\ \A l \in DOMAIN list : l # n => \E m \in DOMAIN p : l = Shift(m, n)
    <3>1. /\ p \in Seq(Int \X Int)
          /\ DOMAIN p = 1 .. Len(list) - 1
          /\ \A m \in 1 .. Len(list) - 1 :
                /\ p[m] = list[Shift(m, n)]
                /\ Shift(m, n) \in DOMAIN list /\ Shift(m, n) # n
          /\ \A l \in DOMAIN list : l # n => \E m \in 1 .. Len(list) - 1 : l = Shift(m, n)
      BY <2>2, <2>3, RemovedIs
    <3> HIDE DEF p, list
    <3> QED
      BY <3>1
  <2>5. DOMAIN p \subseteq Int /\ n \in Int
    BY <2>2, <2>3, <2>4
  <2> HIDE DEF p, list
  <2>6. \A j, k \in DOMAIN p : j < k => Shift(j, n) < Shift(k, n)
    BY <2>5 DEF Shift
  <2>7. \A j, k \in DOMAIN p : Shift(j, n) = Shift(k, n) => j = k
    BY <2>5 DEF Shift
  <2>8. Listed(p) = Listed(list) \ {a}
    <3>1. ASSUME NEW m \in DOMAIN p PROVE p[m] \in Listed(list) /\ p[m] # a
      BY <2>2, <2>3, <2>4 DEF Listed
    <3>2. ASSUME NEW l \in DOMAIN list, list[l] # a PROVE \E m \in DOMAIN p : list[l] = p[m]
      <4>1. PICK m \in DOMAIN p : l = Shift(m, n)
        BY <2>2, <2>4, <3>2
      <4> QED
        BY <2>4, <4>1
    <3> QED
      BY <3>1, <3>2 DEF Listed
  <2>9. ListsOnce(p, Listed(p))
    BY <2>3, <2>4, <2>7 DEF ListsOnce
  <2>10. InPlaces(st, q, p)
    <3>1. q.sort # Nobody => \A j, k \in DOMAIN list : j < k => InPlace(st, q, list[j], list[k])
      BY DEF IsListing, InPlaces, list
    <3> QED
      BY <2>4, <2>6, <3>1 DEF InPlaces
  <2>11. IsListing(st, q, p)
    BY <2>8, <2>9, <2>10 DEF IsListing, list
  <2> QED
    BY <2>1, <2>8, <2>11 DEF list
<1> QED
  BY <1>1, <1>2

-----------------------------------------------------------------------------
(* A batch patches the list.                                                *)

WidgetLists == [list : Seq(Int \X Int), broken : BOOLEAN]

\* Each address leaves a list.
LEMMA PatchedByTyped ==
    ASSUME NEW w \in WidgetLists, NEW st, NEW q, NEW batch, NEW a \in Int \X Int
    PROVE  PatchedBy(w, st, q, batch, a) \in WidgetLists
<1> DEFINE list == w.list
<1>1. list \in Seq(Int \X Int) /\ w.broken \in BOOLEAN
  BY DEF WidgetLists
<1>2. AddToSortOrder(st, q, list, a) \in Seq(Int \X Int)
  <2>1. LowerBound(st, q, list, a) \in 1 .. Len(list) + 1
    BY <1>1, LowerBoundIs
  <2>2. Inserted(list, LowerBound(st, q, list, a), a) \in Seq(Int \X Int)
    BY <1>1, <2>1, InsertedIs
  <2>3. Append(list, a) \in Seq(Int \X Int)
    BY <1>1
  <2> QED
    BY <1>1, <2>2, <2>3 DEF AddToSortOrder
<1>3. RemoveFromList(w, a) \in WidgetLists
  <2> DEFINE n == CHOOSE n \in DOMAIN list : list[n] = a
  <2>1. CASE a \in Listed(list)
    <3>1. n \in DOMAIN list
      BY <2>1 DEF Listed
    <3>2. RemoveAt(list, n) \in Seq(Int \X Int)
      <4> HIDE DEF n, list
      <4> QED
        BY <1>1, <3>1, RemovedIs
    <3>3. RemoveFromList(w, a) = [list |-> RemoveAt(list, n), broken |-> w.broken]
      BY <2>1 DEF RemoveFromList
    <3> HIDE DEF n, list
    <3> QED
      BY <1>1, <3>2, <3>3 DEF WidgetLists
  <2>2. CASE a \notin Listed(list)
    BY <1>1, <2>2 DEF RemoveFromList, WidgetLists
  <2> QED
    BY <2>1, <2>2
<1> QED
  BY <1>1, <1>2, <1>3 DEF PatchedBy, WidgetLists

\* The loop of Patched: the list after each of the addresses.
LEMMA PatchedRuns ==
    ASSUME NEW w \in WidgetLists, NEW st, NEW q, NEW batch,
           TouchedBy(batch) \subseteq Int \X Int, IsFiniteSet(TouchedBy(batch))
    PROVE  \E f : LET A == TouchedBy(batch)
                      N == Cardinality(A)
                  IN  /\ f[0] = w /\ f[N] \in WidgetLists
                      /\ \A n \in 1 .. N : f[n] = PatchedBy(f[n - 1], st, q, batch, InOrder(A)[n])
                      /\ Patched(w, st, q, batch) = f[N]
<1> DEFINE A == TouchedBy(batch)
           N == Cardinality(A)
           W == WidgetLists
           next(n, x) == PatchedBy(x, st, q, batch, InOrder(A)[n])
           Runs(f) == f = [n \in 0 .. N |-> IF n = 0 THEN w ELSE PatchedBy(f[n - 1], st, q, batch, InOrder(A)[n])]
           step == [x \in (1 .. N) \X W |-> next(x[1], x[2])]
<1>1. N \in Nat /\ \A n \in 1 .. N : InOrder(A)[n] \in Int \X Int
  BY InOrderIs
<1>2. \A n \in 1 .. N : \A x \in W : next(n, x) \in W
  BY <1>1, PatchedByTyped
<1>3. Runs(w) = Runs(w) /\ \A f : Runs(f) <=> f = [n \in 0 .. N |-> IF n = 0 THEN w ELSE next(n, f[n - 1])]
  OBVIOUS
<1> DEFINE after[n \in 0 .. N] ==
             IF n = 0 THEN w ELSE PatchedBy(after[n - 1], st, q, batch, InOrder(A)[n])
<1>4. after = CHOOSE g : Runs(g)
  BY DEF after
<1>5. Patched(w, st, q, batch) = after[N]
  BY DEF Patched
<1> HIDE DEF after, Runs, next, N, W
<1>6. step \in [(1 .. N) \X W -> W]
  BY <1>2
<1>7. \A k \in 1 .. N : \A x \in W : step[<<k, x>>] = next(k, x)
  OBVIOUS
<1> HIDE DEF step
<1>8. w \in W
  BY DEF W
<1>9. PICK f \in [0 .. N -> W] : LoopOf(f, N, w, step)
  BY <1>1, <1>6, <1>8, LoopRuns
<1>10. \A n \in 0 .. N : n # 0 => n \in 1 .. N /\ n - 1 \in 0 .. N
  BY <1>1
<1>11. \A n \in 0 .. N : f[n] = IF n = 0 THEN w ELSE next(n, f[n - 1])
  BY <1>7, <1>9, <1>10 DEF LoopOf
<1>12. Runs(f)
  <2>1. f = [n \in 0 .. N |-> f[n]]
    BY <1>9
  <2>2. f = [n \in 0 .. N |-> IF n = 0 THEN w ELSE next(n, f[n - 1])]
    BY <1>11, <2>1
  <2> QED
    BY <1>3, <2>2
<1>13. Runs(after)
  BY <1>4, <1>12
<1>14. \A n \in 0 .. N : after[n] = IF n = 0 THEN w ELSE next(n, after[n - 1])
  BY <1>3, <1>13
<1> DEFINE Kept == {n \in 0 .. N : after[n] \in W}
<1>15. 0 \in Kept /\ after[0] = w
  BY <1>1, <1>8, <1>14
<1>16. ASSUME NEW n \in 1 .. N, n - 1 \in Kept PROVE n \in Kept
  <2>1. n \in 0 .. N /\ n # 0
    BY <1>1
  <2> QED
    BY <1>2, <1>14, <1>16, <2>1
<1>17. N \in Kept
  <2> HIDE DEF Kept
  <2>1. 0 \in Kept
    BY <1>15
  <2> QED
    BY <1>1, <1>16, <2>1, LoopInduction
<1>18. \A n \in 1 .. N : after[n] = PatchedBy(after[n - 1], st, q, batch, InOrder(A)[n])
  <2>1. \A n \in 1 .. N : n \in 0 .. N /\ n # 0
    BY <1>1
  <2> QED
    BY <1>14, <2>1 DEF next
<1>19. after[N] \in WidgetLists
  BY <1>17 DEF W
<1> QED
  BY <1>5, <1>15, <1>18, <1>19 DEF N

\* What comes is added, unless the filter takes it.
LEMMA AdditionsPatched ==
    ASSUME NEW st, Sound(st), NEW q \in QueryStates, NEW batch, ~IsRemovalEvent(batch),
           TouchedBy(batch) \subseteq Int \X Int, IsFiniteSet(TouchedBy(batch)),
           TouchedBy(batch) \subseteq StoredAddresses(st),
           NEW w \in WidgetLists, IsListing(st, q, w.list)
    PROVE  /\ Patched(w, st, q, batch) \in WidgetLists
           /\ IsListing(st, q, Patched(w, st, q, batch).list)
           /\ Listed(w.list) \subseteq Listed(Patched(w, st, q, batch).list)
           /\ q.filter = Nobody => TouchedBy(batch) \subseteq Listed(Patched(w, st, q, batch).list)
<1> DEFINE A == TouchedBy(batch)
           N == Cardinality(A)
<1>1. /\ N \in Nat /\ Done(A, 0) = {} /\ Done(A, N) = A
      /\ \A n \in 1 .. N : /\ Done(A, n) = Done(A, n - 1) \cup {InOrder(A)[n]}
                           /\ InOrder(A)[n] \in A
  BY DoneIs
<1>2. PICK f : /\ f[0] = w /\ f[N] \in WidgetLists
               /\ \A n \in 1 .. N : f[n] = PatchedBy(f[n - 1], st, q, batch, InOrder(A)[n])
               /\ Patched(w, st, q, batch) = f[N]
  BY PatchedRuns
<1>3. A \subseteq StoredAddresses(st) /\ A \subseteq Int \X Int
  OBVIOUS
<1> HIDE DEF A, N
<1> DEFINE KeptUpTo(n) == /\ IsListing(st, q, f[n].list)
                          /\ Listed(w.list) \subseteq Listed(f[n].list)
                          /\ q.filter = Nobody => Done(A, n) \subseteq Listed(f[n].list)
           Kept == {n \in 0 .. N : KeptUpTo(n)}
<1>4. 0 \in Kept
  <2>1. 0 \in 0 .. N /\ Done(A, 0) = {}
    BY <1>1
  <2> QED
    BY <1>2, <2>1
<1>5. ASSUME NEW n \in 1 .. N, n - 1 \in Kept PROVE n \in Kept
  <2> DEFINE a == InOrder(A)[n]
             l == f[n - 1].list
  <2>1. KeptUpTo(n - 1) /\ n \in 0 .. N
    BY <1>1, <1>5
  <2>2. a \in StoredAddresses(st) /\ a \in Int \X Int /\ Done(A, n) = Done(A, n - 1) \cup {a}
    BY <1>1, <1>3
  <2>3. f[n].list = AddToSortOrder(st, q, l, a)
    <3>1. f[n] = PatchedBy(f[n - 1], st, q, batch, a)
      BY <1>2
    <3> HIDE DEF a
    <3> QED
      BY ONLY <3>1, ~IsRemovalEvent(batch) DEF PatchedBy
  <2> HIDE DEF a, l
  <2>4. IsListing(st, q, l)
    BY <2>1 DEF l
  <2>5. /\ IsListing(st, q, AddToSortOrder(st, q, l, a))
        /\ Listed(l) \subseteq Listed(AddToSortOrder(st, q, l, a))
        /\ q.filter = Nobody => a \in Listed(AddToSortOrder(st, q, l, a))
    BY <2>2, <2>4, AddingKeeps
  <2>6. Listed(w.list) \subseteq Listed(l) /\ (q.filter = Nobody => Done(A, n - 1) \subseteq Listed(l))
    BY <2>1 DEF l
  <2>7. KeptUpTo(n)
    BY <2>2, <2>3, <2>5, <2>6
  <2> QED
    BY <2>1, <2>7
<1>6. N \in Kept
  <2> HIDE DEF Kept
  <2> QED
    BY <1>1, <1>4, <1>5, LoopInduction
<1> QED
  BY <1>1, <1>2, <1>6 DEF A

Lists(w, st, q) == IsListing(st, q, w.list)
Names(w) == Listed(w.list)
Others(w, a) == Listed(w.list) \ {a}

LEMMA RemovingLists ==
    ASSUME NEW st, NEW q, NEW w, NEW a, Lists(w, st, q)
    PROVE  /\ Lists(RemoveFromList(w, a), st, q)
           /\ Names(RemoveFromList(w, a)) = Others(w, a)
<1>1. IsListing(st, q, w.list)
  BY DEF Lists
<1>2. \A v : IsListing(st, q, v.list) =>
             /\ IsListing(st, q, RemoveFromList(v, a).list)
             /\ Listed(RemoveFromList(v, a).list) = Listed(v.list) \ {a}
  BY ONLY RemovingKeeps
<1> QED
  BY <1>1, <1>2 DEF Lists, Names, Others

\* What is named by a removal is taken off.
LEMMA RemovalsPatched ==
    ASSUME NEW st, NEW tt, NEW q, NEW batch, IsRemovalEvent(batch),
           TouchedBy(batch) \subseteq Int \X Int, IsFiniteSet(TouchedBy(batch)),
           NEW w \in WidgetLists, Lists(w, st, q)
    PROVE  /\ Patched(w, tt, q, batch) \in WidgetLists
           /\ Lists(Patched(w, tt, q, batch), st, q)
           /\ Names(Patched(w, tt, q, batch)) = Names(w) \ TouchedBy(batch)
<1> DEFINE A == TouchedBy(batch)
           N == Cardinality(A)
<1>1. /\ N \in Nat /\ Done(A, 0) = {} /\ Done(A, N) = A
      /\ \A n \in 1 .. N : Done(A, n) = Done(A, n - 1) \cup {InOrder(A)[n]}
  BY DoneIs
<1>2. PICK f : /\ f[0] = w /\ f[N] \in WidgetLists
               /\ \A n \in 1 .. N : f[n] = PatchedBy(f[n - 1], tt, q, batch, InOrder(A)[n])
               /\ Patched(w, tt, q, batch) = f[N]
  BY PatchedRuns
<1> HIDE DEF A, N
<1> DEFINE KeptUpTo(n) == /\ Lists(f[n], st, q)
                          /\ Names(f[n]) = Names(w) \ Done(A, n)
           Kept == {n \in 0 .. N : KeptUpTo(n)}
<1>3. 0 \in Kept
  <2>1. 0 \in 0 .. N /\ Done(A, 0) = {}
    BY <1>1
  <2> QED
    BY <1>2, <2>1
<1>4. ASSUME NEW n \in 1 .. N, n - 1 \in Kept PROVE n \in Kept
  <2> DEFINE a == InOrder(A)[n]
  <2>1. KeptUpTo(n - 1) /\ n \in 0 .. N
    BY <1>1, <1>4
  <2>2. Done(A, n) = Done(A, n - 1) \cup {a}
    BY <1>1
  <2>3. f[n] = RemoveFromList(f[n - 1], a)
    BY <1>2 DEF PatchedBy
  <2> HIDE DEF a
  <2>4. /\ Lists(RemoveFromList(f[n - 1], a), st, q)
        /\ Names(RemoveFromList(f[n - 1], a)) = Names(f[n - 1]) \ {a}
    <3> DEFINE g == f[n - 1]
    <3>1. Lists(g, st, q)
      BY <2>1
    <3> HIDE DEF g
    <3>2. Lists(RemoveFromList(g, a), st, q) /\ Names(RemoveFromList(g, a)) = Others(g, a)
      BY ONLY <3>1, RemovingLists
    <3> QED
      BY <3>2 DEF g, Names, Others
  <2>5. KeptUpTo(n)
    BY <2>1, <2>2, <2>3, <2>4
  <2> QED
    BY <2>1, <2>5
<1>5. N \in Kept
  <2> HIDE DEF Kept
  <2> QED
    BY <1>1, <1>3, <1>4, LoopInduction
<1> QED
  BY <1>1, <1>2, <1>5 DEF A

-----------------------------------------------------------------------------
(* The invariant of the widget.                                             *)

\* A widget that is constructed listens to its storage, and lists stacks of it
\* in order while no query is due.
WidgetInv ==
    /\ query \in QueryStates
    /\ itemStorage \in Storages \cup {Nobody}
    /\ listed \in Seq(Int \X Int) /\ broken \in BOOLEAN
    /\ listening = IF constructed = TRUE /\ itemStorage # Nobody THEN {itemStorage} ELSE {}
    /\ constructed = TRUE /\ itemStorage # Nobody /\ ~needsNewQuery
       => IsListing(store[itemStorage], query, listed)
    /\ constructed \in BOOLEAN /\ needsNewQuery \in BOOLEAN

\* What ListFollowsStorage says of a tick, and of what happens between two.
TickShows ==
    itemStorage # Nobody /\ needsNewQuery /\ ~needsNewQuery'
    => Listed(listed') = Shown(store[itemStorage], query)

Follows ==
    /\ itemStorage # Nobody /\ itemStorage' = itemStorage
    /\ constructed /\ constructed' /\ query.filter = Nobody
    /\ ~needsNewQuery /\ ~needsNewQuery'
    => /\ AddressesOf(store'[itemStorage]) \ AddressesOf(store[itemStorage]) \subseteq Listed(listed')
       /\ \A a \in Listed(listed) \ Listed(listed') :
             CopiesAt(store'[itemStorage], a) < CopiesAt(store[itemStorage], a)

\* The invariant has the list of ListsStacksInOrder.
LEMMA InvariantLists ==
    ASSUME StoreInv, WidgetInv
    PROVE  ListsStacksInOrder
<1> SUFFICES ASSUME itemStorage # Nobody, constructed, ~needsNewQuery
             PROVE  /\ Listed(listed) \subseteq AddressesOf(store[itemStorage])
                    /\ Cardinality(Listed(listed)) = Len(listed)
                    /\ Sorted(store[itemStorage], query, listed)
  BY DEF ListsStacksInOrder
<1>1. itemStorage \in Storages /\ query \in QueryStates /\ IsListing(store[itemStorage], query, listed)
  BY DEF WidgetInv
<1>2. Sound(store[itemStorage]) /\ WithinBounds(store[itemStorage])
  BY <1>1 DEF StoreInv
<1> QED
  BY <1>1, <1>2, ListingIsSound

\* A storage whose entries stay leaves the list.
LEMMA SameEntriesList ==
    ASSUME StoreInv, StoreInv', WidgetInv, UNCHANGED widgetVars,
           itemStorage # Nobody /\ constructed /\ ~needsNewQuery
           => store'[itemStorage].entries = store[itemStorage].entries
    PROVE  WidgetInv' /\ TickShows /\ Follows
<1>1. UNCHANGED <<query, itemStorage, constructed, listening, listed, needsNewQuery, broken>>
  BY DEF widgetVars
<1>2. CASE ~(itemStorage # Nobody /\ constructed /\ ~needsNewQuery)
  BY <1>1, <1>2 DEF WidgetInv, TickShows, Follows
<1>3. CASE itemStorage # Nobody /\ constructed /\ ~needsNewQuery
  <2> DEFINE st == store[itemStorage]
             tt == store'[itemStorage]
  <2>1. itemStorage \in Storages /\ IsListing(st, query, listed) /\ tt.entries = st.entries
    BY <1>3 DEF WidgetInv
  <2>2. Sound(st) /\ WithinBounds(st) /\ Sound(tt) /\ WithinBounds(tt)
    BY <1>1, <2>1 DEF StoreInv
  <2> HIDE DEF st, tt
  <2>3. StoredAddresses(tt) = StoredAddresses(st) /\ KeepsItems(st, tt)
    BY <2>1 DEF StoredAddresses, KeepsItems
  <2>4. IsListing(tt, query, listed)
    BY <2>1, <2>3, ListingCarries DEF IsListing
  <2>5. AddressesOf(tt) = AddressesOf(st)
    BY <2>2, <2>3, AddressesAreStored
  <2>6. WidgetInv'
    BY <1>1, <1>3, <2>4 DEF WidgetInv, tt
  <2>7. Follows
    BY <1>1, <2>5 DEF Follows, st, tt
  <2> QED
    BY <1>1, <1>3, <2>6, <2>7 DEF TickShows
<1> QED
  BY <1>2, <1>3

\* The widget hears the batch of a call.
LEMMA StorageChangesKeep ==
    ASSUME StoreInv, StoreInv', LiveInv, WidgetInv, AllHear, OnPostEventBatch,
           UNCHANGED <<query, itemStorage, constructed, listening>>
    PROVE  WidgetInv' /\ TickShows /\ Follows
<1>1. CASE Heard = {} \/ needsNewQuery
  <2>1. UNCHANGED <<listed, needsNewQuery, broken>>
    BY <1>1 DEF OnPostEventBatch
  <2>2. UNCHANGED widgetVars
    BY <2>1 DEF widgetVars
  <2>3. ASSUME itemStorage # Nobody, constructed, ~needsNewQuery
        PROVE  store'[itemStorage].entries = store[itemStorage].entries
    <3>1. itemStorage \in Storages /\ itemStorage \in listening /\ Heard = {}
      BY <1>1, <2>3 DEF WidgetInv
    <3>2. Hears(itemStorage)
      BY <3>1 DEF AllHear
    <3> QED
      BY <3>1, <3>2 DEF Heard, Hears
  <2> QED
    BY <2>2, <2>3, SameEntriesList
<1>2. CASE Heard # {} /\ ~needsNewQuery
  <2>1. PICK batch \in Heard :
          IF TooMany(batch) THEN needsNewQuery' = TRUE /\ UNCHANGED <<listed, broken>>
          ELSE \E w \in {Patched([list |-> listed, broken |-> broken], store'[itemStorage], query, batch)} :
                  /\ listed' = w.list /\ broken' = w.broken
                  /\ UNCHANGED needsNewQuery
    BY <1>2 DEF OnPostEventBatch
  <2> DEFINE st == store[itemStorage]
             tt == store'[itemStorage]
             A == TouchedBy(batch)
             v == [list |-> listed, broken |-> broken]
             w == Patched(v, tt, query, batch)
  <2>2. /\ itemStorage \in listening /\ tt.entries # st.entries
        /\ \E n \in DOMAIN log' : batch = log'[n] /\ log'[n].storage = itemStorage
    BY <2>1 DEF Heard
  <2>3. itemStorage \in Storages /\ itemStorage # Nobody /\ constructed /\ IsListing(st, query, listed)
    BY <1>2, <2>2 DEF WidgetInv
  <2>4. Tells(st, tt, batch)
    BY <2>2, <2>3 DEF AllHear, Hears
  <2>5. /\ Sound(st) /\ WithinBounds(st) /\ Filling(st) /\ Sound(tt) /\ WithinBounds(tt)
        /\ query \in QueryStates /\ v \in WidgetLists /\ v.list = listed
    BY <2>3 DEF StoreInv, LiveInv, Live, WidgetInv, WidgetLists
  <2>6. CASE TooMany(batch)
    BY <2>1, <2>6 DEF WidgetInv, TickShows, Follows
  <2>7. CASE ~TooMany(batch)
    <3>1. listed' = w.list /\ broken' = w.broken /\ needsNewQuery' = needsNewQuery
      BY <2>1, <2>7
    <3> HIDE DEF st, tt, v
    <3>2. A \subseteq Int \X Int /\ IsFiniteSet(A)
      <4>1. A \subseteq StoredAddresses(st) \/ A \subseteq StoredAddresses(tt)
        BY <2>4 DEF Tells, Comes, Goes
      <4> HIDE DEF A
      <4> QED
        BY <2>5, <4>1, AddressesAreStored, FS_Subset
    <3>3. AddressesOf(st) = StoredAddresses(st) /\ AddressesOf(tt) = StoredAddresses(tt)
      BY <2>5, AddressesAreStored
    <3>4. ASSUME w \in WidgetLists, IsListing(tt, query, w.list)
          PROVE  WidgetInv'
      <4> HIDE DEF w
      <4>1. broken' \in BOOLEAN /\ listed' \in Seq(Int \X Int)
        BY <3>1, <3>4 DEF WidgetLists
      <4>2. IsListing(tt, query, listed')
        BY <3>1, <3>4
      <4>3. IsListing(store'[itemStorage'], query', listed')
        BY <4>2 DEF tt
      <4> QED
        BY <3>1, <4>1, <4>3 DEF WidgetInv
    <3>5. CASE ~IsRemovalEvent(batch)
      <4>1. Comes(st, tt, A)
        BY <2>4, <3>5 DEF Tells, IsRemovalEvent
      <4>2. IsListing(tt, query, listed)
        BY <2>3, <4>1, ListingCarries DEF Comes, IsListing
      <4>3. A \subseteq StoredAddresses(tt) /\ DiffersWithin(st, tt, A)
        BY <4>1 DEF Comes
      <4>4. /\ w \in WidgetLists /\ IsListing(tt, query, w.list)
            /\ Listed(listed) \subseteq Listed(w.list)
            /\ query.filter = Nobody => A \subseteq Listed(w.list)
        BY <2>5, <3>2, <3>5, <4>2, <4>3, AdditionsPatched
      <4>5. StoredAddresses(tt) \ StoredAddresses(st) \subseteq A
        BY <4>3, StoredIs DEF DiffersWithin
      <4> HIDE DEF A, w
      <4>6. Follows
        BY <3>1, <3>3, <4>4, <4>5 DEF Follows, st, tt
      <4> QED
        BY <1>2, <3>4, <4>4, <4>6 DEF TickShows
    <3>6. CASE IsRemovalEvent(batch)
      <4>1. Goes(st, tt, A)
        BY <2>4, <3>6 DEF Tells, IsRemovalEvent
      <4>0. Lists(v, st, query)
        BY <2>3, <2>5 DEF Lists
      <4>8. w \in WidgetLists /\ Lists(w, st, query) /\ Names(w) = Names(v) \ A
        BY <2>5, <3>2, <3>6, <4>0, RemovalsPatched
      <4>2. /\ w \in WidgetLists /\ IsListing(st, query, w.list)
            /\ Listed(w.list) = Listed(listed) \ A
        BY <2>5, <4>8 DEF Lists, Names
      <4>3. /\ StoredAddresses(tt) \subseteq StoredAddresses(st) /\ DiffersWithin(st, tt, A)
            /\ KeepsItems(st, tt) /\ Falls(st, tt, A)
        BY <2>5, <4>1 DEF Goes
      <4>4. StoredAddresses(st) \ A \subseteq StoredAddresses(tt)
        BY <4>3, StoredIs DEF DiffersWithin
      <4> HIDE DEF A, w
      <4>5. Listed(w.list) \subseteq StoredAddresses(tt)
        BY <4>2, <4>4 DEF IsListing
      <4>6. IsListing(tt, query, w.list)
        BY <4>2, <4>3, <4>5, ListingCarries
      <4>7. Follows
        BY <3>1, <3>3, <4>2, <4>3 DEF Follows, Falls, st, tt
      <4> QED
        BY <1>2, <3>4, <4>2, <4>6, <4>7 DEF TickShows
    <3> QED
      BY <3>5, <3>6
  <2> QED
    BY <2>6, <2>7
<1>3. needsNewQuery \in BOOLEAN
  BY DEF WidgetInv
<1> QED
  BY <1>1, <1>2, <1>3

\* Every change of a query is a query.
LEMMA QueriesTyped ==
    ASSUME query \in QueryStates
    PROVE  /\ ResetQuery \in QueryStates
           /\ ChangeQuery => query' \in QueryStates
<1>1. /\ \A f \in Filters \cup {Nobody}, o \in Filters \cup {Nobody} : WithFilter(f, o) \in QueryStates
      /\ \A c \in Sorts \cup {Nobody}, o \in Sorts \cup {Nobody} : WithSort(c, o) \in QueryStates
  BY DEF QueryStates, WithFilter, WithSort
<1>2. ResetFilter \in QueryStates /\ ResetSort \in QueryStates
  BY <1>1 DEF ResetFilter, ResetSort
<1>3. /\ ResetQuery \in QueryStates
      /\ [query EXCEPT !.invertFilter = ~@] \in QueryStates
      /\ [query EXCEPT !.invertSort = ~@] \in QueryStates
  BY DEF QueryStates, ResetQuery
<1>4. /\ \A f \in Filters : SetFilterByObject(f) \in QueryStates
      /\ \A c \in Sorts : SetSortByObject(c) \in QueryStates
  BY <1>1, <1>2 DEF SetFilterByObject, SetSortByObject
<1>5. ASSUME ChangeQuery PROVE query' \in QueryStates
  BY <1>1, <1>2, <1>3, <1>4, <1>5 DEF ChangeQuery, QueryChanged
<1> QED
  BY <1>3, <1>5

\* What is asked of the query, and of the widget, leaves it with no storage or
\* with a query due, or before its construction.
LEMMA CallsKeep ==
    ASSUME WidgetInv, vars' = vars,
           \/ ChangeQuery \/ NativeConstruct \/ NativeDestruct \/ Unlink
           \/ \E s \in Linkable : SetLinkedStorage(s)
    PROVE  WidgetInv' /\ TickShows /\ Follows
<1> USE DEF WidgetInv, TickShows, Follows
<1>1. store' = store /\ <<>> \in Seq(Int \X Int)
  BY DEF vars
<1>2. query \in QueryStates /\ ResetQuery \in QueryStates
  BY QueriesTyped
<1>3. CASE ChangeQuery
  <2>1. /\ query' \in QueryStates /\ needsNewQuery' = TRUE
        /\ UNCHANGED <<itemStorage, constructed, listening, listed, broken>>
    BY <1>2, <1>3, QueriesTyped DEF ChangeQuery, QueryChanged
  <2> QED
    BY <2>1
<1>4. ASSUME InitWithInventory(itemStorage'), itemStorage' \in Storages, itemStorage' # Nobody,
             constructed' = TRUE, UNCHANGED broken
      PROVE  WidgetInv' /\ TickShows /\ Follows
  <2>1. /\ query' = ResetQuery /\ needsNewQuery' = TRUE /\ listed' = <<>>
        /\ listening' = {itemStorage'}
    BY <1>4 DEF InitWithInventory
  <2> QED
    BY <1>1, <1>2, <1>4, <2>1
<1>5. ASSUME Reset, constructed' \in BOOLEAN, UNCHANGED broken
      PROVE  WidgetInv' /\ TickShows /\ Follows
  <2>1. /\ query' = ResetQuery /\ needsNewQuery' \in BOOLEAN /\ listed' = <<>>
        /\ needsNewQuery => needsNewQuery'
        /\ itemStorage' = Nobody /\ listening' = {}
    BY <1>5 DEF Reset
  <2> QED
    BY <1>1, <1>2, <1>5, <2>1
<1>6. CASE NativeConstruct
  <2>1. CASE itemStorage # Nobody
    <3>1. InitWithInventory(itemStorage') /\ itemStorage' = itemStorage
      BY <1>6, <2>1 DEF NativeConstruct, InitWithInventory
    <3> QED
      BY <1>4, <1>6, <2>1, <3>1 DEF NativeConstruct
  <2>2. CASE itemStorage = Nobody
    BY <1>6, <2>2 DEF NativeConstruct
  <2> QED
    BY <2>1, <2>2
<1>7. CASE NativeDestruct
  BY <1>5, <1>7 DEF NativeDestruct
<1>8. CASE Unlink
  <2>1. CASE constructed
    BY <1>5, <1>8, <2>1 DEF Unlink
  <2>2. CASE ~constructed
    BY <1>8, <2>2 DEF Unlink
  <2> QED
    BY <2>1, <2>2
<1>9. ASSUME NEW s \in Linkable, SetLinkedStorage(s)
      PROVE  WidgetInv' /\ TickShows /\ Follows
  <2>1. s \in Storages /\ s # Nobody
    BY QueriesAssumption
  <2>2. CASE constructed
    <3>1. InitWithInventory(itemStorage') /\ itemStorage' = s
      BY <1>9, <2>2 DEF SetLinkedStorage, InitWithInventory
    <3> QED
      BY <1>4, <1>9, <2>1, <2>2, <3>1 DEF SetLinkedStorage
  <2>3. CASE ~constructed
    BY <1>9, <2>1, <2>3 DEF SetLinkedStorage
  <2> QED
    BY <2>2, <2>3
<1> QED
  BY <1>3, <1>6, <1>7, <1>8, <1>9

\* A tick lists what the query shows.
LEMMA TicksKeep ==
    ASSUME StoreInv, LiveInv, WidgetInv, NativeTick
    PROVE  WidgetInv' /\ TickShows /\ Follows
<1>1. /\ constructed /\ needsNewQuery /\ ~needsNewQuery' /\ needsNewQuery' \in BOOLEAN
      /\ listed' \in TickQueries
      /\ UNCHANGED <<query, itemStorage, constructed, listening, broken, store>>
  BY DEF NativeTick, vars
<1>2. CASE itemStorage = Nobody
  BY <1>1, <1>2 DEF TickQueries, WidgetInv, TickShows, Follows
<1>3. CASE itemStorage # Nobody
  <2> DEFINE st == store[itemStorage]
  <2>1. itemStorage \in Storages /\ query \in QueryStates
    BY <1>3 DEF WidgetInv
  <2>2. Sound(st) /\ WithinBounds(st) /\ Filling(st)
    BY <2>1 DEF StoreInv, LiveInv, Live
  <2>3. listed' \in QueryAllAddresses(st, query)
    BY <1>1, <1>3 DEF TickQueries
  <2> HIDE DEF st
  <2>4. IsListing(st, query, listed') /\ Listed(listed') = Shown(st, query)
    BY <2>1, <2>2, <2>3, QueryFinds
  <2>5. listed' \in Seq(Int \X Int)
    BY <2>4 DEF IsListing, ListsOnce
  <2>6. IsListing(store'[itemStorage'], query', listed')
    BY <1>1, <2>4 DEF st
  <2>7. WidgetInv'
    BY <1>1, <2>5, <2>6 DEF WidgetInv
  <2> QED
    BY <1>1, <2>4, <2>7 DEF TickShows, Follows, st
<1> QED
  BY <1>2, <1>3

\* Every step of a widget and its storages keeps the invariant, a tick shows,
\* and the list follows.
LEMMA WidgetKeeps ==
    ASSUME SplitAmounts \subseteq Nat \ {0}, IInv, IInv', LiveInv, WidgetInv,
           [WidgetNext]_widgetAllVars
    PROVE  LiveInv' /\ WidgetInv' /\ TickShows /\ Follows
<1>0. StoreInv /\ StoreInv'
  BY DEF IInv
<1>1. ASSUME vars' = vars PROVE LiveInv' /\ \A s \in Storages : store'[s].entries = store[s].entries
  <2>1. store' = store
    BY <1>1 DEF vars
  <2> QED
    BY <2>1 DEF LiveInv
<1>2. ASSUME Next PROVE LiveInv' /\ AllHear
  BY <1>0, <1>2, NextLive, NextHeard
<1>3. itemStorage # Nobody => itemStorage \in Storages
  BY DEF WidgetInv
<1>4. CASE StorageChanges
  <2>1. Next
    BY <1>4 DEF StorageChanges, Next
  <2> QED
    BY <1>0, <1>2, <1>4, <2>1, StorageChangesKeep DEF StorageChanges
<1>5. CASE ItemChanges
  <2>1. PICK i \in Mutables : MutateItem(i)
    BY <1>5 DEF ItemChanges
  <2>2. \A s \in Storages : store'[s].entries = store[s].entries
    <3> DEFINE p == PostContentChanged(store[owner[i]].proxies, FindEntry(store[owner[i]], i),
                                       store[owner[i]].entries[FindEntry(store[owner[i]], i)])
    <3>1. owner[i] \in Storages /\ store' = [store EXCEPT ![owner[i]].proxies = p]
      BY <2>1 DEF MutateItem
    <3> HIDE DEF p
    <3> QED
      BY <1>0, <3>1, ProxiesOnly
  <2>3. UNCHANGED widgetVars
    BY <1>5 DEF ItemChanges
  <2>4. WidgetInv' /\ TickShows /\ Follows
    BY <1>0, <1>3, <2>2, <2>3, SameEntriesList
  <2>5. LiveInv'
    <3>1. ASSUME ~halted PROVE LiveInv'
      BY <1>2, <2>1, <3>1 DEF Next
    <3>2. ASSUME vars' = vars PROVE LiveInv'
      BY <1>1, <3>2
    <3> QED
      BY <3>1, <3>2 DEF WidgetNext, widgetAllVars
  <2> QED
    BY <2>4, <2>5
<1>6. CASE NativeTick
  BY <1>0, <1>1, <1>6, TicksKeep DEF NativeTick
<1>7. CASE \/ ChangeQuery \/ NativeConstruct \/ NativeDestruct \/ Unlink
           \/ \E s \in Linkable : SetLinkedStorage(s)
  <2>1. vars' = vars
    BY <1>7 DEF ChangeQuery, NativeConstruct, NativeDestruct, Unlink, SetLinkedStorage, vars
  <2> QED
    BY <1>1, <1>7, <2>1, CallsKeep
<1>8. CASE UNCHANGED widgetAllVars
  <2>1. vars' = vars /\ UNCHANGED widgetVars
    BY <1>8 DEF widgetAllVars
  <2> QED
    BY <1>0, <1>1, <1>3, <2>1, SameEntriesList
<1> QED
  BY <1>4, <1>5, <1>6, <1>7, <1>8 DEF WidgetNext

\* Whatever is called on the storages, the items and the widget, and in whatever
\* order the ticks come: a widget with no query due lists stacks that are there,
\* each once and in order; a tick lists just what the query shows; and between
\* two ticks what comes is listed and what leaves the list has lost copies.  (As
\* long as no caller splits off less than one copy: SplitStack lets that pass.)
THEOREM ListAlwaysFollows ==
    SplitAmounts \subseteq Nat \ {0} => (WidgetSpec => ListFollowsStorage)
<1> SUFFICES ASSUME SplitAmounts \subseteq Nat \ {0} PROVE WidgetSpec => ListFollowsStorage
  OBVIOUS
<1>1. Init => IInv /\ LiveInv
  BY InitInv, InitLive
<1>2. WidgetInit => WidgetInv
  <2>1. PlainQuery \in QueryStates
    BY DEF PlainQuery, QueryStates
  <2>2. <<>> \in Seq(Int \X Int)
    OBVIOUS
  <2> QED
    BY <2>1, <2>2 DEF WidgetInit, WidgetInv
<1>3. IInv /\ [WidgetNext]_widgetAllVars => IInv'
  <2> SUFFICES ASSUME IInv, [WidgetNext]_widgetAllVars PROVE IInv'
    OBVIOUS
  <2>1. [Next]_vars
    BY DEF WidgetNext, StorageChanges, ItemChanges, NativeConstruct, NativeDestruct, NativeTick,
           ChangeQuery, Unlink, SetLinkedStorage, Next, vars, widgetAllVars
  <2> QED
    BY <2>1, StepInv
<1>4. IInv /\ IInv' /\ LiveInv /\ WidgetInv /\ [WidgetNext]_widgetAllVars
      => LiveInv' /\ WidgetInv' /\ TickShows /\ Follows
  BY WidgetKeeps
<1>5. IInv /\ WidgetInv => ListsStacksInOrder
  BY InvariantLists DEF IInv
<1> QED
  BY <1>1, <1>2, <1>3, <1>4, <1>5, PTL DEF WidgetSpec, ListFollowsStorage, TickShows, Follows
=============================================================================
