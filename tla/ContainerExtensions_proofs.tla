--------------------- MODULE ContainerExtensions_proofs ---------------------
(***************************************************************************)
(* Proofs about the item limit and the capacity: what they keep count of is *)
(* what lies in the containers they are set up for, and Dump loses nothing. *)
(***************************************************************************)
EXTENDS ContainerExtensions, InventoryEntry_proofs

-----------------------------------------------------------------------------
(* Storages.                                                                *)

\* An entry of one of the items, in stacks that are not empty.
IsStocked(e) == IsEntry(e) /\ e.item \in Items /\ Full(e)

\* A storage: its generator, and entries under keys it gave out.
IsStorage(st) ==
    /\ st = [gen |-> st.gen, entries |-> st.entries]
    /\ st.gen \in Int /\ st.gen >= KeyGenReset
    /\ st.entries = [k \in DOMAIN st.entries |-> st.entries[k]]
    /\ DOMAIN st.entries \subseteq (KeyGenReset + 1) .. st.gen
    /\ \A k \in DOMAIN st.entries : IsStocked(st.entries[k])

\* An entry holds copies.
LEMMA StockedSum ==
    ASSUME NEW e, IsStocked(e)
    PROVE  StackSum(e) \in Nat \ {0}
<1> DEFINE D == DOMAIN e.stacks
<1>1. IsFiniteSet(D) /\ D # {} /\ \A k \in D : e.stacks[k] \in Nat \ {0}
  BY StacksFinite DEF IsStocked, IsEntry, Full
<1>2. PICK k \in D : TRUE
  BY <1>1
<1>3. SumOver(e.stacks, D) = SumOver(e.stacks, D \ {k}) + e.stacks[k]
  BY <1>1, SumOverLess
<1>4. SumOver(e.stacks, D \ {k}) \in Nat
  BY <1>1, FS_Subset, SumOverNat
<1> QED
  BY <1>1, <1>3, <1>4 DEF StackSum

\* The entries of a storage are finitely many.
LEMMA EntriesFinite ==
    ASSUME NEW st, IsStorage(st)
    PROVE  \A S \in SUBSET DOMAIN st.entries : IsFiniteSet(S)
<1>1. KeyGenReset + 1 \in Int /\ st.gen \in Int
  BY DEF IsStorage, KeyGenReset
<1>2. IsFiniteSet((KeyGenReset + 1) .. st.gen)
  BY ONLY <1>1, FS_Interval
<1> QED
  BY <1>2, FS_Subset DEF IsStorage

\* One that gave out no key has none.
LEMMA UnusedIsEmpty ==
    ASSUME NEW st, IsStorage(st), st.gen = KeyGenReset
    PROVE  DOMAIN st.entries = {} /\ st.entries = Empty
<1>1. DOMAIN st.entries = {}
  BY DEF IsStorage, KeyGenReset
<1> QED
  BY <1>1 DEF IsStorage, Empty

\* AddStackImplNoBroadcast makes a storage of a storage.
LEMMA AddedIsStorage ==
    ASSUME NEW st, IsStorage(st), NEW item \in Items, NEW n \in Nat \ {0}, NEW onlyNew
    PROVE  IsStorage(Added(st, item, n, onlyNew)) /\ Added(st, item, n, onlyNew).gen >= st.gen
<1> DEFINE D == DOMAIN st.entries
           there == EntryOf(st, item)
           grown(k) == IF onlyNew THEN AddToNewStacks(st.entries[k], n)
                       ELSE AddToAnyStack(st.entries[k], n)
<1>1. /\ st = [gen |-> st.gen, entries |-> st.entries] /\ st.gen \in Int /\ st.gen >= KeyGenReset
      /\ D \subseteq (KeyGenReset + 1) .. st.gen
      /\ \A k \in D : IsStocked(st.entries[k])
  BY DEF IsStorage
<1>2. CASE there # {}
  <2> DEFINE entries == [k \in D |-> IF k \in there THEN grown(k) ELSE st.entries[k]]
  <2>1. Added(st, item, n, onlyNew) = [st EXCEPT !.entries = entries]
    BY <1>2 DEF Added
  <2>2. ASSUME NEW k \in D PROVE IsStocked(grown(k))
    <3> DEFINE e == st.entries[k]
    <3>1. IsEntry(e) /\ Full(e) /\ e.item \in Items
      BY <1>1, <2>2 DEF IsStocked
    <3>2. \A j \in DOMAIN e.stacks : e.stacks[j] > 0
      BY <3>1 DEF Full
    <3> HIDE DEF e
    <3>3. IsStocked(AddToNewStacks(e, n)) /\ IsStocked(AddToAnyStack(e, n))
      BY <3>1, <3>2, AddToNewStacksContinues, AddToNewStacksHolds, AddToAnyStackContinues,
         AddToAnyStackHolds DEF IsStocked, Continues
    <3> QED
      BY <3>3 DEF e
  <2>3. \A k \in D : IsStocked(entries[k])
    BY <1>1, <2>2
  <2>4. DOMAIN entries = D
    OBVIOUS
  <2> HIDE DEF entries, D
  <2>5. /\ [st EXCEPT !.entries = entries] = [gen |-> st.gen, entries |-> entries]
        /\ entries = [k \in DOMAIN entries |-> entries[k]]
    <3>1. [st EXCEPT !.entries = entries] = [gen |-> st.gen, entries |-> entries]
      BY <1>1
    <3>2. entries = [k \in DOMAIN entries |-> entries[k]]
      BY DEF entries
    <3> QED
      BY <3>1, <3>2
  <2> QED
    BY <1>1, <2>1, <2>3, <2>4, <2>5 DEF IsStorage
<1>3. CASE there = {}
  <2> DEFINE key == st.gen + 1
             new == NewEntry(item, StackLimit[item], n)
             entries == [k \in {key} \cup D |-> IF k = key THEN new ELSE st.entries[k]]
  <2>1. Added(st, item, n, onlyNew) = [gen |-> key, entries |-> entries]
    <3> HIDE DEF new
    <3>1. With(st.entries, key, new) = entries
      BY DEF With, Over
    <3> QED
      BY <1>3, <3>1 DEF Added, new
  <2>2. IsStocked(new)
    BY ItemsAssumption, NewEntryIsEntry, NewEntryHolds DEF IsStocked
  <2>3. \A k \in {key} \cup D : IsStocked(entries[k])
    BY <1>1, <2>2
  <2>4. DOMAIN entries = {key} \cup D /\ entries = [k \in DOMAIN entries |-> entries[k]]
    OBVIOUS
  <2> HIDE DEF entries
  <2>5. {key} \cup D \subseteq (KeyGenReset + 1) .. key
    BY <1>1 DEF KeyGenReset
  <2>6. key \in Int /\ key >= KeyGenReset /\ key >= st.gen
    BY <1>1 DEF KeyGenReset
  <2> HIDE DEF key, D
  <2>7. IsStorage([gen |-> key, entries |-> entries])
    BY <2>3, <2>4, <2>5, <2>6 DEF IsStorage
  <2> QED
    BY <2>1, <2>6, <2>7
<1> QED
  BY <1>2, <1>3

\* Some stacks at places 1 to n.
AreStacks(stacks, n) ==
    /\ n \in Nat
    /\ \A i \in DOMAIN stacks : stacks[i].item \in Items /\ stacks[i].copies \in Nat \ {0}

\* What the loop of AddItemStacks makes of the storage after each place.
IsLoop(f, w, c, stacks, n) ==
    f = [i \in 0 .. n |->
            IF i = 0 THEN content[c]
            ELSE IF i \in DOMAIN stacks /\ AllowsAddition(w, c, stacks[i].item, stacks[i].copies)
                 THEN Added(f[i - 1], stacks[i].item, stacks[i].copies, FALSE)
                 ELSE f[i - 1]]

\* The loop ends: there is such a function, and AddedAll is its last value.
LEMMA LoopExists ==
    ASSUME NEW w, NEW c, NEW stacks, NEW n \in Nat
    PROVE  \E f : IsLoop(f, w, c, stacks, n) /\ AddedAll(w, c, stacks, n) = f[n]
<1> DEFINE step(st, i) ==
             IF i \in DOMAIN stacks /\ AllowsAddition(w, c, stacks[i].item, stacks[i].copies)
             THEN Added(st, stacks[i].item, stacks[i].copies, FALSE) ELSE st
           Loops(f, m) == f = [i \in 0 .. m |-> IF i = 0 THEN content[c] ELSE step(f[i - 1], i)]
           stuck == {m \in 0 .. n : ~ \E f : Loops(f, m)}
<1>1. \A f : IsLoop(f, w, c, stacks, n) <=> Loops(f, n)
  BY DEF IsLoop
<1>2. \E f : Loops(f, n)
  <2>1. SUFFICES ASSUME stuck # {} PROVE FALSE
    <3> HIDE DEF Loops
    <3> QED
      BY <2>1
  <2>2. PICK m \in stuck : \A j \in stuck : m <= j
    <3>1. stuck \subseteq Int /\ stuck \subseteq 0 .. n
      <4>1. stuck \subseteq 0 .. n
        <5> HIDE DEF Loops
        <5> QED
          OBVIOUS
      <4> HIDE DEF stuck
      <4> QED
        BY <4>1
    <3>2. IsFiniteSet(stuck)
      <4>1. IsFiniteSet(0 .. n)
        BY ONLY n \in Nat, FS_Interval
      <4> HIDE DEF stuck
      <4> QED
        BY <3>1, <4>1, FS_Subset
    <3> HIDE DEF stuck
    <3> QED
      BY <2>1, <3>1, <3>2, LeastInteger
  <2> HIDE DEF step
  <2>3. CASE m = 0
    <3> DEFINE f == [i \in 0 .. 0 |-> content[c]]
    <3>1. Loops(f, 0)
      OBVIOUS
    <3> HIDE DEF f, Loops
    <3> QED
      BY <2>2, <2>3, <3>1
  <2>4. CASE m # 0
    <3>1. m - 1 \in 0 .. n /\ m \in 0 .. n /\ ~(m <= m - 1) /\ m \in Int
      BY <2>2, <2>4
    <3>2. PICK f : Loops(f, m - 1)
      <4> HIDE DEF Loops
      <4> QED
        BY <2>2, <3>1
    <3> DEFINE g == [i \in 0 .. m |-> IF i = m THEN step(f[m - 1], m) ELSE f[i]]
    <3>3. \A i \in 0 .. m : g[i] = IF i = 0 THEN content[c] ELSE step(g[i - 1], i)
      <4> TAKE i \in 0 .. m
      <4>1. CASE i = m
        BY <2>4, <3>1, <4>1
      <4>2. CASE i # m
        <5>1. i \in 0 .. (m - 1) /\ (i # 0 => i - 1 \in 0 .. (m - 1) /\ i - 1 # m)
          BY <3>1, <4>2
        <5>2. f[i] = IF i = 0 THEN content[c] ELSE step(f[i - 1], i)
          BY <3>2, <5>1
        <5>3. i # 0 => g[i - 1] = f[i - 1]
          BY <5>1, <3>1
        <5> QED
          BY <4>2, <5>2, <5>3
      <4> QED
        BY <4>1, <4>2
    <3>4. Loops(g, m)
      <4> DEFINE h == [i \in 0 .. m |-> IF i = 0 THEN content[c] ELSE step(g[i - 1], i)]
      <4>1. \A i \in 0 .. m : g[i] = h[i]
        BY <3>3
      <4>2. g = [i \in 0 .. m |-> g[i]] /\ h = [i \in 0 .. m |-> h[i]]
        OBVIOUS
      <4>3. g = h
        <5> HIDE DEF g, h
        <5> QED
          BY <4>1, <4>2
      <4> QED
        BY <4>3
    <3> HIDE DEF g, Loops
    <3> QED
      BY <2>2, <3>4
  <2> QED
    BY <2>3, <2>4
<1> DEFINE after[i \in 0 .. n] ==
             IF i = 0 THEN content[c]
             ELSE IF i \in DOMAIN stacks /\ AllowsAddition(w, c, stacks[i].item, stacks[i].copies)
                  THEN Added(after[i - 1], stacks[i].item, stacks[i].copies, FALSE)
                  ELSE after[i - 1]
<1>3. after = CHOOSE f : IsLoop(f, w, c, stacks, n)
  BY DEF IsLoop, after
<1>4. AddedAll(w, c, stacks, n) = after[n]
  BY DEF AddedAll
<1> HIDE DEF after, Loops
<1> QED
  BY <1>1, <1>2, <1>3, <1>4

\* AddItemStacks makes a storage of a storage.
LEMMA AddedAllIsStorage ==
    ASSUME NEW w, NEW c, IsStorage(content[c]), NEW stacks, NEW n, AreStacks(stacks, n)
    PROVE  /\ IsStorage(AddedAll(w, c, stacks, n))
           /\ AddedAll(w, c, stacks, n).gen >= content[c].gen
<1> DEFINE Good(st) == IsStorage(st) /\ st.gen >= content[c].gen
<1>1. PICK f : IsLoop(f, w, c, stacks, n) /\ AddedAll(w, c, stacks, n) = f[n]
  BY LoopExists DEF AreStacks
<1> DEFINE bad == {i \in 0 .. n : ~Good(f[i])}
<1>2. SUFFICES ASSUME bad # {} PROVE FALSE
  <2>1. n \in 0 .. n
    BY DEF AreStacks
  <2> QED
    BY <1>1, <1>2, <2>1
<1>3. PICK m \in bad : \A j \in bad : m <= j
  <2>1. bad \subseteq Int /\ bad \subseteq 0 .. n
    OBVIOUS
  <2>2. IsFiniteSet(bad)
    <3>1. IsFiniteSet(0 .. n)
      <4>1. n \in Int
        BY DEF AreStacks
      <4> QED
        BY ONLY <4>1, FS_Interval
    <3> HIDE DEF bad
    <3> QED
      BY <2>1, <3>1, FS_Subset
  <2> HIDE DEF bad
  <2> QED
    BY <1>2, <2>1, <2>2, LeastInteger
<1>4. Good(content[c]) /\ content[c].gen \in Int
  BY DEF IsStorage
<1>5. m \in 0 .. n /\ n \in Nat /\ m # 0
  <2>1. 0 \in 0 .. n => f[0] = content[c]
    BY <1>1 DEF IsLoop, AreStacks
  <2> HIDE DEF Good
  <2> QED
    BY <1>3, <1>4, <2>1 DEF AreStacks
<1>6. m - 1 \in 0 .. n /\ ~(m <= m - 1)
  BY <1>5
<1>7. Good(f[m - 1])
  <2> HIDE DEF Good
  <2> QED
    BY <1>3, <1>6
<1> DEFINE s == stacks[m]
           there == Added(f[m - 1], s.item, s.copies, FALSE)
<1>8. f[m] = IF m \in DOMAIN stacks /\ AllowsAddition(w, c, s.item, s.copies)
             THEN there ELSE f[m - 1]
  BY <1>1, <1>5 DEF IsLoop
<1>9. m \in DOMAIN stacks => IsStorage(there) /\ there.gen >= f[m - 1].gen
  BY <1>7, AddedIsStorage DEF AreStacks
<1>10. Good(f[m])
  <2>1. CASE f[m] = f[m - 1]
    BY <1>7, <2>1
  <2>2. CASE m \in DOMAIN stacks /\ f[m] = there
    <3> HIDE DEF there
    <3>1. there.gen \in Int /\ f[m - 1].gen \in Int
      BY <1>7, <1>9, <2>2 DEF IsStorage
    <3> QED
      BY <1>4, <1>7, <1>9, <2>2, <3>1
  <2> HIDE DEF Good, there, s
  <2> QED
    BY <1>8, <2>1, <2>2
<1> HIDE DEF Good
<1> QED
  BY <1>3, <1>10

-----------------------------------------------------------------------------
(* Sums of copies and of measures.                                          *)

Measures == [weight : Nat, volume : Nat]

\* A table of finitely many numbers, or of finitely many measures.
IsTable(f) ==
    /\ f = [k \in DOMAIN f |-> f[k]] /\ IsFiniteSet(DOMAIN f)
    /\ \A k \in DOMAIN f : f[k] \in Nat
IsMeasured(f) ==
    /\ f = [k \in DOMAIN f |-> f[k]] /\ IsFiniteSet(DOMAIN f)
    /\ \A k \in DOMAIN f : f[k] \in Measures

\* Tables of measures, one for each of some containers.
AreCaches(cache) ==
    /\ cache = [c \in DOMAIN cache |-> cache[c]] /\ DOMAIN cache \subseteq Containers
    /\ \A c \in DOMAIN cache : IsMeasured(cache[c])

\* A table without places is the empty one.
LEMMA EmptyIs ==
    ASSUME NEW f, f = [k \in DOMAIN f |-> f[k]], DOMAIN f = {}
    PROVE  f = Empty
BY DEF Empty

LEMMA EmptyIsMeasured == IsMeasured(Empty) /\ IsTable(Empty) /\ DOMAIN Empty = {}
<1>1. DOMAIN Empty = {} /\ Empty = [k \in {} |-> Empty[k]]
  BY DEF Empty
<1>2. IsFiniteSet({})
  BY FS_EmptySet
<1> QED
  BY <1>1, <1>2 DEF IsMeasured, IsTable

\* The sum over any places of a function that is 0 wherever it matters.
LEMMA SumOfNothing ==
    ASSUME NEW S, NEW f, \A k \in S : f[k] = 0
    PROVE  SumOver(f, S) = 0
<1> DEFINE m == [k \in S |-> -f[k]]
<1>1. \A k \in S : 1 .. f[k] = {} /\ 1 .. m[k] = {}
  BY DEF m
<1>2. Units(f, S) = {} /\ Units(m, S) = {}
  <2> HIDE DEF m
  <2> QED
    BY <1>1 DEF Units
<1>3. SumOver(f, S) = Cardinality(Units(f, S)) - Cardinality(Units(m, S))
  BY DEF SumOver
<1> HIDE DEF m
<1>4. Cardinality(Units(f, S)) = 0 /\ Cardinality(Units(m, S)) = 0
  BY <1>2, FS_EmptySet
<1> QED
  BY <1>3, <1>4

\* Places that count nothing can be left out.
LEMMA SumOverPart ==
    ASSUME NEW S, IsFiniteSet(S), NEW T \in SUBSET S, NEW f,
           \A k \in S : f[k] \in Int, \A k \in S \ T : f[k] = 0
    PROVE  SumOver(f, S) = SumOver(f, T)
<1> DEFINE U == S \ T
<1>1. IsFiniteSet(T) /\ IsFiniteSet(U) /\ T \cap U = {} /\ T \cup U = S
  BY FS_Subset
<1>2. SumOver(f, U) = 0
  BY SumOfNothing
<1> HIDE DEF U
<1>3. SumOver(f, S) = SumOver(f, T) + SumOver(f, U)
  BY <1>1, SumOverUnion
<1>4. SumOver(f, T) \in Int
  BY <1>1, SumOverInt
<1> QED
  BY <1>2, <1>3, <1>4

LEMMA TableSum ==
    ASSUME NEW f, IsTable(f)
    PROVE  SumOf(f) \in Nat
BY SumOverNat DEF SumOf, IsTable

\* The sum of measures is one.
LEMMA MeasuredSum ==
    ASSUME NEW f, IsMeasured(f)
    PROVE  SumOfMeasures(f) \in Measures
<1> DEFINE weights == [k \in DOMAIN f |-> f[k].weight]
           volumes == [k \in DOMAIN f |-> f[k].volume]
<1>1. IsTable(weights) /\ IsTable(volumes)
  BY DEF IsTable, IsMeasured, Measures
<1>2. SumOf(weights) \in Nat /\ SumOf(volumes) \in Nat
  BY <1>1, TableSum
<1> QED
  BY <1>2 DEF SumOfMeasures, Measure, Measures

\* So is that of what is cached of several containers.
LEMMA CachesSum ==
    ASSUME NEW cache, AreCaches(cache)
    PROVE  SumOfCaches(cache) \in Measures
<1> DEFINE sums == [c \in DOMAIN cache |-> SumOfMeasures(cache[c])]
<1>1. \A c \in DOMAIN cache : SumOfMeasures(cache[c]) \in Measures
  BY MeasuredSum DEF AreCaches
<1>2. IsFiniteSet(DOMAIN cache)
  BY ItemsAssumption, FS_Subset DEF AreCaches
<1>3. IsMeasured(sums)
  BY <1>1, <1>2 DEF IsMeasured
<1> QED
  BY <1>3, MeasuredSum DEF SumOfCaches

\* Measures are added and taken off place by place.
LEMMA MeasureArithmetic ==
    ASSUME NEW a \in Measures, NEW b \in Measures
    PROVE  Plus(a, Minus(b, a)) = b
BY DEF Plus, Minus, Measure, Measures

\* The weight and the volume of a stack are numbers.
LEMMA StackMeasure ==
    ASSUME NEW item \in DOMAIN Capacity, NEW n \in Nat \ {0}
    PROVE  GetWeightOfStack(item, n) \in Nat /\ GetVolumeOfStack(item, n) \in Nat
<1> DEFINE token == Capacity[item]
<1>1. token.weight \in Nat /\ token.volume \in Nat /\ token.efficiency \in Nat /\ n - 1 \in Nat
  BY ItemsAssumption
<1> HIDE DEF token
<1>2. \A a, b \in Nat : a * b \in Nat
  OBVIOUS
<1>3. \A a \in Nat : a \div 10 \in Nat
  OBVIOUS
<1>4. token.weight * n \in Nat
  BY <1>1, <1>2
<1>5. token.volume * (n - 1) \in Nat
  BY <1>1, <1>2
<1>6. token.volume * (n - 1) * token.efficiency \in Nat
  BY <1>1, <1>2, <1>5
<1>7. (token.volume * (n - 1) * token.efficiency) \div 10 \in Nat
  BY <1>3, <1>6
<1>8. token.volume + (token.volume * (n - 1) * token.efficiency) \div 10 \in Nat
  BY <1>1, <1>7
<1> QED
  BY <1>4, <1>8 DEF GetWeightOfStack, GetVolumeOfStack, token

\* The measure of an entry.
LEMMA EntryMeasure ==
    ASSUME NEW e, IsStocked(e)
    PROVE  GetEntryWeightAndVolume(e) \in Measures
<1>1. CASE e.item \notin DOMAIN Capacity
  BY <1>1 DEF GetEntryWeightAndVolume, Measures, Measure
<1>2. CASE e.item \in DOMAIN Capacity
  <2> DEFINE D == DOMAIN e.stacks
             volumes == [k \in D |-> GetVolumeOfStack(e.item, e.stacks[k])]
  <2>3. GetWeightOfStack(e.item, StackSum(e)) \in Nat
    BY <1>2, StockedSum, StackMeasure
  <2>4. \A k \in D : volumes[k] \in Nat
    <3>1. \A k \in D : e.stacks[k] \in Nat \ {0}
      BY DEF IsStocked, IsEntry, Full
    <3> QED
      BY <1>2, <3>1, StackMeasure
  <2>5. IsFiniteSet(D)
    BY StacksFinite DEF IsStocked
  <2>6. SumOf(volumes) \in Nat
    <3>1. IsTable(volumes)
      <4>1. DOMAIN volumes = D
        OBVIOUS
      <4>2. volumes = [k \in DOMAIN volumes |-> volumes[k]]
        OBVIOUS
      <4> HIDE DEF volumes, D
      <4> QED
        BY <2>4, <2>5, <4>1, <4>2 DEF IsTable
    <3> QED
      BY <3>1, TableSum
  <2>7. GetEntryWeightAndVolume(e) = Measure(GetWeightOfStack(e.item, StackSum(e)), SumOf(volumes))
    BY <1>2 DEF GetEntryWeightAndVolume
  <2> HIDE DEF volumes
  <2> QED
    BY <2>3, <2>6, <2>7 DEF Measure, Measures
<1> QED
  BY <1>1, <1>2

\* What the capacity and the item limit keep of the entries of a storage.
MeasuresOf(entries) == [k \in DOMAIN entries |-> GetEntryWeightAndVolume(entries[k])]
CountsOf(entries) == [k \in DOMAIN entries |-> StackSum(entries[k])]

LEMMA EntriesMeasured ==
    ASSUME NEW st, IsStorage(st)
    PROVE  IsMeasured(MeasuresOf(st.entries)) /\ IsTable(CountsOf(st.entries))
<1>1. IsFiniteSet(DOMAIN st.entries) /\ \A k \in DOMAIN st.entries : IsStocked(st.entries[k])
  BY EntriesFinite DEF IsStorage
<1>2. \A k \in DOMAIN st.entries : /\ GetEntryWeightAndVolume(st.entries[k]) \in Measures
                                   /\ StackSum(st.entries[k]) \in Nat
  BY <1>1, EntryMeasure, StockedSum
<1> QED
  BY <1>1, <1>2 DEF IsMeasured, IsTable, MeasuresOf, CountsOf

-----------------------------------------------------------------------------
(* What extensions know.                                                    *)

CapacityIsSound(p) ==
    /\ AreCaches(p.cache) /\ p.total = SumOfCaches(p.cache)
    /\ p.maximum \in [weight : Int, volume : Int]
LimitIsSound(l) == IsTable(l.cache) /\ l.total = SumOf(l.cache)

\* The capacity has the measures of what lies in the containers it is set up for.
CapacityKnows(ct, p) ==
    \A c \in Containers :
        CachedOf(p, c) = IF SetUp("capacity", c) THEN MeasuresOf(ct[c].entries) ELSE Empty

\* The item limit has the counts of a container, if no other one has given out keys.
LimitKnows(ct, l) ==
    \A c \in Containers :
        (\A d \in Containers \ {c} : ct[d].gen = KeyGenReset)
        => l.cache = IF SetUp("limit", c) THEN CountsOf(ct[c].entries) ELSE Empty

AreStorages(ct) ==
    /\ ct = [c \in Containers |-> ct[c]]
    /\ \A c \in Containers : IsStorage(ct[c])

\* An extension sits in one group; a container's group has that container only,
\* the shared group has those whose parent it is.
GroupsAreSound ==
    /\ parent \in [Containers -> {Shared, NoGroup}]
    /\ registered \in [Groups -> SUBSET Containers]
    /\ dynamic \in [Groups -> SUBSET Extensions]
    /\ \A g \in Groups : Defaults[g] \cap dynamic[g] = {}
    /\ \A g, h \in Groups : ExtensionsOf(g) \cap ExtensionsOf(h) # {} => g = h
    /\ \A c \in Containers : registered[c] \subseteq {c}
    /\ registered[Shared] = {c \in Containers : parent[c] = Shared /\ c \in registered[c]}

CachesInv ==
    /\ AreStorages(content)
    /\ GroupsAreSound
    /\ CapacityIsSound(capacity) /\ LimitIsSound(limit)
    /\ stray = {} => CapacityKnows(content, capacity) /\ LimitKnows(content, limit)

\* A new total is the sum of the new measures.
LEMMA RecachedIsSound ==
    ASSUME NEW p, CapacityIsSound(p), NEW cache, AreCaches(cache)
    PROVE  CapacityIsSound(Recached(p, cache)) /\ Recached(p, cache).cache = cache
<1>1. SumOfCaches(cache) \in Measures /\ SumOfCaches(p.cache) \in Measures
  BY CachesSum DEF CapacityIsSound
<1>2. Plus(p.total, Minus(SumOfCaches(cache), SumOfCaches(p.cache))) = SumOfCaches(cache)
  BY <1>1, MeasureArithmetic DEF CapacityIsSound
<1> QED
  BY <1>2 DEF Recached, CapacityIsSound

\* A table's sum without some of its places.
LEMMA SumWithout ==
    ASSUME NEW f, IsTable(f), NEW S
    PROVE  IsTable(Without(f, S)) /\ SumOf(Without(f, S)) = SumOf(f) - SumOf(Only(f, S))
<1> DEFINE U == DOMAIN f \ S
           V == DOMAIN f \cap S
<1>1. /\ IsFiniteSet(U) /\ IsFiniteSet(V) /\ U \cap V = {} /\ U \cup V = DOMAIN f
      /\ \A k \in DOMAIN f : f[k] \in Nat
  BY FS_Subset DEF IsTable
<1>2. /\ Without(f, S) = [k \in U |-> f[k]] /\ Only(f, S) = [k \in V |-> f[k]]
      /\ DOMAIN Without(f, S) = U /\ DOMAIN Only(f, S) = V
  BY DEF Without, Only
<1> HIDE DEF U, V
<1>3. SumOver(f, DOMAIN f) = SumOver(f, U) + SumOver(f, V)
  BY <1>1, SumOverUnion
<1>4. SumOf(Without(f, S)) = SumOver(f, U) /\ SumOf(Only(f, S)) = SumOver(f, V)
  <2>1. SumOver([k \in U |-> f[k]], U) = SumOver(f, U)
    BY SumOverSame
  <2>2. SumOver([k \in V |-> f[k]], V) = SumOver(f, V)
    BY SumOverSame
  <2> QED
    BY <1>2, <2>1, <2>2 DEF SumOf
<1>5. SumOver(f, U) \in Int /\ SumOver(f, V) \in Int
  BY <1>1, SumOverInt
<1>6. IsTable(Without(f, S))
  BY <1>1, <1>2 DEF IsTable
<1> QED
  BY <1>3, <1>4, <1>5, <1>6 DEF SumOf

\* Tables one over the other make a table.
LEMMA OverIs ==
    ASSUME NEW f, NEW g
    PROVE  /\ IsTable(f) /\ IsTable(g) => IsTable(Over(f, g))
           /\ IsMeasured(f) /\ IsMeasured(g) => IsMeasured(Over(f, g))
           /\ IsMeasured(g) => \A S : IsMeasured(Without(g, S))
           /\ AreCaches(f) /\ AreCaches(g) => AreCaches(Over(f, g))
           /\ AreCaches(g) => \A S : AreCaches(Without(g, S))
<1>1. /\ DOMAIN Over(f, g) = DOMAIN f \cup DOMAIN g
      /\ Over(f, g) = [k \in DOMAIN Over(f, g) |-> Over(f, g)[k]]
      /\ \A k \in DOMAIN Over(f, g) : Over(f, g)[k] = IF k \in DOMAIN f THEN f[k] ELSE g[k]
  BY DEF Over
<1>2. IsFiniteSet(DOMAIN f) /\ IsFiniteSet(DOMAIN g) => IsFiniteSet(DOMAIN f \cup DOMAIN g)
  BY FS_Union
<1>3. \A S : /\ DOMAIN Without(g, S) = DOMAIN g \ S
             /\ Without(g, S) = [k \in DOMAIN Without(g, S) |-> Without(g, S)[k]]
             /\ \A k \in DOMAIN Without(g, S) : Without(g, S)[k] = g[k]
  BY DEF Without
<1>4. IsFiniteSet(DOMAIN g) => \A S : IsFiniteSet(DOMAIN g \ S)
  BY FS_Subset
<1>5. /\ IsTable(f) /\ IsTable(g) => IsTable(Over(f, g))
      /\ IsMeasured(f) /\ IsMeasured(g) => IsMeasured(Over(f, g))
      /\ AreCaches(f) /\ AreCaches(g) => AreCaches(Over(f, g))
  BY <1>1, <1>2 DEF IsTable, IsMeasured, AreCaches
<1>6. /\ IsMeasured(g) => \A S : IsMeasured(Without(g, S))
      /\ AreCaches(g) => \A S : AreCaches(Without(g, S))
  <2>1. ASSUME NEW S, IsMeasured(g) PROVE IsMeasured(Without(g, S))
    <3>1. /\ DOMAIN Without(g, S) = DOMAIN g \ S
          /\ Without(g, S) = [k \in DOMAIN Without(g, S) |-> Without(g, S)[k]]
          /\ \A k \in DOMAIN Without(g, S) : Without(g, S)[k] = g[k]
      BY <1>3
    <3>2. IsFiniteSet(DOMAIN g \ S) /\ \A k \in DOMAIN g \ S : g[k] \in Measures
      BY <1>4, <2>1 DEF IsMeasured
    <3> QED
      BY <3>1, <3>2 DEF IsMeasured
  <2>2. ASSUME NEW S, AreCaches(g) PROVE AreCaches(Without(g, S))
    BY <1>3, <2>2 DEF AreCaches
  <2> QED
    BY <2>1, <2>2
<1> QED
  BY <1>5, <1>6

\* UpdateCacheForEntry of either extension keeps its totals the sums.
LEMMA UpdatesAreSound ==
    ASSUME NEW entries, NEW keys,
           IsMeasured(MeasuresOf(entries)), IsTable(CountsOf(entries))
    PROVE  /\ \A l : LimitIsSound(l) => LimitIsSound(LimitUpdated(l, entries, keys))
           /\ \A p, c : CapacityIsSound(p) /\ c \in Containers
                        => CapacityIsSound(CapacityUpdated(p, c, entries, keys))
<1> DEFINE counts == [k \in DOMAIN entries \cap keys |-> StackSum(entries[k])]
           measures == [k \in DOMAIN entries \cap keys |-> GetEntryWeightAndVolume(entries[k])]
<1>1. IsTable(counts) /\ IsMeasured(measures)
  <2>1. IsFiniteSet(DOMAIN entries \cap keys)
    BY FS_Subset DEF IsTable, CountsOf
  <2> QED
    BY <2>1 DEF IsTable, IsMeasured, CountsOf, MeasuresOf
<1>2. ASSUME NEW l, LimitIsSound(l) PROVE LimitIsSound(LimitUpdated(l, entries, keys))
  <2> DEFINE cache == Over(counts, Without(l.cache, keys))
  <2>1. LimitUpdated(l, entries, keys) =
          [cache |-> cache, total |-> l.total + SumOf(cache) - SumOf(l.cache)]
    BY DEF LimitUpdated
  <2>2. IsTable(cache)
    BY <1>1, <1>2, SumWithout, OverIs DEF LimitIsSound
  <2>3. SumOf(cache) \in Nat /\ SumOf(l.cache) \in Nat /\ l.total = SumOf(l.cache)
    BY <1>2, <2>2, TableSum DEF LimitIsSound
  <2> HIDE DEF cache
  <2> QED
    BY <2>1, <2>2, <2>3 DEF LimitIsSound
<1>3. ASSUME NEW p, NEW c \in Containers, CapacityIsSound(p)
      PROVE  CapacityIsSound(CapacityUpdated(p, c, entries, keys))
  <2> DEFINE cache == Over(measures, Without(CachedOf(p, c), keys))
             one == [k \in {c} |-> cache]
  <2>1. CapacityUpdated(p, c, entries, keys) = Recached(p, Over(one, p.cache))
    BY DEF CapacityUpdated, With
  <2>2. IsMeasured(CachedOf(p, c))
    BY <1>3, EmptyIsMeasured DEF CachedOf, CapacityIsSound, AreCaches
  <2>3. IsMeasured(cache)
    BY <1>1, <2>2, OverIs
  <2> HIDE DEF cache
  <2>4. AreCaches(one)
    BY <2>3 DEF AreCaches
  <2>5. AreCaches(Over(one, p.cache))
    BY <1>3, <2>4, OverIs DEF CapacityIsSound
  <2> QED
    BY <1>3, <2>1, <2>5, RecachedIsSound
<1> QED
  BY <1>2, <1>3

\* Initialising the item limit for some containers, and leaving them.
LEMMA LimitLeavesSound ==
    ASSUME NEW l, LimitIsSound(l), NEW keys
    PROVE  LimitIsSound(LimitDeinitialized(l, keys))
BY SumWithout DEF LimitIsSound, LimitDeinitialized

\* Nothing is set up for a container whose group is not asked, or not registered.
LEMMA SetUpIsAsked ==
    ASSUME GroupsAreSound, NEW x, NEW c \in Containers, SetUp(x, c)
    PROVE  x \in Asked(c)
<1>1. PICK g \in Groups : x \in ExtensionsOf(g) /\ c \in registered[g]
  BY DEF SetUp
<1>2. CASE g = Shared
  BY <1>1, <1>2 DEF GroupsAreSound, Asked
<1>3. CASE g # Shared
  BY <1>1, <1>3 DEF GroupsAreSound, Asked, Groups
<1> QED
  BY <1>2, <1>3

\* The keys of an event name every entry that is not as it was before.
Covers(keys, before, after) ==
    /\ keys \subseteq DOMAIN before \cup DOMAIN after
    /\ \A k \in (DOMAIN before \cup DOMAIN after) \ keys :
          k \in DOMAIN before /\ k \in DOMAIN after /\ before[k] = after[k]

\* What is new over what is old and did not change.
LEMMA UpdateFollows ==
    ASSUME NEW before, NEW after, NEW keys, Covers(keys, before, after),
           after = [k \in DOMAIN after |-> after[k]]
    PROVE  Over(Only(after, keys), Without(before, keys)) = after
<1> DEFINE new == Only(after, keys)
           old == Without(before, keys)
<1>1. DOMAIN new = DOMAIN after \cap keys /\ DOMAIN old = DOMAIN before \ keys
  BY DEF Without, Only
<1>2. DOMAIN new \cup DOMAIN old = DOMAIN after
  BY <1>1 DEF Covers
<1>3. \A k \in DOMAIN after : (IF k \in DOMAIN new THEN new[k] ELSE old[k]) = after[k]
  BY <1>1 DEF Covers, Without, Only
<1>4. Over(new, old) = [k \in DOMAIN after |-> IF k \in DOMAIN new THEN new[k] ELSE old[k]]
  BY <1>2 DEF Over
<1> HIDE DEF new, old
<1> DEFINE both == [k \in DOMAIN after |-> IF k \in DOMAIN new THEN new[k] ELSE old[k]]
<1>5. both = [k \in DOMAIN after |-> after[k]]
  BY <1>3
<1>6. Over(new, old) = after
  BY <1>4, <1>5
<1> QED
  BY <1>6 DEF new, old

\* So are the updates of what extensions keep of entries.
NewMeasures(entries, keys) ==
    [k \in DOMAIN entries \cap keys |-> GetEntryWeightAndVolume(entries[k])]
NewCounts(entries, keys) == [k \in DOMAIN entries \cap keys |-> StackSum(entries[k])]

LEMMA UpdatesFollow ==
    ASSUME NEW before, NEW after, NEW keys, Covers(keys, before, after)
    PROVE  /\ Over(NewMeasures(after, keys), Without(MeasuresOf(before), keys)) = MeasuresOf(after)
           /\ Over(NewCounts(after, keys), Without(CountsOf(before), keys)) = CountsOf(after)
<1>1. /\ MeasuresOf(after) = [k \in DOMAIN MeasuresOf(after) |-> MeasuresOf(after)[k]]
      /\ CountsOf(after) = [k \in DOMAIN CountsOf(after) |-> CountsOf(after)[k]]
  BY DEF MeasuresOf, CountsOf
<1>2. /\ Covers(keys, MeasuresOf(before), MeasuresOf(after))
      /\ Covers(keys, CountsOf(before), CountsOf(after))
  BY DEF Covers, MeasuresOf, CountsOf
<1>3. /\ Only(MeasuresOf(after), keys) = NewMeasures(after, keys)
      /\ Only(CountsOf(after), keys) = NewCounts(after, keys)
  BY DEF MeasuresOf, CountsOf, Only, NewMeasures, NewCounts
<1>4. Over(Only(MeasuresOf(after), keys), Without(MeasuresOf(before), keys)) = MeasuresOf(after)
  BY <1>1, <1>2, UpdateFollows
<1>5. Over(Only(CountsOf(after), keys), Without(CountsOf(before), keys)) = CountsOf(after)
  BY <1>1, <1>2, UpdateFollows
<1> QED
  BY <1>3, <1>4, <1>5

\* PostEventBatch, of keys that cover what changed in a container: whoever is
\* asked and set up for the container knows what it holds now.
LEMMA PostFollows ==
    ASSUME GroupsAreSound, NEW ct, AreStorages(ct), NEW c \in Containers,
           NEW st, IsStorage(st), st.gen >= ct[c].gen,
           NEW keys, Covers(keys, ct[c].entries, st.entries),
           NEW w, CapacityIsSound(w.capacity), LimitIsSound(w.limit),
           w.stray = {} => CapacityKnows(ct, w.capacity) /\ LimitKnows(ct, w.limit)
    PROVE  LET v  == PostEventBatch(w, c, st.entries, keys)
               nt == [ct EXCEPT ![c] = st]
           IN  /\ AreStorages(nt)
               /\ CapacityIsSound(v.capacity) /\ LimitIsSound(v.limit)
               /\ v.stray = {} => /\ w.stray = {}
                                  /\ CapacityKnows(nt, v.capacity) /\ LimitKnows(nt, v.limit)
<1> DEFINE v  == PostEventBatch(w, c, st.entries, keys)
           nt == [ct EXCEPT ![c] = st]
<1>1. /\ AreStorages(nt) /\ nt[c] = st
      /\ \A d \in Containers : d # c => nt[d] = ct[d]
  BY DEF AreStorages
<1>2. IsMeasured(MeasuresOf(st.entries)) /\ IsTable(CountsOf(st.entries))
  BY EntriesMeasured
<1>3. CapacityIsSound(v.capacity) /\ LimitIsSound(v.limit)
  BY <1>2, UpdatesAreSound DEF PostEventBatch
<1>4. ASSUME v.stray = {}
      PROVE  w.stray = {} /\ \A x : x \in Asked(c) <=> SetUp(x, c)
  BY <1>4, SetUpIsAsked DEF PostEventBatch
<1>5. ASSUME v.stray = {} PROVE CapacityKnows(nt, v.capacity)
  <2>1. CapacityKnows(ct, w.capacity) /\ ("capacity" \in Asked(c) <=> SetUp("capacity", c))
    BY <1>4, <1>5
  <2>2. CASE "capacity" \notin Asked(c)
    BY <1>1, <2>1, <2>2 DEF PostEventBatch, CapacityKnows
  <2>3. CASE "capacity" \in Asked(c)
    <3> DEFINE cache == Over(NewMeasures(st.entries, keys), Without(CachedOf(w.capacity, c), keys))
               caches == With(w.capacity.cache, c, cache)
    <3>1. cache = MeasuresOf(st.entries)
      <4>1. CachedOf(w.capacity, c) = MeasuresOf(ct[c].entries)
        BY <2>1, <2>3 DEF CapacityKnows
      <4> QED
        BY <4>1, UpdatesFollow
    <3>2. v.capacity.cache = caches
      BY <2>3 DEF PostEventBatch, CapacityUpdated, Recached, NewMeasures
    <3> HIDE DEF cache
    <3>3. /\ DOMAIN caches = DOMAIN w.capacity.cache \cup {c}
          /\ caches[c] = cache
          /\ \A d \in DOMAIN w.capacity.cache : d # c => caches[d] = w.capacity.cache[d]
      BY DEF With, Over
    <3> HIDE DEF caches, v
    <3>4. /\ CachedOf(v.capacity, c) = cache
          /\ \A d \in Containers : d # c => CachedOf(v.capacity, d) = CachedOf(w.capacity, d)
      BY <3>2, <3>3 DEF CachedOf
    <3> HIDE DEF nt
    <3> QED
      BY <1>1, <2>1, <2>3, <3>1, <3>4 DEF CapacityKnows
  <2> QED
    BY <2>2, <2>3
<1>6. ASSUME v.stray = {} PROVE LimitKnows(nt, v.limit)
  <2>1. LimitKnows(ct, w.limit) /\ ("limit" \in Asked(c) <=> SetUp("limit", c))
    BY <1>4, <1>6
  <2>2. SUFFICES ASSUME NEW x \in Containers, \A d \in Containers \ {x} : nt[d].gen = KeyGenReset
                 PROVE  v.limit.cache = IF SetUp("limit", x) THEN CountsOf(nt[x].entries) ELSE Empty
    BY DEF LimitKnows
  <2>3. \A d \in Containers \ {x} : ct[d].gen = KeyGenReset
    <3> TAKE d \in Containers \ {x}
    <3>1. CASE d = c
      <4>1. st.gen = KeyGenReset
        BY <1>1, <2>2, <3>1
      <4>2. ct[c].gen >= KeyGenReset /\ ct[c].gen \in Int
        BY DEF AreStorages, IsStorage
      <4> QED
        BY <3>1, <4>1, <4>2 DEF KeyGenReset
    <3>2. CASE d # c
      BY <1>1, <2>2, <3>2
    <3> QED
      BY <3>1, <3>2
  <2>4. w.limit.cache = IF SetUp("limit", x) THEN CountsOf(ct[x].entries) ELSE Empty
    BY <2>1, <2>3 DEF LimitKnows
  <2> DEFINE cache == Over(NewCounts(st.entries, keys), Without(w.limit.cache, keys))
  <2>5. v.limit.cache = IF "limit" \in Asked(c) THEN cache ELSE w.limit.cache
    BY DEF PostEventBatch, LimitUpdated, NewCounts
  <2>6. CASE x = c
    <3>1. SetUp("limit", c) => cache = CountsOf(st.entries)
      <4>1. SetUp("limit", c) => w.limit.cache = CountsOf(ct[c].entries)
        BY <2>4, <2>6
      <4> QED
        BY <4>1, UpdatesFollow
    <3> HIDE DEF cache, v, nt
    <3> QED
      BY <1>1, <2>1, <2>4, <2>5, <2>6, <3>1
  <2>7. CASE x # c
    <3>1. DOMAIN ct[c].entries = {} /\ DOMAIN st.entries = {}
      <4>1. ct[c].gen = KeyGenReset /\ st.gen = KeyGenReset /\ IsStorage(ct[c])
        BY <1>1, <2>2, <2>3, <2>7 DEF AreStorages
      <4> QED
        BY <4>1, UnusedIsEmpty
    <3>2. keys = {}
      BY <3>1 DEF Covers
    <3>3. cache = w.limit.cache
      <4>1. w.limit.cache = [k \in DOMAIN w.limit.cache |-> w.limit.cache[k]]
        BY DEF LimitIsSound, IsTable
      <4> DEFINE f == w.limit.cache
      <4>2. cache = [k \in DOMAIN f |-> f[k]]
        BY <3>1, <3>2 DEF Over, Without, NewCounts
      <4> QED
        BY <4>1, <4>2
    <3>4. nt[x] = ct[x]
      BY <1>1, <2>7
    <3> HIDE DEF cache, v, nt
    <3> QED
      BY <2>4, <2>5, <3>3, <3>4
  <2> QED
    BY <2>6, <2>7
<1> HIDE DEF v, nt
<1>7. /\ AreStorages(nt)
      /\ CapacityIsSound(v.capacity) /\ LimitIsSound(v.limit)
      /\ v.stray = {} => w.stray = {} /\ CapacityKnows(nt, v.capacity) /\ LimitKnows(nt, v.limit)
  BY <1>1, <1>3, <1>4, <1>5, <1>6
<1> QED
  BY <1>7 DEF v, nt

-----------------------------------------------------------------------------
(* Joining and leaving groups.                                              *)

\* What is said of the next state, said of its parts.
LEMMA Primed ==
    /\ CapacityIsSound(capacity)' <=> CapacityIsSound(capacity')
    /\ LimitIsSound(limit)' <=> LimitIsSound(limit')
    /\ AreStorages(content)' <=> AreStorages(content')
    /\ CapacityKnows(content, capacity)'
       <=> \A c \in Containers : CachedOf(capacity', c) =
              IF SetUp("capacity", c)' THEN MeasuresOf(content'[c].entries) ELSE Empty
    /\ LimitKnows(content, limit)'
       <=> \A c \in Containers :
              (\A d \in Containers \ {c} : content'[d].gen = KeyGenReset)
              => limit'.cache = IF SetUp("limit", c)' THEN CountsOf(content'[c].entries) ELSE Empty
<1>1. CapacityIsSound(capacity)' <=> CapacityIsSound(capacity')
  BY DEF CapacityIsSound
<1>2. LimitIsSound(limit)' <=> LimitIsSound(limit')
  BY DEF LimitIsSound
<1>3. AreStorages(content)' <=> AreStorages(content')
  BY DEF AreStorages
<1>4. CapacityKnows(content, capacity)'
       <=> \A c \in Containers : CachedOf(capacity', c) =
              IF SetUp("capacity", c)' THEN MeasuresOf(content'[c].entries) ELSE Empty
  BY DEF CapacityKnows
<1>5. LimitKnows(content, limit)'
       <=> \A c \in Containers :
              (\A d \in Containers \ {c} : content'[d].gen = KeyGenReset)
              => limit'.cache = IF SetUp("limit", c)' THEN CountsOf(content'[c].entries) ELSE Empty
  BY DEF LimitKnows
<1> QED
  BY <1>1, <1>2, <1>3, <1>4, <1>5

\* InitializeExtension: extensions learn what the containers hold.
LEMMA InitializeFollows ==
    ASSUME CachesInv, NEW xs, NEW cs \in SUBSET Containers,
           InitializeExtensions(xs, cs), content' = content,
           \A x \in Extensions, c \in Containers : SetUp(x, c)' <=> SetUp(x, c) \/ (x \in xs /\ c \in cs)
    PROVE  /\ CapacityIsSound(capacity)' /\ LimitIsSound(limit)'
           /\ stray' = {} => CapacityKnows(content, capacity)' /\ LimitKnows(content, limit)'
<1>1. /\ AreStorages(content) /\ CapacityIsSound(capacity) /\ LimitIsSound(limit) /\ stray' = stray
      /\ \A c \in Containers : /\ IsStorage(content[c]) /\ Entries(c) = content[c].entries
                               /\ IsMeasured(MeasuresOf(Entries(c))) /\ IsTable(CountsOf(Entries(c)))
  BY EntriesMeasured DEF CachesInv, AreStorages, InitializeExtensions, Entries
<1>2. "capacity" \in Extensions /\ "limit" \in Extensions
  BY DEF Extensions
<1>3. CapacityIsSound(capacity') /\ (stray' = {} => CapacityKnows(content, capacity)')
  <2>1. CASE "capacity" \notin xs
    <3>1. capacity' = capacity
      BY <2>1 DEF InitializeExtensions
    <3>2. \A c \in Containers : SetUp("capacity", c)' <=> SetUp("capacity", c)
      BY <1>2, <2>1
    <3> QED
      BY <1>1, <3>1, <3>2, Primed DEF CachesInv, CapacityKnows
  <2>2. CASE "capacity" \in xs
    <3> DEFINE held(c) == Over(MeasuresOf(Entries(c)), CachedOf(capacity, c))
               some == {d \in cs : Entries(d) # Empty}
               new == [c \in some |-> held(c)]
               cache == Over(new, capacity.cache)
    <3>1. capacity' = Recached(capacity, cache)
      BY <2>2 DEF InitializeExtensions, MeasuresOf
    <3>2. ASSUME NEW c \in Containers PROVE IsMeasured(CachedOf(capacity, c))
      BY <1>1, EmptyIsMeasured DEF CachedOf, CapacityIsSound, AreCaches
    <3>3. \A c \in Containers : IsMeasured(held(c))
      BY <1>1, <3>2, OverIs
    <3>4. AreCaches(new)
      <4> HIDE DEF held
      <4>1. some \subseteq Containers
        OBVIOUS
      <4> HIDE DEF some
      <4> QED
        BY <3>3, <4>1 DEF AreCaches
    <3>5. AreCaches(cache)
      <4> HIDE DEF new
      <4> QED
        BY <1>1, <3>4, OverIs DEF CapacityIsSound
    <3>6. CapacityIsSound(capacity') /\ capacity'.cache = cache
      <4> HIDE DEF cache
      <4> QED
        BY <1>1, <3>1, <3>5, RecachedIsSound
    <3>7. ASSUME stray' = {}, NEW c \in Containers
          PROVE  CachedOf(capacity', c) = IF SetUp("capacity", c)' THEN MeasuresOf(Entries(c)) ELSE Empty
      <4>1. CachedOf(capacity, c) = IF SetUp("capacity", c) THEN MeasuresOf(Entries(c)) ELSE Empty
        BY <1>1, <3>7 DEF CachesInv, CapacityKnows
      <4>2. SetUp("capacity", c)' <=> SetUp("capacity", c) \/ c \in cs
        BY <1>2, <2>2
      <4>3. CachedOf(capacity', c) = IF c \in some THEN held(c) ELSE CachedOf(capacity, c)
        <5>1. /\ DOMAIN cache = some \cup DOMAIN capacity.cache
              /\ \A d \in DOMAIN cache : cache[d] = IF d \in some THEN held(d) ELSE capacity.cache[d]
          <6> HIDE DEF some, held
          <6> QED
            BY DEF Over
        <5> HIDE DEF cache, some, held
        <5> QED
          BY <3>6, <5>1 DEF CachedOf
      <4>4. CASE c \notin cs
        BY <4>1, <4>2, <4>3, <4>4
      <4>5. CASE c \in cs /\ Entries(c) = Empty
        <5>1. MeasuresOf(Entries(c)) = Empty
          BY <4>5, EmptyIsMeasured, EmptyIs DEF MeasuresOf
        <5> QED
          BY <4>1, <4>2, <4>3, <4>5, <5>1
      <4>6. CASE c \in cs /\ Entries(c) # Empty
        <5> DEFINE m == MeasuresOf(Entries(c))
        <5>1. Over(m, m) = m /\ Over(m, Empty) = m
          <6>1. m = [k \in DOMAIN m |-> m[k]] /\ DOMAIN Empty = {}
            BY EmptyIsMeasured DEF MeasuresOf
          <6> HIDE DEF m
          <6>2. Over(m, m) = [k \in DOMAIN m |-> m[k]] /\ Over(m, Empty) = [k \in DOMAIN m |-> m[k]]
            BY <6>1 DEF Over
          <6> QED
            BY <6>1, <6>2
        <5>2. held(c) = m
          <6> HIDE DEF m
          <6>1. held(c) = Over(m, CachedOf(capacity, c)) /\ CachedOf(capacity, c) \in {m, Empty}
            BY <4>1 DEF m
          <6> QED
            BY <5>1, <6>1
        <5> HIDE DEF held
        <5> QED
          BY <4>2, <4>3, <4>6, <5>2
      <4> QED
        BY <4>4, <4>5, <4>6
    <3> HIDE DEF cache
    <3> QED
      BY <1>1, <3>6, <3>7, Primed
  <2> QED
    BY <2>1, <2>2
<1>4. CASE "limit" \notin xs
  <2>1. limit' = limit
    BY <1>4 DEF InitializeExtensions
  <2>2. \A c \in Containers : SetUp("limit", c)' <=> SetUp("limit", c)
    BY <1>2, <1>4
  <2>3. LimitIsSound(limit)' /\ (stray' = {} => LimitKnows(content, limit)')
    BY <1>1, <2>1, <2>2, Primed DEF CachesInv, LimitKnows
  <2> QED
    BY <1>3, <2>3, Primed
<1>5. CASE "limit" \in xs
  <2> DEFINE keys == UNION {DOMAIN Entries(c) : c \in cs}
  <2>1. PICK order \in Orders(cs) :
          limit' = LimitUpdated(limit, [k \in keys |-> Entries(LastHolder(order, cs, k))[k]], keys)
    BY <1>5 DEF InitializeExtensions
  <2> DEFINE entries == [k \in keys |-> Entries(LastHolder(order, cs, k))[k]]
  <2>2. IsFiniteSet(cs) /\ IsFiniteSet(keys)
    <3>1. IsFiniteSet(cs)
      BY ItemsAssumption, FS_Subset
    <3> DEFINE T == {DOMAIN Entries(c) : c \in cs}
               f == [c \in cs |-> DOMAIN Entries(c)]
    <3>2. f \in Surjection(cs, T)
      BY DEF Surjection
    <3>3. IsFiniteSet(T)
      BY <3>1, <3>2, FS_Surjection
    <3>4. \A u \in T : IsFiniteSet(u)
      BY <1>1, EntriesFinite
    <3> HIDE DEF T
    <3>5. IsFiniteSet(UNION T)
      BY <3>3, <3>4, FS_UNION
    <3> QED
      BY <3>1, <3>5 DEF T
  <2>3. ASSUME NEW k \in keys
        PROVE  LET c == LastHolder(order, cs, k) IN c \in cs /\ k \in DOMAIN Entries(c)
    <3> DEFINE holders == {c \in cs : k \in DOMAIN Entries(c)}
               T == {order[c] : c \in holders}
               f == [c \in holders |-> order[c]]
    <3>1. holders # {} /\ IsFiniteSet(holders)
      BY <2>2, <2>3, FS_Subset
    <3>2. f \in Surjection(holders, T)
      BY DEF Surjection
    <3>3. IsFiniteSet(T) /\ T # {}
      <4>1. T # {}
        BY <3>1
      <4> HIDE DEF T, holders, f
      <4> QED
        BY <3>1, <3>2, <4>1, FS_Surjection
    <3>4. T \subseteq Int
      <4>1. Cardinality(cs) \in Nat /\ order \in [cs -> 1 .. Cardinality(cs)]
        BY <2>2, FS_CardinalityType DEF Orders
      <4> QED
        BY <4>1
    <3>5. PICK m \in T : \A j \in T : j <= m
      <4> HIDE DEF T
      <4> QED
        BY <3>3, <3>4, GreatestInteger
    <3>6. PICK c \in holders : m = order[c]
      BY <3>5
    <3>7. /\ c \in cs /\ k \in DOMAIN Entries(c)
          /\ \A d \in cs : k \in DOMAIN Entries(d) => order[d] <= order[c]
      BY <3>5, <3>6
    <3> HIDE DEF T, holders, f
    <3> QED
      BY <3>7 DEF LastHolder
  <2>4. \A k \in keys : IsStocked(entries[k])
    <3> TAKE k \in keys
    <3> DEFINE c == LastHolder(order, cs, k)
    <3>1. c \in cs /\ k \in DOMAIN Entries(c)
      BY <2>3
    <3>2. entries[k] = Entries(c)[k]
      OBVIOUS
    <3>3. IsStorage(content[c]) /\ Entries(c) = content[c].entries
      BY <1>1, <3>1
    <3> HIDE DEF c, entries
    <3> QED
      BY <3>1, <3>2, <3>3 DEF IsStorage
  <2>5. DOMAIN entries = keys
    OBVIOUS
  <2> HIDE DEF entries
  <2>6. IsTable(CountsOf(entries)) /\ IsMeasured(MeasuresOf(entries))
    <3>1. \A k \in keys : StackSum(entries[k]) \in Nat /\ GetEntryWeightAndVolume(entries[k]) \in Measures
      BY <2>4, StockedSum, EntryMeasure
    <3> HIDE DEF keys
    <3> QED
      BY <2>2, <2>5, <3>1 DEF IsTable, IsMeasured, CountsOf, MeasuresOf
  <2>7. LimitIsSound(limit')
    BY <1>1, <2>1, <2>6, UpdatesAreSound DEF entries
  <2>8. limit'.cache = Over(NewCounts(entries, keys), Without(limit.cache, keys))
    BY <2>1 DEF LimitUpdated, entries, NewCounts
  <2>9. ASSUME stray' = {}, NEW x \in Containers, \A d \in Containers \ {x} : content[d].gen = KeyGenReset
        PROVE  limit'.cache = IF SetUp("limit", x)' THEN CountsOf(Entries(x)) ELSE Empty
    <3>1. limit.cache = IF SetUp("limit", x) THEN CountsOf(Entries(x)) ELSE Empty
      BY <1>1, <2>9 DEF CachesInv, LimitKnows
    <3>2. SetUp("limit", x)' <=> SetUp("limit", x) \/ x \in cs
      BY <1>2, <1>5
    <3>3. \A d \in Containers \ {x} : DOMAIN Entries(d) = {}
      BY <1>1, <2>9, UnusedIsEmpty
    <3>4. CASE x \notin cs
      <4>1. keys = {}
        BY <3>3, <3>4
      <4> HIDE DEF keys
      <4> DEFINE f == limit.cache
      <4>2. f = [k \in DOMAIN f |-> f[k]]
        BY <1>1 DEF LimitIsSound, IsTable
      <4>3. Over(NewCounts(entries, keys), Without(f, keys)) = [k \in DOMAIN f |-> f[k]]
        BY <4>1 DEF Over, Without, NewCounts
      <4> QED
        BY <2>8, <3>1, <3>2, <3>4, <4>2, <4>3
    <3>5. CASE x \in cs
      <4>1. keys = DOMAIN Entries(x)
        BY <3>3, <3>5
      <4>2. ASSUME NEW k \in keys PROVE entries[k] = Entries(x)[k]
        <5>1. LastHolder(order, cs, k) = x
          <6> DEFINE c == LastHolder(order, cs, k)
          <6>1. c \in Containers /\ k \in DOMAIN Entries(c)
            BY <2>3, <4>2
          <6> HIDE DEF c
          <6> QED
            BY <3>3, <6>1 DEF c
        <5> QED
          BY <4>2, <5>1 DEF entries
      <4>3. NewCounts(entries, keys) = NewCounts(Entries(x), keys)
        <5> HIDE DEF keys
        <5> QED
          BY <2>5, <4>1, <4>2 DEF NewCounts
      <4>4. limit.cache = CountsOf(Entries(x)) \/ limit.cache = CountsOf(Empty)
        <5>1. CountsOf(Empty) = Empty
          BY EmptyIsMeasured, EmptyIs DEF CountsOf
        <5> QED
          BY <3>1, <5>1
      <4>5. Covers(keys, Entries(x), Entries(x)) /\ Covers(keys, Empty, Entries(x))
        BY <4>1, EmptyIsMeasured DEF Covers
      <4>6. Over(NewCounts(Entries(x), keys), Without(limit.cache, keys)) = CountsOf(Entries(x))
        <5> HIDE DEF keys
        <5> QED
          BY <4>4, <4>5, UpdatesFollow
      <4> QED
        BY <2>8, <3>2, <3>5, <4>3, <4>6
    <3> QED
      BY <3>4, <3>5
  <2>10. stray' = {} => LimitKnows(content, limit)'
    BY <1>1, <2>9, Primed
  <2> QED
    BY <1>3, <2>7, <2>10, Primed
<1> QED
  BY <1>4, <1>5

\* DeinitializeExtension: what they kept of the containers is taken off.
LEMMA DeinitializeFollows ==
    ASSUME CachesInv, NEW xs, NEW cs \in SUBSET Containers,
           DeinitializeExtensions(xs, cs), content' = content,
           \A x \in Extensions, c \in Containers : SetUp(x, c)' <=> SetUp(x, c) /\ ~(x \in xs /\ c \in cs)
    PROVE  /\ CapacityIsSound(capacity)' /\ LimitIsSound(limit)'
           /\ stray' = {} => CapacityKnows(content, capacity)' /\ LimitKnows(content, limit)'
<1>1. /\ AreStorages(content) /\ CapacityIsSound(capacity) /\ LimitIsSound(limit) /\ stray' = stray
      /\ \A c \in Containers : IsStorage(content[c]) /\ Entries(c) = content[c].entries
  BY DEF CachesInv, AreStorages, DeinitializeExtensions, Entries
<1>2. "capacity" \in Extensions /\ "limit" \in Extensions
  BY DEF Extensions
<1>3. CapacityIsSound(capacity') /\ (stray' = {} => CapacityKnows(content, capacity)')
  <2>1. CASE "capacity" \notin xs
    <3>1. capacity' = capacity
      BY <2>1 DEF DeinitializeExtensions
    <3>2. \A c \in Containers : SetUp("capacity", c)' <=> SetUp("capacity", c)
      BY <1>2, <2>1
    <3> QED
      BY <1>1, <3>1, <3>2, Primed DEF CachesInv, CapacityKnows
  <2>2. CASE "capacity" \in xs
    <3> DEFINE cache == Without(capacity.cache, cs)
    <3>1. capacity' = Recached(capacity, cache)
      BY <2>2 DEF DeinitializeExtensions, CapacityDeinitialized
    <3>2. AreCaches(cache)
      BY <1>1, OverIs DEF CapacityIsSound
    <3>3. CapacityIsSound(capacity') /\ capacity'.cache = cache
      BY <1>1, <3>1, <3>2, RecachedIsSound
    <3>4. \A c \in Containers : CachedOf(capacity', c) = IF c \in cs THEN Empty ELSE CachedOf(capacity, c)
      BY <3>3 DEF CachedOf, Without
    <3>5. ASSUME stray' = {}, NEW c \in Containers
          PROVE  CachedOf(capacity', c) = IF SetUp("capacity", c)' THEN MeasuresOf(Entries(c)) ELSE Empty
      <4>1. CachedOf(capacity, c) = IF SetUp("capacity", c) THEN MeasuresOf(Entries(c)) ELSE Empty
        BY <1>1, <3>5 DEF CachesInv, CapacityKnows
      <4>2. SetUp("capacity", c)' <=> SetUp("capacity", c) /\ c \notin cs
        BY <1>2, <2>2
      <4> HIDE DEF cache
      <4> QED
        BY <3>4, <4>1, <4>2
    <3> QED
      BY <1>1, <3>3, <3>5, Primed
  <2> QED
    BY <2>1, <2>2
<1>4. CASE "limit" \notin xs
  <2>1. limit' = limit
    BY <1>4 DEF DeinitializeExtensions
  <2>2. \A c \in Containers : SetUp("limit", c)' <=> SetUp("limit", c)
    BY <1>2, <1>4
  <2>3. LimitIsSound(limit)' /\ (stray' = {} => LimitKnows(content, limit)')
    BY <1>1, <2>1, <2>2, Primed DEF CachesInv, LimitKnows
  <2> QED
    BY <1>3, <2>3, Primed
<1>5. CASE "limit" \in xs
  <2> DEFINE keys == UNION {DOMAIN Entries(c) : c \in cs}
  <2>1. limit' = LimitDeinitialized(limit, keys)
    BY <1>5 DEF DeinitializeExtensions
  <2>2. LimitIsSound(limit') /\ limit'.cache = Without(limit.cache, keys)
    <3>1. LimitIsSound(limit')
      BY <1>1, <2>1, LimitLeavesSound
    <3> QED
      BY <2>1, <3>1 DEF LimitDeinitialized
  <2>3. ASSUME stray' = {}, NEW x \in Containers, \A d \in Containers \ {x} : content[d].gen = KeyGenReset
        PROVE  limit'.cache = IF SetUp("limit", x)' THEN CountsOf(Entries(x)) ELSE Empty
    <3> DEFINE f == limit.cache
    <3>1. f = IF SetUp("limit", x) THEN CountsOf(Entries(x)) ELSE Empty
      BY <1>1, <2>3 DEF CachesInv, LimitKnows
    <3>2. SetUp("limit", x)' <=> SetUp("limit", x) /\ x \notin cs
      BY <1>2, <1>5
    <3>3. \A d \in Containers \ {x} : DOMAIN Entries(d) = {}
      BY <1>1, <2>3, UnusedIsEmpty
    <3>4. CASE x \notin cs
      <4>1. keys = {}
        BY <3>3, <3>4
      <4>2. f = [k \in DOMAIN f |-> f[k]]
        BY <1>1 DEF LimitIsSound, IsTable
      <4> HIDE DEF keys
      <4>3. Without(f, keys) = [k \in DOMAIN f |-> f[k]]
        BY <4>1 DEF Without
      <4> QED
        BY <2>2, <3>1, <3>2, <3>4, <4>2, <4>3
    <3>5. CASE x \in cs
      <4>1. DOMAIN f \subseteq DOMAIN Entries(x) /\ DOMAIN Entries(x) \subseteq keys
        BY <3>1, <3>5, EmptyIsMeasured DEF CountsOf
      <4> HIDE DEF keys
      <4>2. /\ DOMAIN Without(f, keys) = {}
            /\ Without(f, keys) = [k \in DOMAIN Without(f, keys) |-> Without(f, keys)[k]]
        BY <4>1 DEF Without
      <4>3. Without(f, keys) = Empty
        BY <4>2, EmptyIs
      <4> QED
        BY <2>2, <3>2, <3>5, <4>3
    <3> QED
      BY <3>4, <3>5
  <2>4. stray' = {} => LimitKnows(content, limit)'
    BY <1>1, <2>3, Primed
  <2> QED
    BY <1>3, <2>2, <2>4, Primed
<1> QED
  BY <1>4, <1>5

-----------------------------------------------------------------------------
(* The steps.                                                               *)

\* Calls on the contents leave the groups alone.
LEMMA GroupsStay ==
    ASSUME GroupsAreSound, UNCHANGED groupVars
    PROVE  GroupsAreSound' /\ \A x, c : SetUp(x, c)' <=> SetUp(x, c)
<1>1. parent' = parent /\ registered' = registered /\ dynamic' = dynamic
  BY DEF groupVars
<1>2. \A g : ExtensionsOf(g)' = ExtensionsOf(g)
  BY <1>1 DEF ExtensionsOf
<1>3. \A x, c : SetUp(x, c)' <=> SetUp(x, c)
  BY <1>1, <1>2 DEF SetUp
<1>4. GroupsAreSound'
  BY <1>1, <1>2 DEF GroupsAreSound
<1> QED
  BY <1>3, <1>4

\* The keys that differ are the ones that cover a change.
LEMMA TouchedCovers ==
    ASSUME NEW before, NEW after
    PROVE  Covers(Touched(before, after), before, after)
BY DEF Covers, Touched

\* What is known after a call on the contents is known in the next state.
LEMMA KnownFollows ==
    ASSUME CachesInv, UNCHANGED groupVars, NEW w, Knows(w),
           AreStorages(content'), CapacityIsSound(w.capacity), LimitIsSound(w.limit),
           w.stray = {} => CapacityKnows(content', w.capacity) /\ LimitKnows(content', w.limit)
    PROVE  CachesInv'
<1>1. capacity' = w.capacity /\ limit' = w.limit /\ stray' = w.stray
  BY DEF Knows
<1>2. GroupsAreSound' /\ \A x, c : SetUp(x, c)' <=> SetUp(x, c)
  BY GroupsStay DEF CachesInv
<1>3. stray' = {} => CapacityKnows(content, capacity)' /\ LimitKnows(content, limit)'
  BY <1>1, <1>2, Primed DEF CapacityKnows, LimitKnows
<1>4. AreStorages(content)' /\ CapacityIsSound(capacity)' /\ LimitIsSound(limit)'
  BY <1>1, Primed
<1> QED
  BY <1>2, <1>3, <1>4 DEF CachesInv

\* A call that makes a storage of a container.
LEMMA BecomesFollows ==
    ASSUME CachesInv, NEW c \in Containers, NEW st, IsStorage(st), st.gen >= content[c].gen,
           Becomes(c, st)
    PROVE  CachesInv'
<1> DEFINE keys == Touched(Entries(c), st.entries)
           v == PostEventBatch(Known, c, st.entries, keys)
<1>1. /\ content' = [content EXCEPT ![c] = st] /\ Knows(v) /\ UNCHANGED groupVars
  BY DEF Becomes
<1>2. Covers(keys, content[c].entries, st.entries)
  BY TouchedCovers DEF Entries
<1>3. /\ GroupsAreSound /\ AreStorages(content)
      /\ CapacityIsSound(Known.capacity) /\ LimitIsSound(Known.limit)
      /\ Known.stray = {} => CapacityKnows(content, Known.capacity) /\ LimitKnows(content, Known.limit)
  BY DEF CachesInv, Known
<1> HIDE DEF keys
<1>4. /\ AreStorages(content') /\ CapacityIsSound(v.capacity) /\ LimitIsSound(v.limit)
      /\ v.stray = {} => CapacityKnows(content', v.capacity) /\ LimitKnows(content', v.limit)
  BY <1>1, <1>2, <1>3, PostFollows
<1> HIDE DEF v
<1> QED
  BY <1>1, <1>4, KnownFollows

\* One entry of a storage is edited, or some go.
LEMMA EditedIsStorage ==
    ASSUME NEW st, IsStorage(st), NEW k \in DOMAIN st.entries, NEW e, IsStocked(e)
    PROVE  /\ IsStorage([st EXCEPT !.entries[k] = e])
           /\ [st EXCEPT !.entries[k] = e].gen = st.gen
<1> DEFINE entries == [st.entries EXCEPT ![k] = e]
<1>1. /\ DOMAIN entries = DOMAIN st.entries /\ entries = [j \in DOMAIN entries |-> entries[j]]
      /\ \A j \in DOMAIN entries : entries[j] = IF j = k THEN e ELSE st.entries[j]
  BY DEF IsStorage
<1>2. st = [gen |-> st.gen, entries |-> st.entries]
  BY DEF IsStorage
<1>3. [st EXCEPT !.entries[k] = e] = [gen |-> st.gen, entries |-> entries]
  BY <1>2
<1> HIDE DEF entries
<1>4. IsStorage([gen |-> st.gen, entries |-> entries])
  BY <1>1 DEF IsStorage
<1> QED
  BY <1>3, <1>4 DEF entries

LEMMA WithoutIsStorage ==
    ASSUME NEW st, IsStorage(st), NEW keys
    PROVE  /\ IsStorage([st EXCEPT !.entries = Without(st.entries, keys)])
           /\ [st EXCEPT !.entries = Without(st.entries, keys)]
                = [gen |-> st.gen, entries |-> Without(st.entries, keys)]
<1> DEFINE entries == Without(st.entries, keys)
<1>1. /\ DOMAIN entries = DOMAIN st.entries \ keys /\ entries = [j \in DOMAIN entries |-> entries[j]]
      /\ \A j \in DOMAIN entries : entries[j] = st.entries[j]
  BY DEF Without
<1>2. st = [gen |-> st.gen, entries |-> st.entries]
  BY DEF IsStorage
<1>3. [st EXCEPT !.entries = entries] = [gen |-> st.gen, entries |-> entries]
  BY <1>2
<1> HIDE DEF entries
<1>4. IsStorage([gen |-> st.gen, entries |-> entries])
  BY <1>1 DEF IsStorage
<1> QED
  BY <1>3, <1>4 DEF entries

\* A storage that is dumped, and what is to be added of it.
LEMMA StacksOfEntries ==
    ASSUME NEW c \in Containers, AreStorages(content), NEW keys \in SUBSET DOMAIN Entries(c)
    PROVE  LET stacks == [i \in {k - KeyGenReset : k \in keys} |->
                             LET e == Entries(c)[KeyGenReset + i] IN Stack(e.item, StackSum(e))]
           IN  AreStacks(stacks, content[c].gen - KeyGenReset)
<1>1. /\ IsStorage(content[c]) /\ Entries(c) = content[c].entries
      /\ content[c].gen \in Int /\ content[c].gen >= KeyGenReset
      /\ DOMAIN Entries(c) \subseteq Int
      /\ \A k \in DOMAIN Entries(c) : IsStocked(Entries(c)[k])
  BY DEF AreStorages, IsStorage, Entries
<1>2. content[c].gen - KeyGenReset \in Nat
  BY <1>1 DEF KeyGenReset
<1>3. \A k \in keys : KeyGenReset + (k - KeyGenReset) = k
  BY <1>1 DEF KeyGenReset
<1>4. \A k \in keys : Entries(c)[k].item \in Items /\ StackSum(Entries(c)[k]) \in Nat \ {0}
  BY <1>1, StockedSum DEF IsStocked
<1> QED
  BY <1>2, <1>3, <1>4 DEF AreStacks, Stack

\* Dump: two events, that of the removal and that of the addition.
LEMMA DumpFollows ==
    ASSUME CachesInv, NEW c \in Containers, NEW d \in Containers, c # d,
           NEW keys \in SUBSET DOMAIN Entries(c), DumpTo(c, d, keys)
    PROVE  CachesInv'
<1> DEFINE left   == Without(Entries(c), keys)
           w      == PostEventBatch(Known, c, left, keys)
           stacks == [i \in {k - KeyGenReset : k \in keys} |->
                         LET e == Entries(c)[KeyGenReset + i] IN Stack(e.item, StackSum(e))]
           there  == AddedAll(w, d, stacks, content[c].gen - KeyGenReset)
           touched == Touched(Entries(d), there.entries)
           v      == PostEventBatch(w, d, there.entries, touched)
           here   == [content[c] EXCEPT !.entries = left]
           half   == [content EXCEPT ![c] = here]
<1>1. /\ content' = [content EXCEPT ![c].entries = left, ![d] = there]
      /\ Knows(v) /\ UNCHANGED groupVars
  BY DEF DumpTo
<1>2. /\ GroupsAreSound /\ AreStorages(content) /\ IsStorage(content[c]) /\ IsStorage(content[d])
      /\ Entries(c) = content[c].entries /\ Entries(d) = content[d].entries
      /\ CapacityIsSound(Known.capacity) /\ LimitIsSound(Known.limit)
      /\ Known.stray = {} => CapacityKnows(content, Known.capacity) /\ LimitKnows(content, Known.limit)
  BY DEF CachesInv, Known, AreStorages, Entries
<1>3. IsStorage(here) /\ here.entries = left /\ here.gen = content[c].gen
  BY <1>2, WithoutIsStorage
<1>4. Covers(keys, content[c].entries, left)
  BY <1>2 DEF Covers, Without
<1>5. here.gen >= content[c].gen
  BY <1>2, <1>3 DEF IsStorage
<1> HIDE DEF left
<1>6. /\ AreStorages(half) /\ CapacityIsSound(w.capacity) /\ LimitIsSound(w.limit)
      /\ w.stray = {} => CapacityKnows(half, w.capacity) /\ LimitKnows(half, w.limit)
  <2> HIDE DEF here
  <2> QED
    BY <1>2, <1>3, <1>4, <1>5, PostFollows
<1>7. IsStorage(there) /\ there.gen >= content[d].gen
  <2>1. AreStacks(stacks, content[c].gen - KeyGenReset)
    BY <1>2, StacksOfEntries
  <2> HIDE DEF stacks, w
  <2> QED
    BY <1>2, <2>1, AddedAllIsStorage
<1>8. half[d] = content[d]
  BY <1>2 DEF AreStorages
<1>9. Covers(touched, half[d].entries, there.entries)
  BY <1>2, <1>8, TouchedCovers
<1>10. content' = [half EXCEPT ![d] = there]
  <2> HIDE DEF there
  <2> QED
    BY <1>1, <1>2 DEF AreStorages
<1> HIDE DEF half, there, touched, w
<1>11. /\ AreStorages(content') /\ CapacityIsSound(v.capacity) /\ LimitIsSound(v.limit)
       /\ v.stray = {} => CapacityKnows(content', v.capacity) /\ LimitKnows(content', v.limit)
  BY <1>2, <1>6, <1>7, <1>8, <1>9, <1>10, PostFollows
<1> HIDE DEF v
<1> QED
  BY <1>1, <1>11, KnownFollows

\* A container is registered with no group but its own and the shared one.
LEMMA RegisteredHere ==
    ASSUME GroupsAreSound, NEW g \in Groups, NEW c \in Containers, c \in registered[g]
    PROVE  c \in registered[c] /\ (g = c \/ (g = Shared /\ parent[c] = Shared))
BY DEF GroupsAreSound, Groups

\* Each step on groups keeps them sound, and tells the extensions of the
\* containers that come and go.
LEMMA InitializeNetObjectFollows ==
    ASSUME CachesInv, NEW c \in Containers, InitializeNetObject(c)
    PROVE  CachesInv'
<1> DEFINE xs == ExtensionsOf(c) \cup (IF JoinsParent(c) THEN ExtensionsOf(Shared) ELSE {})
<1>1. /\ c \notin registered[c] /\ InitializeExtensions(xs, {c})
      /\ registered' = [g \in Groups |-> IF g = c \/ (g = Shared /\ JoinsParent(c))
                                          THEN registered[g] \cup {c} ELSE registered[g]]
      /\ content' = content /\ parent' = parent /\ dynamic' = dynamic
  BY DEF InitializeNetObject
<1>2. GroupsAreSound /\ AreStorages(content) /\ c \in Groups /\ Shared \in Groups /\ c # Shared
  BY ItemsAssumption DEF CachesInv, Groups
<1>3. c \notin registered[Shared] /\ (JoinsParent(c) <=> parent[c] = Shared)
  BY <1>1, <1>2 DEF GroupsAreSound, JoinsParent
<1>4. \A g : ExtensionsOf(g)' = ExtensionsOf(g)
  BY <1>1 DEF ExtensionsOf
<1>5. GroupsAreSound'
  <2>1. registered' \in [Groups -> SUBSET Containers]
    BY <1>1, <1>2 DEF GroupsAreSound
  <2>2. \A e \in Containers : registered'[e] = IF e = c THEN registered[e] \cup {c} ELSE registered[e]
    BY <1>1, ItemsAssumption DEF Groups
  <2>3. registered'[Shared] = IF JoinsParent(c) THEN registered[Shared] \cup {c} ELSE registered[Shared]
    BY <1>1, <1>2
  <2>4. \A e \in Containers : registered'[e] \subseteq {e}
    BY <1>2, <2>2 DEF GroupsAreSound
  <2>5. registered'[Shared] = {e \in Containers : parent[e] = Shared /\ e \in registered'[e]}
    <3>1. registered'[Shared] \subseteq Containers
      BY <1>2, <2>1
    <3>2. c \in registered'[Shared] <=> parent[c] = Shared /\ c \in registered'[c]
      BY <1>1, <1>2, <1>3, <2>2, <2>3 DEF GroupsAreSound
    <3>3. \A e \in Containers : e \in registered[Shared] <=> parent[e] = Shared /\ e \in registered[e]
      BY <1>2 DEF GroupsAreSound
    <3>4. \A e \in Containers \ {c} : e \in registered'[Shared] <=> parent[e] = Shared /\ e \in registered'[e]
      BY <2>2, <2>3, <3>3
    <3> QED
      BY <3>1, <3>2, <3>4
  <2> QED
    BY <1>1, <1>2, <1>4, <2>1, <2>4, <2>5 DEF GroupsAreSound
<1>6. \A x \in Extensions, d \in Containers : SetUp(x, d)' <=> SetUp(x, d) \/ (x \in xs /\ d \in {c})
  <2> TAKE x \in Extensions, d \in Containers
  <2>1. SetUp(x, d)' <=> \E g \in Groups : x \in ExtensionsOf(g) /\ d \in registered'[g]
    BY <1>4 DEF SetUp
  <2>2. \A g \in Groups : d \in registered'[g]
                          <=> d \in registered[g] \/ (d = c /\ (g = c \/ (g = Shared /\ JoinsParent(c))))
    BY <1>1
  <2> QED
    BY <1>2, <2>1, <2>2 DEF SetUp
<1> HIDE DEF xs
<1>7. /\ CapacityIsSound(capacity)' /\ LimitIsSound(limit)'
      /\ stray' = {} => CapacityKnows(content, capacity)' /\ LimitKnows(content, limit)'
  BY <1>1, <1>6, InitializeFollows
<1> QED
  BY <1>1, <1>2, <1>5, <1>7, Primed DEF CachesInv

LEMMA DeinitializeNetObjectFollows ==
    ASSUME CachesInv, NEW c \in Containers, DeinitializeNetObject(c)
    PROVE  CachesInv'
<1> DEFINE xs == ExtensionsOf(c) \cup (IF LeavesParent(c) THEN ExtensionsOf(Shared) ELSE {})
<1>1. /\ c \in registered[c] /\ DeinitializeExtensions(xs, {c})
      /\ registered' = [g \in Groups |-> IF g = c \/ (g = Shared /\ LeavesParent(c))
                                          THEN registered[g] \ {c} ELSE registered[g]]
      /\ content' = content /\ parent' = parent /\ dynamic' = dynamic
  BY DEF DeinitializeNetObject
<1>2. GroupsAreSound /\ AreStorages(content) /\ c \in Groups /\ Shared \in Groups /\ c # Shared
  BY ItemsAssumption DEF CachesInv, Groups
<1>3. LeavesParent(c) <=> parent[c] = Shared
  BY <1>1, <1>2 DEF GroupsAreSound, LeavesParent
<1>4. \A g : ExtensionsOf(g)' = ExtensionsOf(g)
  BY <1>1 DEF ExtensionsOf
<1>5. GroupsAreSound'
  <2>1. registered' \in [Groups -> SUBSET Containers]
    BY <1>1, <1>2 DEF GroupsAreSound
  <2>2. \A e \in Containers : registered'[e] = IF e = c THEN registered[e] \ {c} ELSE registered[e]
    BY <1>1, ItemsAssumption DEF Groups
  <2>3. registered'[Shared] = IF LeavesParent(c) THEN registered[Shared] \ {c} ELSE registered[Shared]
    BY <1>1, <1>2
  <2>4. \A e \in Containers : registered'[e] \subseteq {e}
    BY <1>2, <2>2 DEF GroupsAreSound
  <2>5. registered'[Shared] = {e \in Containers : parent[e] = Shared /\ e \in registered'[e]}
    <3>1. registered'[Shared] \subseteq Containers
      BY <1>2, <2>1
    <3>2. c \in registered'[Shared] <=> parent[c] = Shared /\ c \in registered'[c]
      BY <1>1, <1>2, <1>3, <2>2, <2>3 DEF GroupsAreSound
    <3>3. \A e \in Containers : e \in registered[Shared] <=> parent[e] = Shared /\ e \in registered[e]
      BY <1>2 DEF GroupsAreSound
    <3>4. \A e \in Containers \ {c} : e \in registered'[Shared] <=> parent[e] = Shared /\ e \in registered'[e]
      BY <2>2, <2>3, <3>3
    <3> QED
      BY <3>1, <3>2, <3>4
  <2> QED
    BY <1>1, <1>2, <1>4, <2>1, <2>4, <2>5 DEF GroupsAreSound
<1>6. \A x \in Extensions, d \in Containers : SetUp(x, d)' <=> SetUp(x, d) /\ ~(x \in xs /\ d \in {c})
  <2> TAKE x \in Extensions, d \in Containers
  <2>1. SetUp(x, d)' <=> \E g \in Groups : x \in ExtensionsOf(g) /\ d \in registered'[g]
    BY <1>4 DEF SetUp
  <2>2. \A g \in Groups : d \in registered'[g]
                          <=> d \in registered[g] /\ ~(d = c /\ (g = c \/ (g = Shared /\ LeavesParent(c))))
    BY <1>1
  <2>3. \A g \in Groups : c \in registered[g] => g = c \/ (g = Shared /\ LeavesParent(c))
    BY <1>2, <1>3, RegisteredHere
  <2> QED
    BY <1>2, <2>1, <2>2, <2>3 DEF SetUp
<1> HIDE DEF xs
<1>7. /\ CapacityIsSound(capacity)' /\ LimitIsSound(limit)'
      /\ stray' = {} => CapacityKnows(content, capacity)' /\ LimitKnows(content, limit)'
  BY <1>1, <1>6, DeinitializeFollows
<1> QED
  BY <1>1, <1>2, <1>5, <1>7, Primed DEF CachesInv

LEMMA SetParentGroupFollows ==
    ASSUME CachesInv, NEW c \in Containers, SetParentGroup(c)
    PROVE  CachesInv'
<1> DEFINE xs == ExtensionsOf(Shared)
           cs == registered[c] \ registered[Shared]
<1>1. /\ parent[c] = NoGroup /\ parent' = [parent EXCEPT ![c] = Shared]
      /\ registered' = [registered EXCEPT ![Shared] = @ \cup cs]
      /\ InitializeExtensions(xs, cs) /\ content' = content /\ dynamic' = dynamic
  BY DEF SetParentGroup
<1>2. GroupsAreSound /\ AreStorages(content) /\ c \in Groups /\ Shared \in Groups /\ c # Shared
  BY ItemsAssumption DEF CachesInv, Groups
<1>3. cs \subseteq {c} /\ cs \in SUBSET Containers
  BY <1>2 DEF GroupsAreSound
<1>4. \A g : ExtensionsOf(g)' = ExtensionsOf(g)
  BY <1>1 DEF ExtensionsOf
<1>5. \A g \in Groups : registered'[g] = IF g = Shared THEN registered[g] \cup cs ELSE registered[g]
  BY <1>1, <1>2 DEF GroupsAreSound
<1>6. GroupsAreSound'
  <2>1. registered' \in [Groups -> SUBSET Containers]
    BY <1>1, <1>2, <1>3 DEF GroupsAreSound
  <2>2. /\ parent' \in [Containers -> {Shared, NoGroup}]
        /\ \A e \in Containers : parent'[e] = IF e = c THEN Shared ELSE parent[e]
    BY <1>1, <1>2 DEF GroupsAreSound
  <2>3. \A e \in Containers : registered'[e] = registered[e]
    BY <1>5, ItemsAssumption DEF Groups
  <2>4. \A e \in Containers : registered'[e] \subseteq {e}
    BY <1>2, <2>3 DEF GroupsAreSound
  <2>5. registered'[Shared] = {e \in Containers : parent'[e] = Shared /\ e \in registered'[e]}
    <3>1. registered'[Shared] \subseteq Containers
      BY <1>2, <2>1
    <3>2. c \in registered'[Shared] <=> parent'[c] = Shared /\ c \in registered'[c]
      BY <1>1, <1>2, <1>5, <2>2, <2>3 DEF GroupsAreSound
    <3>3. \A e \in Containers : e \in registered[Shared] <=> parent[e] = Shared /\ e \in registered[e]
      BY <1>2 DEF GroupsAreSound
    <3> HIDE DEF cs
    <3>4. \A e \in Containers \ {c} :
             e \in registered'[Shared] <=> parent'[e] = Shared /\ e \in registered'[e]
      BY <1>2, <1>3, <1>5, <2>2, <2>3, <3>3
    <3> QED
      BY <3>1, <3>2, <3>4
  <2> QED
    BY <1>1, <1>2, <1>4, <2>1, <2>2, <2>4, <2>5 DEF GroupsAreSound
<1>7. \A x \in Extensions, d \in Containers : SetUp(x, d)' <=> SetUp(x, d) \/ (x \in xs /\ d \in cs)
  <2> TAKE x \in Extensions, d \in Containers
  <2>1. SetUp(x, d)' <=> \E g \in Groups : x \in ExtensionsOf(g) /\ d \in registered'[g]
    BY <1>4 DEF SetUp
  <2> HIDE DEF cs
  <2> QED
    BY <1>2, <1>5, <2>1 DEF SetUp
<1> HIDE DEF xs, cs
<1>8. /\ CapacityIsSound(capacity)' /\ LimitIsSound(limit)'
      /\ stray' = {} => CapacityKnows(content, capacity)' /\ LimitKnows(content, limit)'
  BY <1>1, <1>3, <1>7, InitializeFollows
<1> QED
  BY <1>1, <1>2, <1>6, <1>8, Primed DEF CachesInv

LEMMA ClearParentGroupFollows ==
    ASSUME CachesInv, NEW c \in Containers, ClearParentGroup(c)
    PROVE  CachesInv'
<1> DEFINE xs == ExtensionsOf(Shared)
           cs == registered[c] \cap registered[Shared]
<1>1. /\ parent[c] = Shared /\ parent' = [parent EXCEPT ![c] = NoGroup]
      /\ registered' = [registered EXCEPT ![Shared] = @ \ cs]
      /\ DeinitializeExtensions(xs, cs) /\ content' = content /\ dynamic' = dynamic
  BY DEF ClearParentGroup
<1>2. GroupsAreSound /\ AreStorages(content) /\ c \in Groups /\ Shared \in Groups /\ c # Shared
      /\ NoGroup # Shared
  BY ItemsAssumption DEF CachesInv, Groups
<1>3. cs \subseteq {c} /\ cs \in SUBSET Containers /\ (c \in registered[c] => c \in cs)
  BY <1>1, <1>2 DEF GroupsAreSound
<1>4. \A g : ExtensionsOf(g)' = ExtensionsOf(g)
  BY <1>1 DEF ExtensionsOf
<1>5. \A g \in Groups : registered'[g] = IF g = Shared THEN registered[g] \ cs ELSE registered[g]
  BY <1>1, <1>2 DEF GroupsAreSound
<1>6. GroupsAreSound'
  <2>1. registered' \in [Groups -> SUBSET Containers]
    BY <1>1, <1>2, <1>3 DEF GroupsAreSound
  <2>2. /\ parent' \in [Containers -> {Shared, NoGroup}]
        /\ \A e \in Containers : parent'[e] = IF e = c THEN NoGroup ELSE parent[e]
    BY <1>1, <1>2 DEF GroupsAreSound
  <2>3. \A e \in Containers : registered'[e] = registered[e]
    BY <1>5, ItemsAssumption DEF Groups
  <2>4. \A e \in Containers : registered'[e] \subseteq {e}
    BY <1>2, <2>3 DEF GroupsAreSound
  <2>5. registered'[Shared] = {e \in Containers : parent'[e] = Shared /\ e \in registered'[e]}
    <3>1. registered'[Shared] \subseteq Containers
      BY <1>2, <2>1
    <3>2. c \in registered'[Shared] <=> parent'[c] = Shared /\ c \in registered'[c]
      BY <1>1, <1>2, <1>5, <2>2, <2>3, <1>3 DEF GroupsAreSound
    <3>3. \A e \in Containers : e \in registered[Shared] <=> parent[e] = Shared /\ e \in registered[e]
      BY <1>2 DEF GroupsAreSound
    <3> HIDE DEF cs
    <3>4. \A e \in Containers \ {c} :
             e \in registered'[Shared] <=> parent'[e] = Shared /\ e \in registered'[e]
      BY <1>2, <1>3, <1>5, <2>2, <2>3, <3>3
    <3> QED
      BY <3>1, <3>2, <3>4
  <2> QED
    BY <1>1, <1>2, <1>4, <2>1, <2>2, <2>4, <2>5 DEF GroupsAreSound
<1>7. \A x \in Extensions, d \in Containers : SetUp(x, d)' <=> SetUp(x, d) /\ ~(x \in xs /\ d \in cs)
  <2> TAKE x \in Extensions, d \in Containers
  <2>1. SetUp(x, d)' <=> \E g \in Groups : x \in ExtensionsOf(g) /\ d \in registered'[g]
    BY <1>4 DEF SetUp
  <2>2. \A g \in Groups : x \in ExtensionsOf(g) /\ x \in xs => g = Shared
    BY <1>2 DEF GroupsAreSound
  <2> HIDE DEF cs
  <2> QED
    BY <1>2, <1>5, <2>1, <2>2 DEF SetUp
<1> HIDE DEF xs, cs
<1>8. /\ CapacityIsSound(capacity)' /\ LimitIsSound(limit)'
      /\ stray' = {} => CapacityKnows(content, capacity)' /\ LimitKnows(content, limit)'
  BY <1>1, <1>3, <1>7, DeinitializeFollows
<1> QED
  BY <1>1, <1>2, <1>6, <1>8, Primed DEF CachesInv

LEMMA AddExtensionFollows ==
    ASSUME CachesInv, NEW g \in Groups, NEW x \in Extensions, AddExtension(g, x)
    PROVE  CachesInv'
<1> DEFINE cs == registered[g]
<1>1. /\ \A h \in Groups : x \notin ExtensionsOf(h)
      /\ dynamic' = [dynamic EXCEPT ![g] = @ \cup {x}]
      /\ InitializeExtensions({x}, cs) /\ content' = content /\ parent' = parent
      /\ registered' = registered
  BY DEF AddExtension
<1>2. GroupsAreSound /\ AreStorages(content) /\ cs \in SUBSET Containers
  BY DEF CachesInv, GroupsAreSound
<1>3. \A h \in Groups : ExtensionsOf(h)' = IF h = g THEN ExtensionsOf(h) \cup {x} ELSE ExtensionsOf(h)
  BY <1>1, <1>2 DEF ExtensionsOf, GroupsAreSound
<1>4. GroupsAreSound'
  <2>1. dynamic' \in [Groups -> SUBSET Extensions]
    BY <1>1, <1>2 DEF GroupsAreSound
  <2>2. \A h \in Groups : Defaults[h] \cap dynamic'[h] = {}
    BY <1>1, <1>2 DEF GroupsAreSound, ExtensionsOf
  <2>3. \A h, i \in Groups : ExtensionsOf(h)' \cap ExtensionsOf(i)' # {} => h = i
    BY <1>1, <1>2, <1>3 DEF GroupsAreSound
  <2> QED
    BY <1>1, <1>2, <2>1, <2>2, <2>3 DEF GroupsAreSound
<1>5. \A y \in Extensions, d \in Containers : SetUp(y, d)' <=> SetUp(y, d) \/ (y \in {x} /\ d \in cs)
  <2> TAKE y \in Extensions, d \in Containers
  <2>1. SetUp(y, d)' <=> \E h \in Groups : y \in ExtensionsOf(h)' /\ d \in registered[h]
    BY <1>1 DEF SetUp
  <2> QED
    BY <1>3, <2>1 DEF SetUp
<1> HIDE DEF cs
<1>6. /\ CapacityIsSound(capacity)' /\ LimitIsSound(limit)'
      /\ stray' = {} => CapacityKnows(content, capacity)' /\ LimitKnows(content, limit)'
  BY <1>1, <1>2, <1>5, InitializeFollows
<1> QED
  BY <1>1, <1>2, <1>4, <1>6, Primed DEF CachesInv

LEMMA RemoveExtensionFollows ==
    ASSUME CachesInv, NEW g \in Groups, NEW x \in Extensions, RemoveExtension(g, x)
    PROVE  CachesInv'
<1> DEFINE cs == registered[g]
<1>1. /\ x \in dynamic[g]
      /\ dynamic' = [dynamic EXCEPT ![g] = @ \ {x}]
      /\ DeinitializeExtensions({x}, cs) /\ content' = content /\ parent' = parent
      /\ registered' = registered
  BY DEF RemoveExtension
<1>2. GroupsAreSound /\ AreStorages(content) /\ cs \in SUBSET Containers
  BY DEF CachesInv, GroupsAreSound
<1>3. \A h \in Groups : ExtensionsOf(h)' = IF h = g THEN ExtensionsOf(h) \ {x} ELSE ExtensionsOf(h)
  BY <1>1, <1>2 DEF ExtensionsOf, GroupsAreSound
<1>4. GroupsAreSound'
  <2>1. dynamic' \in [Groups -> SUBSET Extensions]
    BY <1>1, <1>2 DEF GroupsAreSound
  <2>2. \A h \in Groups : Defaults[h] \cap dynamic'[h] = {}
    BY <1>1, <1>2 DEF GroupsAreSound
  <2>3. \A h, i \in Groups : ExtensionsOf(h)' \cap ExtensionsOf(i)' # {} => h = i
    BY <1>1, <1>2, <1>3 DEF GroupsAreSound
  <2> QED
    BY <1>1, <1>2, <2>1, <2>2, <2>3 DEF GroupsAreSound
<1>5. \A y \in Extensions, d \in Containers : SetUp(y, d)' <=> SetUp(y, d) /\ ~(y \in {x} /\ d \in cs)
  <2> TAKE y \in Extensions, d \in Containers
  <2>1. SetUp(y, d)' <=> \E h \in Groups : y \in ExtensionsOf(h)' /\ d \in registered[h]
    BY <1>1 DEF SetUp
  <2>2. \A h \in Groups : x \in ExtensionsOf(h) => h = g
    BY <1>1, <1>2 DEF GroupsAreSound, ExtensionsOf
  <2> QED
    BY <1>3, <2>1, <2>2 DEF SetUp
<1> HIDE DEF cs
<1>6. /\ CapacityIsSound(capacity)' /\ LimitIsSound(limit)'
      /\ stray' = {} => CapacityKnows(content, capacity)' /\ LimitKnows(content, limit)'
  BY <1>1, <1>2, <1>5, DeinitializeFollows
<1> QED
  BY <1>1, <1>2, <1>4, <1>6, Primed DEF CachesInv

\* The stacks of an entry that lost some copies but not all, and those of one
\* of which a stack was split, are not empty.
LEMMA RemovedIsStocked ==
    ASSUME NEW e, IsStocked(e), NEW n \in Nat \ {0}, n < StackSum(e)
    PROVE  IsStocked(RemoveFromAnyStack(e, n))
<1>1. IsEntry(e) /\ Full(e) /\ e.item \in Items
  BY DEF IsStocked
<1>2. IsEntry(RemoveFromAnyStack(e, n)) /\ RemoveFromAnyStack(e, n).item = e.item
  BY <1>1, RemoveFromAnyStackContinues DEF Continues
<1> QED
  BY <1>1, <1>2, RemoveFromAnyStackHolds DEF IsStocked

LEMMA SplitIsStocked ==
    ASSUME NEW e, IsStocked(e), NEW s \in DOMAIN e.stacks, NEW n \in Nat \ {0}, n < e.stacks[s]
    PROVE  IsStocked(SplitStack(e, s, n))
<1>1. IsEntry(e) /\ Full(e) /\ e.item \in Items
  BY DEF IsStocked
<1>2. IsEntry(SplitStack(e, s, n)) /\ SplitStack(e, s, n).item = e.item
  BY <1>1, SplitStackContinues DEF Continues
<1>3. Full(SplitStack(e, s, n))
  BY <1>1, SplitStackHolds
<1> QED
  BY <1>1, <1>2, <1>3 DEF IsStocked

LEMMA ContentFollows ==
    ASSUME CachesInv, ContentNext
    PROVE  CachesInv'
<1>1. /\ AreStorages(content) /\ Amounts \subseteq Nat \ {0}
      /\ \A S : Heard(S) \subseteq S
  BY ItemsAssumption DEF CachesInv, Heard
<1>2. \A c \in Containers : /\ IsStorage(content[c]) /\ Entries(c) = content[c].entries
                            /\ \A k \in DOMAIN Entries(c) : IsStocked(Entries(c)[k])
  BY <1>1 DEF AreStorages, Entries, IsStorage
<1>3. ASSUME NEW c \in Containers, NEW item \in Items, NEW n \in Amounts, NEW onlyNew,
             AddItemStack(c, item, n, onlyNew)
      PROVE  CachesInv'
  <2>1. Becomes(c, Added(content[c], item, n, onlyNew))
    BY <1>3 DEF AddItemStack
  <2>2. /\ IsStorage(Added(content[c], item, n, onlyNew))
        /\ Added(content[c], item, n, onlyNew).gen >= content[c].gen
    BY <1>1, <1>2, AddedIsStorage
  <2> QED
    BY <2>1, <2>2, BecomesFollows
<1>4. ASSUME NEW c \in Containers, NEW s \in [item : Items, copies : Amounts],
             NEW t \in [item : Items, copies : Amounts], AddItemStacks(c, <<s, t>>)
      PROVE  CachesInv'
  <2> DEFINE there == AddedAll(Known, c, <<s, t>>, 2)
  <2>1. Becomes(c, there)
    BY <1>4 DEF AddItemStacks
  <2>2. AreStacks(<<s, t>>, 2)
    <3>1. DOMAIN <<s, t>> = {1, 2} /\ <<s, t>>[1] = s /\ <<s, t>>[2] = t
      OBVIOUS
    <3>2. /\ s.item \in Items /\ s.copies \in Nat \ {0}
          /\ t.item \in Items /\ t.copies \in Nat \ {0}
      BY <1>1
    <3> QED
      BY <3>1, <3>2 DEF AreStacks
  <2>3. IsStorage(there) /\ there.gen >= content[c].gen
    BY <1>2, <2>2, AddedAllIsStorage
  <2> HIDE DEF there
  <2> QED
    BY <2>1, <2>3, BecomesFollows
<1>5. ASSUME NEW c \in Containers, NEW k \in Keys, NEW n \in Amounts, RemoveFromEntry(c, k, n)
      PROVE  CachesInv'
  <2> DEFINE e == Entries(c)[k]
  <2>1. k \in DOMAIN Entries(c) /\ IsStocked(e) /\ Entries(c) = content[c].entries
    BY <1>2, <1>5 DEF RemoveFromEntry
  <2>2. CASE n >= StackSum(e)
    <3> DEFINE st == [content[c] EXCEPT !.entries = Without(content[c].entries, {k})]
    <3>1. Becomes(c, st)
      BY <1>5, <2>1, <2>2 DEF RemoveFromEntry
    <3>2. IsStorage(st) /\ st.gen = content[c].gen
      BY <1>2, WithoutIsStorage, ZenonT(30)
    <3>3. st.gen >= content[c].gen
      BY <1>2, <3>2 DEF IsStorage
    <3> HIDE DEF st
    <3> QED
      BY <3>1, <3>2, <3>3, BecomesFollows
  <2>3. CASE ~(n >= StackSum(e))
    <3> DEFINE f == RemoveFromAnyStack(e, n)
               st == [content[c] EXCEPT !.entries[k] = f]
    <3>1. Becomes(c, st)
      BY <1>5, <2>1, <2>3 DEF RemoveFromEntry
    <3>2. IsStocked(f)
      <4>1. n < StackSum(e) /\ n \in Nat \ {0}
        BY <1>1, <2>1, <2>3, StockedSum
      <4> HIDE DEF e
      <4> QED
        BY <2>1, <4>1, RemovedIsStocked
    <3> HIDE DEF f
    <3>3. IsStorage(st) /\ st.gen = content[c].gen
      BY <1>2, <2>1, <3>2, EditedIsStorage
    <3>4. st.gen >= content[c].gen
      BY <1>2, <3>3 DEF IsStorage
    <3> HIDE DEF st
    <3> QED
      BY <3>1, <3>3, <3>4, BecomesFollows
  <2> QED
    BY <2>2, <2>3
<1>6. ASSUME NEW c \in Containers, NEW k \in Keys, NEW n \in Amounts, NEW s, Split(c, k, s, n)
      PROVE  CachesInv'
  <2> DEFINE e == Entries(c)[k]
             f == SplitStack(e, s, n)
             st == [content[c] EXCEPT !.entries[k] = f]
  <2>1. /\ k \in DOMAIN Entries(c) /\ IsStocked(e) /\ Entries(c) = content[c].entries
        /\ s \in DOMAIN e.stacks /\ n < e.stacks[s] /\ n \in Nat \ {0}
    BY <1>1, <1>2, <1>6 DEF Split
  <2>2. Becomes(c, st)
    BY <1>6, <2>1 DEF Split
  <2>3. IsStocked(f)
    <3> HIDE DEF e
    <3> QED
      BY <2>1, SplitIsStocked
  <2> HIDE DEF f
  <2>4. IsStorage(st) /\ st.gen = content[c].gen
    BY <1>2, <2>1, <2>3, EditedIsStorage
  <2>5. st.gen >= content[c].gen
    BY <1>2, <2>4 DEF IsStorage
  <2> HIDE DEF st
  <2> QED
    BY <2>2, <2>4, <2>5, BecomesFollows
<1>7. ASSUME NEW c \in Containers, NEW d \in Containers, Dump(c, d)
      PROVE  CachesInv'
  <2>1. PICK keys \in SUBSET DOMAIN Entries(c) : DumpTo(c, d, keys)
    BY <1>7 DEF Dump
  <2> QED
    BY <1>7, <2>1, DumpFollows DEF Dump
<1> QED
  BY <1>1, <1>3, <1>4, <1>5, <1>6, <1>7 DEF ContentNext

\* Another maximum changes what is over it, not what is known.
LEMMA SetMaxCapacityFollows ==
    ASSUME CachesInv, NEW new \in Maxima, SetMaxCapacity(new)
    PROVE  CachesInv'
<1>1. /\ capacity'.cache = capacity.cache /\ capacity'.total = capacity.total
      /\ capacity'.maximum = new
      /\ limit' = limit /\ stray' = stray /\ content' = content /\ UNCHANGED groupVars
  BY DEF SetMaxCapacity, contentVars
<1>2. GroupsAreSound' /\ \A x, c : SetUp(x, c)' <=> SetUp(x, c)
  BY <1>1, GroupsStay DEF CachesInv
<1>3. CapacityIsSound(capacity') /\ LimitIsSound(limit')
  BY <1>1, ItemsAssumption DEF CachesInv, CapacityIsSound
<1>4. \A c : CachedOf(capacity', c) = CachedOf(capacity, c)
  BY <1>1 DEF CachedOf
<1>5. stray' = {} => CapacityKnows(content, capacity)' /\ LimitKnows(content, limit)'
  BY <1>1, <1>2, <1>4, Primed DEF CachesInv, CapacityKnows, LimitKnows
<1> QED
  BY <1>1, <1>2, <1>3, <1>5, Primed DEF CachesInv

LEMMA GroupsFollow ==
    ASSUME CachesInv, GroupNext
    PROVE  CachesInv'
<1>1. \A S : Heard(S) \subseteq S
  BY DEF Heard
<1>2. CASE \E c \in Heard(Containers) :
              \/ InitializeNetObject(c) \/ DeinitializeNetObject(c)
              \/ SetParentGroup(c) \/ ClearParentGroup(c)
  BY <1>1, <1>2, InitializeNetObjectFollows, DeinitializeNetObjectFollows,
     SetParentGroupFollows, ClearParentGroupFollows
<1>3. CASE \E g \in Heard(Groups), x \in Extensions : AddExtension(g, x) \/ RemoveExtension(g, x)
  BY <1>1, <1>3, AddExtensionFollows, RemoveExtensionFollows
<1>4. CASE \E new \in Heard(Maxima) : SetMaxCapacity(new)
  BY <1>1, <1>4, SetMaxCapacityFollows
<1> QED
  BY <1>2, <1>3, <1>4 DEF GroupNext

\* Without containers there is nothing to know.
LEMMA CachesStart == Init => CachesInv
<1> SUFFICES ASSUME Init PROVE CachesInv
  OBVIOUS
<1>1. IsStorage(EmptyStorage)
  BY EmptyIsMeasured DEF EmptyStorage, IsStorage, KeyGenReset, IsMeasured
<1>2. AreStorages(content)
  BY <1>1 DEF Init, AreStorages
<1>3. GroupsAreSound
  <2>1. Shared \in Groups /\ \A c \in Containers : c \in Groups
    BY DEF Groups
  <2>2. \A g \in Groups : registered[g] = {} /\ dynamic[g] = {} /\ ExtensionsOf(g) = Defaults[g]
    BY DEF Init, ExtensionsOf
  <2> QED
    BY <2>1, <2>2, DefaultsAssumption DEF Init, GroupsAreSound
<1>4. \A x, c : ~SetUp(x, c)
  BY DEF Init, SetUp
<1>5. DOMAIN Empty = {} /\ IsTable(Empty) /\ AreCaches(Empty)
  BY EmptyIsMeasured DEF IsTable, AreCaches
<1>6. SumOf(Empty) = 0
  BY <1>5, SumOverNone DEF SumOf
<1>7. SumOfCaches(Empty) = Measure(0, 0)
  BY <1>5, SumOverNone DEF SumOfCaches, SumOfMeasures, SumOf
<1>8. CapacityIsSound(capacity) /\ LimitIsSound(limit)
  BY <1>5, <1>6, <1>7, ItemsAssumption DEF Init, CapacityIsSound, LimitIsSound
<1>9. CapacityKnows(content, capacity) /\ LimitKnows(content, limit)
  BY <1>4, <1>5 DEF Init, CapacityKnows, LimitKnows, CachedOf
<1> QED
  BY <1>2, <1>3, <1>8, <1>9 DEF CachesInv

\* The inductive invariant.
THEOREM CachesAlwaysFollow == Spec => []CachesInv
<1>1. CachesInv /\ [Next]_vars => CachesInv'
  <2> SUFFICES ASSUME CachesInv, [Next]_vars PROVE CachesInv'
    OBVIOUS
  <2>1. CASE GroupNext
    BY <2>1, GroupsFollow
  <2>2. CASE ContentNext
    BY <2>2, ContentFollows
  <2>3. CASE UNCHANGED vars
    <3>1. UNCHANGED groupVars /\ content' = content /\ limit' = limit /\ capacity' = capacity
          /\ stray' = stray
      BY <2>3 DEF vars, contentVars, cacheVars
    <3>2. GroupsAreSound' /\ \A x, c : SetUp(x, c)' <=> SetUp(x, c)
      BY <3>1, GroupsStay DEF CachesInv
    <3>3. stray' = {} => CapacityKnows(content, capacity)' /\ LimitKnows(content, limit)'
      BY <3>1, <3>2, Primed DEF CachesInv, CapacityKnows, LimitKnows
    <3> QED
      BY <3>1, <3>2, <3>3, Primed DEF CachesInv
  <2> QED
    BY <2>1, <2>2, <2>3 DEF Next
<1> QED
  BY <1>1, CachesStart, PTL DEF Spec

-----------------------------------------------------------------------------
(* Caches and contents.                                                     *)

\* A sum over caches is that over any containers that cover them, if those
\* without a cache count nothing.
LEMMA SumOfCachesOver ==
    ASSUME NEW f, AreCaches(f), NEW T \in SUBSET DOMAIN f,
           \A c \in DOMAIN f \ T : f[c] = Empty
    PROVE  SumOfCaches(f) = SumOfMeasures([c \in T |-> SumOfMeasures(f[c])])
<1> DEFINE S == DOMAIN f
           w(c) == SumOfMeasures(f[c]).weight
           v(c) == SumOfMeasures(f[c]).volume
           weights == [c \in S |-> w(c)]
           volumes == [c \in S |-> v(c)]
<1>1. \A c \in S : SumOfMeasures(f[c]) \in Measures
  BY MeasuredSum DEF AreCaches
<1>2. \A c \in S : weights[c] \in Int /\ volumes[c] \in Int
  BY <1>1 DEF Measures
<1>3. \A c \in S \ T : weights[c] = 0 /\ volumes[c] = 0
  <2>1. SumOfMeasures(Empty) = Measure(0, 0)
    BY EmptyIsMeasured, SumOverNone DEF SumOfMeasures, SumOf
  <2> QED
    BY <2>1 DEF Measure
<1> DEFINE fewerWeights == [c \in T |-> w(c)]
           fewerVolumes == [c \in T |-> v(c)]
<1>4. IsFiniteSet(S) /\ IsFiniteSet(T)
  BY ItemsAssumption, FS_Subset DEF AreCaches
<1>5. SumOf(weights) = SumOf(fewerWeights)
  <2>1. SumOver(weights, S) = SumOver(weights, T)
    <3> HIDE DEF weights
    <3> QED
      BY <1>2, <1>3, <1>4, SumOverPart
  <2>2. \A c \in T : weights[c] = fewerWeights[c]
    OBVIOUS
  <2>3. DOMAIN weights = S /\ DOMAIN fewerWeights = T
    OBVIOUS
  <2> HIDE DEF weights, fewerWeights
  <2>4. SumOver(weights, T) = SumOver(fewerWeights, T)
    BY <2>2, SumOverSame
  <2> QED
    BY <2>1, <2>3, <2>4 DEF SumOf
<1>6. SumOf(volumes) = SumOf(fewerVolumes)
  <2>1. SumOver(volumes, S) = SumOver(volumes, T)
    <3> HIDE DEF volumes
    <3> QED
      BY <1>2, <1>3, <1>4, SumOverPart
  <2>2. \A c \in T : volumes[c] = fewerVolumes[c]
    OBVIOUS
  <2>3. DOMAIN volumes = S /\ DOMAIN fewerVolumes = T
    OBVIOUS
  <2> HIDE DEF volumes, fewerVolumes
  <2>4. SumOver(volumes, T) = SumOver(fewerVolumes, T)
    BY <2>2, SumOverSame
  <2> QED
    BY <2>1, <2>3, <2>4 DEF SumOf
<1>7. SumOfCaches(f) = Measure(SumOf(weights), SumOf(volumes))
  BY DEF SumOfCaches, SumOfMeasures
<1>8. SumOfMeasures([c \in T |-> SumOfMeasures(f[c])]) = Measure(SumOf(fewerWeights), SumOf(fewerVolumes))
  BY DEF SumOfMeasures
<1> HIDE DEF S, weights, volumes, fewerWeights, fewerVolumes
<1> QED
  BY <1>5, <1>6, <1>7, <1>8

\* The capacity's totals are the measure of what is in the containers it is
\* set up for; the item limit has the counts of the only container in use.
LEMMA KnownIsContent == CachesInv => CachesAreContent
<1> SUFFICES ASSUME CachesInv PROVE CachesAreContent
  OBVIOUS
<1> DEFINE cached == [c \in Containers |-> CachedOf(capacity, c)]
           here   == {c \in Containers : SetUp("capacity", c)}
<1>1. IsFiniteSet(Containers) /\ AreCaches(capacity.cache) /\ DOMAIN capacity.cache \subseteq Containers
  BY ItemsAssumption DEF CachesInv, CapacityIsSound, AreCaches
<1>2. /\ AreCaches(cached) /\ DOMAIN cached = Containers
      /\ \A c \in Containers : cached[c] = CachedOf(capacity, c)
      /\ cached = [c \in Containers |-> cached[c]]
  BY <1>1, EmptyIsMeasured DEF AreCaches, CachedOf
<1>3. /\ \A c \in DOMAIN capacity.cache : cached[c] = capacity.cache[c]
      /\ \A c \in Containers \ DOMAIN capacity.cache : cached[c] = Empty
  BY <1>1 DEF CachedOf
<1> HIDE DEF cached
<1>4. SumOfCaches(capacity.cache) = SumOfCaches(cached)
  <2> DEFINE D == DOMAIN capacity.cache
  <2>1. [c \in D |-> SumOfMeasures(capacity.cache[c])] = [c \in D |-> SumOfMeasures(cached[c])]
    BY <1>3
  <2>2. SumOfCaches(cached) = SumOfMeasures([c \in D |-> SumOfMeasures(cached[c])])
    <3> HIDE DEF D
    <3>1. D \in SUBSET Containers /\ \A c \in Containers \ D : cached[c] = Empty
      BY <1>1, <1>3 DEF D
    <3> QED
      BY <1>1, <1>2, <3>1, SumOfCachesOver
  <2> QED
    BY <2>1, <2>2 DEF SumOfCaches
<1>5. CapacityIsContent
  <2> SUFFICES ASSUME stray = {}
               PROVE  capacity.total = SumOfMeasures([c \in here |-> TrueMeasure(c)])
    BY DEF CapacityIsContent
  <2>1. \A c \in Containers : cached[c] = IF c \in here THEN MeasuresOf(Entries(c)) ELSE Empty
    BY <1>2 DEF CachesInv, CapacityKnows, Entries
  <2>2. [c \in here |-> TrueMeasure(c)] = [c \in here |-> SumOfMeasures(cached[c])]
    BY <2>1 DEF TrueMeasure, MeasuresOf
  <2>3. SumOfCaches(cached) = SumOfMeasures([c \in here |-> SumOfMeasures(cached[c])])
    <3>1. here \in SUBSET Containers /\ \A c \in Containers \ here : cached[c] = Empty
      BY <2>1
    <3> HIDE DEF here
    <3> QED
      BY <1>1, <1>2, <3>1, SumOfCachesOver
  <2> QED
    BY <1>4, <2>2, <2>3 DEF CachesInv, CapacityIsSound
<1>6. LimitIsContent
  BY DEF CachesInv, LimitIsSound, LimitKnows, LimitIsContent, CountsOf, Entries
<1> QED
  BY <1>5, <1>6 DEF CachesAreContent

THEOREM CachesStayContent == Spec => []CachesAreContent
BY CachesAlwaysFollow, KnownIsContent, PTL

-----------------------------------------------------------------------------
(* Dump.                                                                    *)

\* A sum is no less than that of no larger numbers.
LEMMA SumOverMonotone ==
    ASSUME NEW S, IsFiniteSet(S), NEW f, NEW g,
           \A k \in S : f[k] \in Int /\ g[k] \in Int /\ f[k] <= g[k]
    PROVE  SumOver(f, S) <= SumOver(g, S)
<1> DEFINE more == [k \in S |-> g[k] - f[k]]
<1>1. \A k \in S : more[k] \in Nat /\ more[k] \in Int /\ g[k] = f[k] + more[k]
  OBVIOUS
<1> HIDE DEF more
<1>2. SumOver(g, S) = SumOver(f, S) + SumOver(more, S)
  BY <1>1, SumOverPlus
<1>3. SumOver(more, S) \in Nat /\ SumOver(f, S) \in Int
  BY <1>1, SumOverNat, SumOverInt
<1> QED
  BY <1>2, <1>3

\* An addition adds no fewer copies than it is asked for; where one stack
\* cannot take them, AddToNewStacks makes every stack with all of them.
LEMMA NewStacksAddAtLeast ==
    ASSUME NEW e, IsEntry(e), NEW n \in Nat \ {0}
    PROVE  StackSum(AddToNewStacks(e, n)) >= StackSum(e) + n
<1> DEFINE D == DOMAIN e.stacks
           m == StacksNeeded(n, e.limit)
           x == e.gen + 1
           made == x .. (e.gen + m)
           stacks == [k \in D \cup made |-> IF k \in made THEN n ELSE e.stacks[k]]
<1>1. AddToNewStacks(e, n).stacks = stacks /\ DOMAIN stacks = D \cup made
  BY DEF AddToNewStacks
<1>2. m \in Nat \ {0}
  <2>1. CASE e.limit = UnlimitedStack
    BY <2>1 DEF StacksNeeded
  <2>2. CASE e.limit # UnlimitedStack
    <3>1. e.limit \in Nat \ {0}
      BY <2>2 DEF IsEntry, Limits
    <3> QED
      BY <2>2, <3>1, StacksNeededBounds
  <2> QED
    BY <2>1, <2>2
<1> HIDE DEF m
<1>3. x \in made /\ D \cap made = {} /\ e.gen \in Int /\ x \in Int /\ e.gen + m \in Int
  BY <1>2 DEF IsEntry, KeyGenReset
<1>4. IsFiniteSet(D) /\ \A k \in D : e.stacks[k] \in Int
  BY StacksFinite DEF IsEntry
<1>5. IsFiniteSet(made)
  BY <1>3, FS_Interval
<1>6. /\ \A k \in made : stacks[k] = n
      /\ \A k \in D : stacks[k] = e.stacks[k]
      /\ \A k \in D \cup made : stacks[k] \in Int
      /\ \A k \in made : stacks[k] \in Int
  BY <1>3, <1>4
<1> HIDE DEF stacks, made, x, D
<1>7. SumOver(stacks, D \cup made) = SumOver(stacks, D) + SumOver(stacks, made)
  BY <1>3, <1>4, <1>5, <1>6, SumOverUnion
<1>8. SumOver(stacks, made) = SumOver(stacks, made \ {x}) + n
  BY <1>3, <1>5, <1>6, SumOverLess
<1>9. SumOver(stacks, made \ {x}) \in Nat
  BY <1>5, <1>6, FS_Subset, SumOverNat
<1>10. SumOver(stacks, D) = SumOver(e.stacks, D) /\ SumOver(e.stacks, D) \in Int
  BY <1>4, <1>6, SumOverSame, SumOverInt
<1>11. SumOver(stacks, D \cup made) >= SumOver(e.stacks, D) + n
  BY <1>7, <1>8, <1>9, <1>10
<1> QED
  BY <1>1, <1>11 DEF StackSum, D

LEMMA AnyStackAddsAtLeast ==
    ASSUME NEW e, IsEntry(e), NEW n \in Nat \ {0}
    PROVE  StackSum(AddToAnyStack(e, n)) >= StackSum(e) + n
<1> DEFINE room == SumOver(Room(e), DOMAIN e.stacks)
           rest == n - room
           g == Filled(e, n)
<1>1. room \in Nat /\ StackSum(g) = StackSum(e) + Lesser(n, room)
  BY FilledHolds
<1>2. IsEntry(g) /\ StackSum(e) \in Int /\ IsEntry(AddToAnyStack(e, n))
  BY FilledContinues, StackSumInt, AddToAnyStackContinues
<1>3. StackSum(AddToAnyStack(e, n)) \in Int
  BY <1>2, StackSumInt
<1>4. CASE e.limit = UnlimitedStack
  BY <1>2, <1>3, <1>4, AddToAnyStackHolds
<1>5. CASE e.limit # UnlimitedStack /\ rest > 0
  <2>1. AddToAnyStack(e, n) = AddToNewStacks(g, rest)
    BY <1>5 DEF AddToAnyStack
  <2>2. rest \in Nat \ {0} /\ Lesser(n, room) + rest = n /\ Lesser(n, room) \in Int
    BY <1>1, <1>5 DEF Lesser
  <2> HIDE DEF rest, g, room
  <2>3. StackSum(AddToNewStacks(g, rest)) >= StackSum(g) + rest
    BY <1>2, <2>2, NewStacksAddAtLeast
  <2> QED
    BY <1>1, <1>2, <1>3, <2>1, <2>2, <2>3
<1>6. CASE e.limit # UnlimitedStack /\ ~(rest > 0)
  <2>1. AddToAnyStack(e, n) = g
    BY <1>6 DEF AddToAnyStack
  <2>2. Lesser(n, room) = n
    BY <1>1, <1>6 DEF Lesser
  <2> HIDE DEF g, room
  <2> QED
    BY <1>1, <1>2, <2>1, <2>2
<1> QED
  BY <1>4, <1>5, <1>6

\* The copies of an item in a storage.
LEMMA CopiesIs ==
    ASSUME NEW st, IsStorage(st), NEW i
    PROVE  /\ Copies(st, i) = SumOver(CountsOf(st.entries), EntryOf(st, i))
           /\ EntryOf(st, i) \subseteq DOMAIN st.entries /\ IsFiniteSet(EntryOf(st, i))
           /\ \A k \in DOMAIN st.entries : CountsOf(st.entries)[k] \in Nat \ {0}
           /\ \A k \in DOMAIN st.entries : CountsOf(st.entries)[k] = StackSum(st.entries[k])
           /\ Copies(st, i) \in Nat
<1> DEFINE E == EntryOf(st, i)
           mine == [k \in E |-> StackSum(st.entries[k])]
<1>1. E \subseteq DOMAIN st.entries /\ IsFiniteSet(E)
  BY EntriesFinite DEF EntryOf
<1>2. \A k \in DOMAIN st.entries : /\ CountsOf(st.entries)[k] = StackSum(st.entries[k])
                                   /\ StackSum(st.entries[k]) \in Nat \ {0}
  BY StockedSum DEF CountsOf, IsStorage
<1>3. Copies(st, i) = SumOver(mine, E)
  BY DEF Copies, SumOf
<1>4. \A k \in E : mine[k] = CountsOf(st.entries)[k]
  BY <1>1, <1>2
<1> HIDE DEF E, mine
<1>5. SumOver(mine, E) = SumOver(CountsOf(st.entries), E)
  BY <1>4, SumOverSame
<1>6. SumOver(CountsOf(st.entries), E) \in Nat
  BY <1>1, <1>2, SumOverNat
<1> QED
  BY <1>1, <1>2, <1>3, <1>5, <1>6 DEF E

\* AddStackImplNoBroadcast loses nothing, and adds what it is asked for.
LEMMA AddedCopies ==
    ASSUME NEW st, IsStorage(st), NEW item \in Items, NEW n \in Nat \ {0}, NEW i,
           NEW onlyNew, NEW new, new = Added(st, item, n, onlyNew)
    PROVE  Copies(new, i) >= Copies(st, i) + (IF i = item THEN n ELSE 0)
<1> DEFINE D == DOMAIN st.entries
           E == EntryOf(st, i)
           grown(k) == IF onlyNew THEN AddToNewStacks(st.entries[k], n)
                       ELSE AddToAnyStack(st.entries[k], n)
           old == CountsOf(st.entries)
           now == CountsOf(new.entries)
<1>1. IsStorage(new) /\ Copies(new, i) \in Nat /\ Copies(st, i) \in Nat
  BY AddedIsStorage, CopiesIs
<1>2. /\ Copies(st, i) = SumOver(old, E) /\ E \subseteq D /\ IsFiniteSet(E)
      /\ \A k \in D : old[k] \in Nat \ {0} /\ old[k] = StackSum(st.entries[k])
  BY CopiesIs
<1>3. /\ Copies(new, i) = SumOver(now, EntryOf(new, i)) /\ IsFiniteSet(EntryOf(new, i))
      /\ \A k \in DOMAIN new.entries : /\ now[k] \in Nat \ {0}
                                       /\ now[k] = StackSum(new.entries[k])
  BY <1>1, CopiesIs
<1>4. \A k \in D : IsEntry(st.entries[k])
  BY DEF IsStorage, IsStocked
<1>5. CASE EntryOf(st, item) # {}
  <2>1. /\ DOMAIN new.entries = D
        /\ \A k \in D : new.entries[k] = IF k \in EntryOf(st, item)
                                         THEN grown(k) ELSE st.entries[k]
    BY <1>5 DEF Added, IsStorage
  <2>2. \A k \in D : /\ new.entries[k].item = st.entries[k].item
                     /\ StackSum(grown(k)) >= StackSum(st.entries[k]) + n
    <3> TAKE k \in D
    <3>1. /\ AddToAnyStack(st.entries[k], n).item = st.entries[k].item
          /\ AddToNewStacks(st.entries[k], n).item = st.entries[k].item
      BY <1>4, AddToAnyStackContinues, AddToNewStacksContinues DEF Continues
    <3>2. /\ StackSum(AddToAnyStack(st.entries[k], n)) >= StackSum(st.entries[k]) + n
          /\ StackSum(AddToNewStacks(st.entries[k], n)) >= StackSum(st.entries[k]) + n
      BY <1>4, AnyStackAddsAtLeast, NewStacksAddAtLeast
    <3> QED
      BY <2>1, <3>1, <3>2
  <2> HIDE DEF grown
  <2>3. EntryOf(new, i) = E
    BY <2>1, <2>2 DEF EntryOf
  <2>4. \A k \in E : now[k] >= old[k] + (IF i = item THEN n ELSE 0)
    <3> TAKE k \in E
    <3>1. k \in D /\ (k \in EntryOf(st, item) <=> i = item)
      BY <1>2 DEF EntryOf
    <3> QED
      BY <1>2, <1>3, <2>1, <2>2, <3>1
  <2>5. CASE i = item
    <3>1. PICK x \in E : TRUE
      BY <1>5, <2>5
    <3> DEFINE rest == E \ {x}
    <3>2. IsFiniteSet(rest) /\ \A k \in E : now[k] \in Int /\ old[k] \in Int /\ old[k] <= now[k]
      BY <1>2, <1>3, <2>1, <2>4, FS_Subset
    <3> HIDE DEF E, old, now
    <3>3. SumOver(old, E) = SumOver(old, rest) + old[x] /\ SumOver(now, E) = SumOver(now, rest) + now[x]
      BY <1>2, <3>1, <3>2, SumOverLess
    <3>4. SumOver(old, rest) <= SumOver(now, rest)
      BY <3>2, SumOverMonotone
    <3>5. SumOver(old, rest) \in Int /\ SumOver(now, rest) \in Int
      BY <3>2, SumOverInt
    <3>6. now[x] >= old[x] + n /\ now[x] \in Int /\ old[x] \in Int
      BY <2>4, <2>5, <3>1, <3>2
    <3> HIDE DEF rest
    <3>7. SumOver(now, E) >= SumOver(old, E) + n
      BY <3>3, <3>4, <3>5, <3>6
    <3> QED
      BY <1>2, <1>3, <2>3, <2>5, <3>7
  <2>6. CASE i # item
    <3>1. \A k \in E : now[k] \in Int /\ old[k] \in Int /\ old[k] <= now[k]
      BY <1>2, <1>3, <2>1, <2>4
    <3> HIDE DEF E, old, now
    <3>2. SumOver(old, E) <= SumOver(now, E)
      BY <1>2, <3>1, SumOverMonotone
    <3>3. Copies(new, i) >= Copies(st, i)
      BY <1>2, <1>3, <2>3, <3>2
    <3> QED
      BY <1>1, <2>6, <3>3
  <2> QED
    BY <2>5, <2>6
<1>6. CASE EntryOf(st, item) = {}
  <2> DEFINE key == st.gen + 1
             made == NewEntry(item, StackLimit[item], n)
  <2>1. key \notin D
    BY DEF IsStorage, KeyGenReset
  <2>2. /\ DOMAIN new.entries = D \cup {key}
        /\ \A k \in D \cup {key} : new.entries[k] = IF k = key THEN made ELSE st.entries[k]
    <3> HIDE DEF made
    <3>1. new = [gen |-> key, entries |-> With(st.entries, key, made)]
      BY <1>6 DEF Added, made
    <3>2. With(st.entries, key, made) = [k \in {key} \cup D |-> IF k = key THEN made ELSE st.entries[k]]
      BY DEF With, Over
    <3> HIDE DEF key, D
    <3> QED
      BY <3>1, <3>2
  <2>3. made.item = item /\ StackSum(made) = n
    BY ItemsAssumption, NewEntryHolds, ZenonT(30) DEF NewEntry
  <2> HIDE DEF made, key
  <2>4. \A k \in D : now[k] = old[k]
    BY <1>2, <1>3, <2>1, <2>2
  <2>5. CASE i = item
    <3>1. E = {} /\ EntryOf(new, i) = {key}
      BY <1>6, <2>1, <2>2, <2>3, <2>5 DEF EntryOf
    <3>2. now[key] = n
      BY <1>3, <2>2, <2>3
    <3> HIDE DEF E, old, now
    <3>3. SumOver(now, {key}) = n /\ SumOver(old, {}) = 0
      BY <3>2, SumOverOne, SumOverNone
    <3>4. Copies(new, i) = n /\ Copies(st, i) = 0
      BY <1>2, <1>3, <3>1, <3>3
    <3> QED
      BY <2>5, <3>4
  <2>6. CASE i # item
    <3>1. EntryOf(new, i) = E
      BY <2>1, <2>2, <2>3, <2>6 DEF EntryOf
    <3>2. \A k \in E : now[k] = old[k]
      BY <1>2, <2>4
    <3> HIDE DEF E, old, now
    <3>3. SumOver(now, E) = SumOver(old, E)
      BY <3>2, SumOverSame
    <3>4. Copies(new, i) = Copies(st, i)
      BY <1>2, <1>3, <3>1, <3>3
    <3> QED
      BY <1>1, <2>6, <3>4
  <2> QED
    BY <2>5, <2>6
<1> QED
  BY <1>5, <1>6

\* AddItemStacks, of stacks that are all allowed: they stand for the entries
\* under some keys, each at the place of its key.
StandFor(stacks, keys, n) ==
    /\ keys \in SUBSET Int /\ IsFiniteSet(keys)
    /\ DOMAIN stacks = {k - KeyGenReset : k \in keys}
    /\ \A k \in keys : k - KeyGenReset \in 1 .. n

\* Of an item, what is to be added under each key.
Wanted(stacks, keys, i) ==
    [k \in keys |-> IF stacks[k - KeyGenReset].item = i THEN stacks[k - KeyGenReset].copies ELSE 0]

LEMMA AddedAllCopies ==
    ASSUME NEW w, NEW c, IsStorage(content[c]), NEW stacks, NEW n, AreStacks(stacks, n),
           NEW keys, StandFor(stacks, keys, n), NEW i,
           \A j \in DOMAIN stacks : AllowsAddition(w, c, stacks[j].item, stacks[j].copies)
    PROVE  Copies(AddedAll(w, c, stacks, n), i)
             >= Copies(content[c], i) + SumOver(Wanted(stacks, keys, i), keys)
<1> DEFINE W == Wanted(stacks, keys, i)
           Upto(m) == {k \in keys : k - KeyGenReset <= m}
           Good(st, m) == IsStorage(st) /\ Copies(st, i) >= Copies(content[c], i) + SumOver(W, Upto(m))
<1>1. PICK f : IsLoop(f, w, c, stacks, n) /\ AddedAll(w, c, stacks, n) = f[n]
  BY LoopExists DEF AreStacks
<1>2. /\ keys \in SUBSET Int /\ IsFiniteSet(keys) /\ DOMAIN stacks = {k - KeyGenReset : k \in keys}
      /\ \A k \in keys : k - KeyGenReset \in 1 .. n
      /\ n \in Nat
  BY DEF StandFor, AreStacks
<1>3. \A k \in keys : W[k] \in Nat /\ W[k] \in Int
  BY <1>2 DEF Wanted, AreStacks
<1>4. \A m : IsFiniteSet(Upto(m)) /\ Upto(m) \subseteq keys
  BY <1>2, FS_Subset
<1>5. \A m : SumOver(W, Upto(m)) \in Nat
  <2> HIDE DEF W, Upto
  <2> QED
    BY <1>3, <1>4, SumOverNat
<1> DEFINE bad == {m \in 0 .. n : ~Good(f[m], m)}
<1>6. SUFFICES ASSUME bad # {} PROVE FALSE
  <2>1. n \in 0 .. n
    BY <1>2
  <2>2. Good(f[n], n)
    BY <1>6, <2>1
  <2>3. Upto(n) = keys
    <3>1. \A k \in keys : k - KeyGenReset <= n
      BY <1>2 DEF KeyGenReset
    <3> QED
      BY <3>1
  <2> QED
    BY <1>1, <2>2, <2>3
<1>7. PICK m \in bad : \A j \in bad : m <= j
  <2>1. bad \subseteq Int /\ bad \subseteq 0 .. n
    <3>1. bad \subseteq 0 .. n
      OBVIOUS
    <3> HIDE DEF bad
    <3> QED
      BY <1>2, <3>1
  <2>2. IsFiniteSet(0 .. n)
    <3>1. 0 \in Int /\ n \in Int
      BY <1>2
    <3> QED
      BY ONLY <3>1, FS_Interval
  <2> HIDE DEF bad
  <2>3. IsFiniteSet(bad)
    BY <2>1, <2>2, FS_Subset
  <2> QED
    BY <1>6, <2>1, <2>3, LeastInteger
<1>8. m \in 0 .. n /\ ~Good(f[m], m)
  <2> HIDE DEF Good
  <2> QED
    BY <1>7
<1>9. m # 0
  <2>1. 0 \in 0 .. n
    BY <1>2
  <2>2. f[0] = content[c]
    BY <1>1, <2>1 DEF IsLoop
  <2>3. Upto(0) = {}
    BY <1>2 DEF KeyGenReset
  <2>4. SumOver(W, {}) = 0
    BY SumOverNone
  <2>5. Copies(content[c], i) \in Nat
    BY CopiesIs
  <2>6. Good(f[0], 0)
    <3> HIDE DEF W, Upto
    <3> QED
      BY <2>2, <2>3, <2>4, <2>5
  <2> HIDE DEF Good
  <2> QED
    BY <1>8, <2>6
<1>10. m - 1 \in 0 .. n /\ ~(m <= m - 1) /\ m \in Int
  BY <1>2, <1>8, <1>9
<1>11. Good(f[m - 1], m - 1)
  <2> HIDE DEF Good
  <2> QED
    BY <1>7, <1>10
<1> DEFINE s == stacks[m]
           there == Added(f[m - 1], s.item, s.copies, FALSE)
           k == m + KeyGenReset
<1>12. f[m] = IF m \in DOMAIN stacks THEN there ELSE f[m - 1]
  <2>1. m \in DOMAIN stacks => AllowsAddition(w, c, s.item, s.copies)
    OBVIOUS
  <2>2. f[m] = IF m \in DOMAIN stacks /\ AllowsAddition(w, c, s.item, s.copies)
               THEN there ELSE f[m - 1]
    BY <1>1, <1>8, <1>9 DEF IsLoop
  <2> HIDE DEF there, s
  <2> QED
    BY <2>1, <2>2
<1>13. /\ k \in keys <=> m \in DOMAIN stacks
       /\ k \in Int /\ k - KeyGenReset = m
  BY <1>2, <1>10 DEF KeyGenReset
<1>14. Upto(m) = IF k \in keys THEN Upto(m - 1) \cup {k} ELSE Upto(m - 1)
  <2>1. \A j \in keys : j - KeyGenReset <= m <=> j - KeyGenReset <= m - 1 \/ j = k
    BY <1>2, <1>10, <1>13 DEF KeyGenReset
  <2> HIDE DEF k
  <2> QED
    BY <2>1
<1>15. k \notin Upto(m - 1)
  BY <1>10, <1>13
<1> HIDE DEF k
<1>16. CASE k \notin keys
  <2>1. f[m] = f[m - 1] /\ Upto(m) = Upto(m - 1)
    <3> HIDE DEF there, s, Upto
    <3> QED
      BY <1>12, <1>13, <1>14, <1>16
  <2> HIDE DEF Upto, W
  <2> QED
    BY <1>8, <1>11, <2>1
<1>17. CASE k \in keys
  <2>1. f[m] = there /\ Upto(m) = Upto(m - 1) \cup {k}
    <3> HIDE DEF there, s, Upto
    <3> QED
      BY <1>12, <1>13, <1>14, <1>17
  <2>2. s.item \in Items /\ s.copies \in Nat \ {0} /\ W[k] = IF i = s.item THEN s.copies ELSE 0
    BY <1>13, <1>17 DEF AreStacks, Wanted
  <2> HIDE DEF W, s
  <2>3. IsStorage(f[m - 1]) /\ IsStorage(there)
    BY <1>11, <2>2, AddedIsStorage
  <2>4. PICK onlyNew : there = Added(f[m - 1], s.item, s.copies, onlyNew)
    OBVIOUS
  <2> HIDE DEF there
  <2>5. Copies(there, i) >= Copies(f[m - 1], i) + W[k]
    BY <2>2, <2>3, <2>4, AddedCopies
  <2>6. SumOver(W, Upto(m)) = SumOver(W, Upto(m - 1)) + W[k]
    <3> HIDE DEF Upto
    <3>1. \A j \in Upto(m - 1) \cup {k} : W[j] \in Int
      BY <1>3, <1>4, <1>17
    <3> QED
      BY <1>4, <1>15, <2>1, <3>1, SumOverMore
  <2>7. /\ Copies(there, i) \in Nat /\ Copies(f[m - 1], i) \in Nat /\ Copies(content[c], i) \in Nat
        /\ W[k] \in Nat
    BY <1>3, <1>17, <2>3, CopiesIs
  <2>8. Copies(f[m - 1], i) >= Copies(content[c], i) + SumOver(W, Upto(m - 1))
    BY <1>11
  <2>9. Copies(there, i) >= Copies(content[c], i) + SumOver(W, Upto(m))
    <3> HIDE DEF Upto
    <3> QED
      BY <1>5, <2>5, <2>6, <2>7, <2>8
  <2> HIDE DEF Upto
  <2> QED
    BY <1>8, <2>1, <2>3, <2>9
<1> QED
  BY <1>16, <1>17

\* Removing entries removes their copies.
LEMMA LeftCopies ==
    ASSUME NEW st, IsStorage(st), NEW keys \in SUBSET DOMAIN st.entries, NEW i,
           NEW here, IsStorage(here), here.entries = Without(st.entries, keys),
           NEW W, \A k \in keys : W[k] = IF st.entries[k].item = i THEN StackSum(st.entries[k]) ELSE 0
    PROVE  Copies(st, i) = Copies(here, i) + SumOver(W, keys)
<1> DEFINE E == EntryOf(st, i)
           F == EntryOf(here, i)
           G == {k \in keys : st.entries[k].item = i}
           old == CountsOf(st.entries)
           now == CountsOf(here.entries)
<1>1. /\ DOMAIN here.entries = DOMAIN st.entries \ keys
      /\ \A k \in DOMAIN here.entries : here.entries[k] = st.entries[k]
  BY DEF Without
<1>2. E = F \cup G /\ F \cap G = {} /\ G \subseteq keys
  BY <1>1 DEF EntryOf
<1>3. /\ Copies(st, i) = SumOver(old, E) /\ IsFiniteSet(E) /\ E \subseteq DOMAIN st.entries
      /\ \A k \in DOMAIN st.entries : old[k] \in Nat \ {0} /\ old[k] = StackSum(st.entries[k])
  BY CopiesIs
<1>4. /\ Copies(here, i) = SumOver(now, F) /\ IsFiniteSet(F) /\ F \subseteq DOMAIN here.entries
      /\ \A k \in DOMAIN here.entries : now[k] = StackSum(here.entries[k])
  BY CopiesIs
<1>5. IsFiniteSet(G) /\ IsFiniteSet(keys)
  BY <1>2, EntriesFinite, FS_Subset
<1>6. /\ \A k \in keys : W[k] \in Int
      /\ \A k \in keys \ G : W[k] = 0
      /\ \A k \in G : W[k] = old[k]
      /\ \A k \in F : now[k] = old[k]
      /\ \A k \in F \cup G : old[k] \in Int
  BY <1>1, <1>2, <1>3, <1>4
<1> HIDE DEF E, F, G, old, now
<1>7. SumOver(old, E) = SumOver(old, F) + SumOver(old, G)
  BY <1>2, <1>4, <1>5, <1>6, SumOverUnion
<1>8. SumOver(old, F) = SumOver(now, F) /\ SumOver(old, G) = SumOver(W, G)
  BY <1>6, SumOverSame
<1>9. SumOver(W, keys) = SumOver(W, G)
  BY <1>2, <1>5, <1>6, SumOverPart
<1> QED
  BY <1>3, <1>4, <1>7, <1>8, <1>9

\* What is taken off leaves a measure that is no larger.
LEMMA MeasuresLess ==
    ASSUME NEW f, IsMeasured(f), NEW g, IsMeasured(g), DOMAIN g \subseteq DOMAIN f,
           \A k \in DOMAIN g : g[k].weight <= f[k].weight /\ g[k].volume <= f[k].volume
    PROVE  /\ SumOfMeasures(g).weight <= SumOfMeasures(f).weight
           /\ SumOfMeasures(g).volume <= SumOfMeasures(f).volume
<1> DEFINE D == DOMAIN f
           E == DOMAIN g
           fw == [k \in D |-> f[k].weight]
           fv == [k \in D |-> f[k].volume]
           gw == [k \in E |-> g[k].weight]
           gv == [k \in E |-> g[k].volume]
<1>1. /\ SumOfMeasures(f).weight = SumOver(fw, D) /\ SumOfMeasures(f).volume = SumOver(fv, D)
      /\ SumOfMeasures(g).weight = SumOver(gw, E) /\ SumOfMeasures(g).volume = SumOver(gv, E)
  BY DEF SumOfMeasures, Measure, SumOf
<1>2. IsFiniteSet(D) /\ IsFiniteSet(E) /\ IsFiniteSet(D \ E) /\ D = E \cup (D \ E) /\ E \cap (D \ E) = {}
  BY FS_Subset DEF IsMeasured
<1>3. /\ \A k \in D : fw[k] \in Nat /\ fv[k] \in Nat /\ fw[k] \in Int /\ fv[k] \in Int
      /\ \A k \in E : gw[k] \in Int /\ gv[k] \in Int /\ gw[k] <= fw[k] /\ gv[k] <= fv[k]
  BY DEF IsMeasured, Measures
<1> HIDE DEF D, E, fw, fv, gw, gv
<1>4. ASSUME NEW a, NEW b, \A k \in D : a[k] \in Nat /\ a[k] \in Int,
             \A k \in E : b[k] \in Int /\ b[k] <= a[k]
      PROVE  SumOver(b, E) <= SumOver(a, D)
  <2>1. E \subseteq D
    BY <1>2
  <2>2. SumOver(b, E) <= SumOver(a, E)
    BY <1>2, <1>4, <2>1, SumOverMonotone
  <2>3. SumOver(a, D) = SumOver(a, E) + SumOver(a, D \ E)
    BY <1>2, <1>4, SumOverUnion
  <2>4. SumOver(a, E) \in Int /\ SumOver(b, E) \in Int /\ SumOver(a, D \ E) \in Nat
    BY <1>2, <1>4, <2>1, SumOverInt, SumOverNat
  <2> QED
    BY <2>2, <2>3, <2>4
<1> QED
  BY <1>1, <1>3, <1>4

\* The two extensions allow what they allowed, when a container lost entries.
LEMMA LimitAllowsMore ==
    ASSUME NEW l, LimitIsSound(l), NEW left, NEW keys, DOMAIN left \cap keys = {},
           NEW n \in Nat, LimitContains(l, n)
    PROVE  LimitContains(LimitUpdated(l, left, keys), n)
<1> DEFINE rest == Without(l.cache, keys)
           counts == [k \in DOMAIN left \cap keys |-> StackSum(left[k])]
           new == LimitUpdated(l, left, keys)
<1>1. IsTable(rest) /\ SumOf(rest) = SumOf(l.cache) - SumOf(Only(l.cache, keys))
  BY SumWithout DEF LimitIsSound
<1>2. Over(counts, rest) = rest
  BY <1>1 DEF Over, IsTable
<1>3. new = [cache |-> rest, total |-> l.total + SumOf(rest) - SumOf(l.cache)]
  BY <1>2 DEF LimitUpdated
<1>4. DOMAIN rest \subseteq DOMAIN l.cache
  BY DEF Without
<1>5. Cardinality(DOMAIN rest) <= Cardinality(DOMAIN l.cache)
      /\ Cardinality(DOMAIN rest) \in Nat /\ Cardinality(DOMAIN l.cache) \in Nat
  <2> HIDE DEF rest
  <2> QED
    BY <1>1, <1>4, FS_Subset, FS_CardinalityType DEF LimitIsSound, IsTable
<1>6. SumOf(Only(l.cache, keys)) \in Nat /\ SumOf(l.cache) \in Nat
  <2>1. IsTable(Only(l.cache, keys))
    BY FS_Subset DEF LimitIsSound, IsTable, Only
  <2> QED
    BY <2>1, TableSum DEF LimitIsSound
<1>7. new.cache = rest /\ new.total \in Int /\ new.total <= l.total /\ l.total \in Int
  <2> HIDE DEF rest, new
  <2> QED
    BY <1>1, <1>3, <1>6 DEF LimitIsSound
<1> HIDE DEF rest, new
<1>8. LimitContains(new, n)
  BY <1>5, <1>7, ItemsAssumption DEF LimitContains
<1> QED
  BY <1>8 DEF new

LEMMA CapacityAllowsMore ==
    ASSUME NEW p, CapacityIsSound(p), NEW c \in Containers,
           NEW left, NEW keys, DOMAIN left \cap keys = {},
           NEW item, NEW n \in Nat \ {0}, CapacityContains(p, item, n)
    PROVE  CapacityContains(CapacityUpdated(p, c, left, keys), item, n)
<1> DEFINE old == CachedOf(p, c)
           rest == Without(old, keys)
           measures == [k \in DOMAIN left \cap keys |-> GetEntryWeightAndVolume(left[k])]
           cache == With(p.cache, c, rest)
           new == CapacityUpdated(p, c, left, keys)
<1>1. IsMeasured(old) /\ AreCaches(p.cache)
  BY EmptyIsMeasured DEF CachedOf, CapacityIsSound, AreCaches
<1>2. IsMeasured(rest) /\ DOMAIN rest \subseteq DOMAIN old /\ \A k \in DOMAIN rest : rest[k] = old[k]
  <2>1. IsMeasured(rest)
    BY <1>1, OverIs
  <2> QED
    BY <2>1 DEF Without
<1>3. Over(measures, rest) = rest
  <2> HIDE DEF rest
  <2> QED
    BY <1>2 DEF Over, IsMeasured
<1>4. new = Recached(p, cache)
  BY <1>3 DEF CapacityUpdated
<1>5. /\ SumOfMeasures(rest) \in Measures /\ SumOfMeasures(old) \in Measures
      /\ SumOfMeasures(rest).weight <= SumOfMeasures(old).weight
      /\ SumOfMeasures(rest).volume <= SumOfMeasures(old).volume
  <2> HIDE DEF rest, old
  <2>1. \A k \in DOMAIN rest : rest[k].weight <= old[k].weight /\ rest[k].volume <= old[k].volume
    BY <1>1, <1>2 DEF IsMeasured, Measures
  <2> QED
    BY <1>1, <1>2, <2>1, MeasuredSum, MeasuresLess
<1> HIDE DEF rest
<1>6. /\ DOMAIN cache = DOMAIN p.cache \cup {c} /\ cache = [d \in DOMAIN cache |-> cache[d]]
      /\ \A d \in DOMAIN cache : cache[d] = IF d = c THEN rest ELSE CachedOf(p, d)
  BY DEF With, Over, CachedOf
<1>7. AreCaches(cache)
  <2> HIDE DEF cache
  <2> QED
    BY <1>1, <1>2, <1>6 DEF AreCaches, CachedOf
<1> DEFINE S == DOMAIN cache
           before == [d \in S |-> CachedOf(p, d)]
           ms == [d \in S |-> SumOfMeasures(before[d])]
           ns == [d \in S |-> SumOfMeasures(cache[d])]
<1> HIDE DEF cache, old
<1>8. /\ AreCaches(before) /\ DOMAIN p.cache \subseteq S
      /\ \A d \in S \ DOMAIN p.cache : before[d] = Empty
      /\ \A d \in DOMAIN p.cache : before[d] = p.cache[d]
  BY <1>1, <1>6, <1>7, EmptyIsMeasured DEF AreCaches, CachedOf
<1>9. SumOfCaches(p.cache) = SumOfMeasures(ms)
  <2> HIDE DEF S
  <2>1. DOMAIN before = S
    OBVIOUS
  <2> HIDE DEF before
  <2>2. SumOfCaches(before) = SumOfMeasures([d \in DOMAIN p.cache |-> SumOfMeasures(before[d])])
    BY <1>8, <2>1, SumOfCachesOver
  <2>3. [d \in DOMAIN p.cache |-> SumOfMeasures(before[d])]
          = [d \in DOMAIN p.cache |-> SumOfMeasures(p.cache[d])]
    BY <1>8
  <2> QED
    BY <2>1, <2>2, <2>3 DEF SumOfCaches
<1>10. SumOfCaches(cache) = SumOfMeasures(ns)
  BY DEF SumOfCaches
<1>11. \A d \in S : /\ ms[d] \in Measures /\ ns[d] \in Measures
                    /\ ns[d].weight <= ms[d].weight /\ ns[d].volume <= ms[d].volume
  <2> TAKE d \in S
  <2>1. ms[d] \in Measures /\ ns[d] \in Measures
    BY <1>7, <1>8, MeasuredSum DEF AreCaches
  <2>2. d = c => ns[d] = SumOfMeasures(rest) /\ ms[d] = SumOfMeasures(old)
    BY <1>6 DEF old
  <2>3. d # c => ns[d] = ms[d]
    BY <1>6
  <2> HIDE DEF S, ms, ns
  <2>4. d # c => ns[d].weight <= ms[d].weight /\ ns[d].volume <= ms[d].volume
    BY <2>1, <2>3 DEF Measures
  <2> QED
    BY <1>5, <2>1, <2>2, <2>4
<1>12. IsFiniteSet(S)
  BY <1>7, ItemsAssumption, FS_Subset DEF AreCaches
<1>13. DOMAIN ms = S /\ DOMAIN ns = S /\ ms = [d \in S |-> ms[d]] /\ ns = [d \in S |-> ns[d]]
  OBVIOUS
<1> HIDE DEF S, before, ms, ns
<1>14. IsMeasured(ms) /\ IsMeasured(ns)
  BY <1>11, <1>12, <1>13 DEF IsMeasured
<1>15. /\ SumOfCaches(cache).weight <= SumOfCaches(p.cache).weight
       /\ SumOfCaches(cache).volume <= SumOfCaches(p.cache).volume
       /\ SumOfCaches(cache) \in Measures /\ SumOfCaches(p.cache) \in Measures
  BY <1>9, <1>10, <1>11, <1>13, <1>14, MeasuresLess, MeasuredSum
<1>16. /\ new.total = SumOfCaches(cache) /\ new.maximum = p.maximum
       /\ p.total = SumOfCaches(p.cache) /\ p.maximum \in [weight : Int, volume : Int]
  BY <1>4, <1>7, RecachedIsSound DEF CapacityIsSound, Recached
<1> HIDE DEF new
<1>17. /\ new.total.weight \in Int /\ p.total.weight \in Int /\ new.total.weight <= p.total.weight
       /\ new.total.volume \in Int /\ p.total.volume \in Int /\ new.total.volume <= p.total.volume
       /\ p.maximum.weight \in Int /\ p.maximum.volume \in Int /\ new.maximum = p.maximum
  BY <1>15, <1>16 DEF Measures
<1>18. CapacityContains(new, item, n)
  <2>1. CASE item \notin DOMAIN Capacity
    BY <2>1 DEF CapacityContains
  <2>2. CASE item \in DOMAIN Capacity
    <3> DEFINE weight == GetWeightOfStack(item, n)
               volume == GetVolumeOfStack(item, n)
    <3>1. weight \in Int /\ volume \in Int
      BY <2>2, StackMeasure
    <3> HIDE DEF weight, volume
    <3>2. p.total.weight + weight <= p.maximum.weight => new.total.weight + weight <= new.maximum.weight
      BY <1>17, <3>1
    <3>3. p.total.volume + volume <= p.maximum.volume => new.total.volume + volume <= new.maximum.volume
      BY <1>17, <3>1
    <3> QED
      BY <2>2, <3>2, <3>3 DEF CapacityContains, weight, volume
  <2> QED
    BY <2>1, <2>2
<1> QED
  BY <1>18 DEF new

\* What the target allowed it still allows, once the entries are removed.
LEMMA AllowsMore ==
    ASSUME CachesInv, NEW c \in Containers, NEW d,
           NEW left, NEW keys, DOMAIN left \cap keys = {},
           NEW item, NEW n \in Nat \ {0}, AllowsAddition(Known, d, item, n)
    PROVE  AllowsAddition(PostEventBatch(Known, c, left, keys), d, item, n)
<1>1. LimitIsSound(Known.limit) /\ CapacityIsSound(Known.capacity)
  BY DEF CachesInv, Known
<1> DEFINE w == PostEventBatch(Known, c, left, keys)
<1>2. "limit" \in Asked(d) => LimitContains(w.limit, n)
  BY <1>1, LimitAllowsMore DEF AllowsAddition, PostEventBatch
<1>3. "capacity" \in Asked(d) => CapacityContains(w.capacity, item, n)
  BY <1>1, CapacityAllowsMore DEF AllowsAddition, PostEventBatch
<1> HIDE DEF w
<1>4. AllowsAddition(w, d, item, n)
  BY <1>2, <1>3 DEF AllowsAddition
<1> QED
  BY <1>4 DEF w

\* Two containers change: what one loses the other gains.
LEMMA CopiesMove ==
    ASSUME NEW S, IsFiniteSet(S), NEW c \in S, NEW d \in S, c # d, NEW f, NEW g,
           \A e \in S : f[e] \in Int /\ g[e] \in Int,
           \A e \in S : e # c /\ e # d => g[e] = f[e],
           f[c] + f[d] <= g[c] + g[d]
    PROVE  SumOver(f, S) <= SumOver(g, S)
<1> DEFINE T == S \ {c}
           U == T \ {d}
<1>1. IsFiniteSet(T) /\ IsFiniteSet(U) /\ d \in T /\ U \subseteq S /\ T \subseteq S
  BY FS_Subset
<1>2. \A e \in U : g[e] = f[e]
  OBVIOUS
<1>3. SumOver(f, S) = SumOver(f, T) + f[c] /\ SumOver(g, S) = SumOver(g, T) + g[c]
  BY SumOverLess
<1> HIDE DEF T
<1>4. SumOver(f, T) = SumOver(f, U) + f[d] /\ SumOver(g, T) = SumOver(g, U) + g[d]
  BY <1>1, SumOverLess
<1> HIDE DEF U
<1>5. SumOver(f, U) = SumOver(g, U) /\ SumOver(f, U) \in Int
  BY <1>1, <1>2, SumOverSame, SumOverInt
<1> QED
  BY <1>3, <1>4, <1>5

LEMMA DumpToKeeps ==
    ASSUME CachesInv, NEW c \in Containers, NEW d \in Containers, c # d,
           NEW keys \in SUBSET DOMAIN Entries(c), DumpTo(c, d, keys),
           \A k \in keys : AllowsAddition(Known, d, Entries(c)[k].item, StackSum(Entries(c)[k])),
           NEW i
    PROVE  CopiesOf(i)' >= CopiesOf(i)
<1> DEFINE left   == Without(Entries(c), keys)
           w      == PostEventBatch(Known, c, left, keys)
           n      == content[c].gen - KeyGenReset
           stacks == [j \in {k - KeyGenReset : k \in keys} |->
                         LET e == Entries(c)[KeyGenReset + j] IN Stack(e.item, StackSum(e))]
           there  == AddedAll(w, d, stacks, n)
           here   == [content[c] EXCEPT !.entries = left]
           W      == Wanted(stacks, keys, i)
<1>1. content' = [content EXCEPT ![c].entries = left, ![d] = there]
  BY DEF DumpTo
<1>2. /\ AreStorages(content) /\ IsStorage(content[c]) /\ IsStorage(content[d])
      /\ Entries(c) = content[c].entries
      /\ content[c].gen \in Int /\ keys \subseteq KeyGenReset + 1 .. content[c].gen
      /\ \A k \in keys : IsStocked(Entries(c)[k])
  BY DEF CachesInv, AreStorages, Entries, IsStorage
<1>3. IsStorage(here) /\ here.entries = left
  BY <1>2, WithoutIsStorage, ZenonT(30)
<1>4. AreStacks(stacks, n)
  BY <1>2, StacksOfEntries
<1>5. /\ \A k \in keys : /\ stacks[k - KeyGenReset].item = Entries(c)[k].item
                         /\ stacks[k - KeyGenReset].copies = StackSum(Entries(c)[k])
      /\ \A j \in DOMAIN stacks : \E k \in keys : j = k - KeyGenReset
  <2>1. \A k \in keys : KeyGenReset + (k - KeyGenReset) = k
    BY <1>2 DEF KeyGenReset
  <2> QED
    BY <2>1 DEF Stack
<1>6. StandFor(stacks, keys, n)
  <2>1. keys \in SUBSET Int /\ \A k \in keys : k - KeyGenReset \in 1 .. n
    BY <1>2 DEF KeyGenReset
  <2>2. IsFiniteSet(keys)
    BY <1>2, EntriesFinite
  <2>3. DOMAIN stacks = {k - KeyGenReset : k \in keys}
    OBVIOUS
  <2> HIDE DEF stacks, n
  <2> QED
    BY <2>1, <2>2, <2>3 DEF StandFor
<1>7. \A k \in keys : W[k] = IF content[c].entries[k].item = i
                             THEN StackSum(content[c].entries[k]) ELSE 0
  BY <1>2, <1>5 DEF Wanted
<1>8. \A j \in DOMAIN stacks : AllowsAddition(w, d, stacks[j].item, stacks[j].copies)
  <2> TAKE j \in DOMAIN stacks
  <2>1. PICK k \in keys : j = k - KeyGenReset
    BY <1>5
  <2>2. /\ stacks[j].item = Entries(c)[k].item /\ stacks[j].copies = StackSum(Entries(c)[k])
        /\ StackSum(Entries(c)[k]) \in Nat \ {0}
        /\ AllowsAddition(Known, d, Entries(c)[k].item, StackSum(Entries(c)[k]))
    BY <1>2, <1>5, <2>1, StockedSum
  <2>3. DOMAIN left \cap keys = {}
    BY DEF Without
  <2> HIDE DEF left, stacks
  <2>4. AllowsAddition(w, d, Entries(c)[k].item, StackSum(Entries(c)[k]))
    BY <2>2, <2>3, AllowsMore
  <2> QED
    BY <2>2, <2>4
<1> HIDE DEF stacks, w, n, left
<1>9. Copies(there, i) >= Copies(content[d], i) + SumOver(W, keys)
  <2> HIDE DEF W
  <2>1. Copies(there, i) >= Copies(content[d], i) + SumOver(Wanted(stacks, keys, i), keys)
    BY <1>2, <1>4, <1>6, <1>8, AddedAllCopies
  <2> QED
    BY <2>1 DEF W
<1> HIDE DEF W
<1>10. Copies(content[c], i) = Copies(here, i) + SumOver(W, keys)
  <2> HIDE DEF here
  <2> QED
    BY <1>2, <1>3, <1>7, LeftCopies DEF left
<1>11. IsStorage(there)
  BY <1>2, <1>4, AddedAllIsStorage
<1>12. /\ content'[c] = here /\ content'[d] = there
       /\ \A e \in Containers : e # c /\ e # d => content'[e] = content[e]
  <2> HIDE DEF there
  <2> QED
    BY <1>1, <1>2 DEF AreStorages
<1> HIDE DEF here, there
<1> DEFINE f == [e \in Containers |-> Copies(content[e], i)]
           g == [e \in Containers |-> Copies(content'[e], i)]
<1>13. \A e \in Containers : f[e] \in Int /\ g[e] \in Int
  <2>1. \A e \in Containers : IsStorage(content[e]) /\ IsStorage(content'[e])
    BY <1>2, <1>3, <1>11, <1>12 DEF AreStorages
  <2> QED
    BY <2>1, CopiesIs
<1>14. f[c] + f[d] <= g[c] + g[d]
  <2>1. SumOver(W, keys) \in Int
    <3>1. \A k \in keys : W[k] \in Int
      BY <1>2, <1>7, StockedSum
    <3> QED
      BY <1>6, <3>1, SumOverInt DEF StandFor
  <2>2. /\ f[c] = Copies(content[c], i) /\ f[d] = Copies(content[d], i)
        /\ g[c] = Copies(here, i) /\ g[d] = Copies(there, i)
    BY <1>12
  <2> HIDE DEF f, g
  <2> QED
    BY <1>9, <1>10, <1>13, <2>1, <2>2
<1>15. \A e \in Containers : e # c /\ e # d => g[e] = f[e]
  BY <1>12
<1>16. /\ CopiesOf(i) = SumOver(f, Containers) /\ CopiesOf(i)' = SumOver(g, Containers)
       /\ CopiesOf(i) \in Int /\ CopiesOf(i)' \in Int
  <2>1. CopiesOf(i) = SumOver(f, Containers) /\ CopiesOf(i)' = SumOver(g, Containers)
    BY DEF CopiesOf, SumOf
  <2> HIDE DEF f, g
  <2> QED
    BY <1>13, <2>1, ItemsAssumption, SumOverInt
<1> HIDE DEF f, g
<1>17. SumOver(f, Containers) <= SumOver(g, Containers)
  BY <1>13, <1>14, <1>15, ItemsAssumption, CopiesMove
<1> QED
  BY <1>16, <1>17

\* Whatever Dump takes out of a container arrives: the target, which allowed
\* each entry alone, allows it again when all of them are added.
THEOREM DumpKeepsAll == Spec => DumpLosesNothing
<1>1. CachesInv => \A c, d \in Containers :
                      Dump(c, d) => \A item \in Items : CopiesOf(item)' >= CopiesOf(item)
  <2> SUFFICES ASSUME CachesInv, NEW c \in Containers, NEW d \in Containers, Dump(c, d),
                      NEW item \in Items
               PROVE  CopiesOf(item)' >= CopiesOf(item)
    OBVIOUS
  <2> DEFINE keys == {k \in DOMAIN Entries(c) :
                         AllowsAddition(Known, d, Entries(c)[k].item, StackSum(Entries(c)[k]))}
  <2>1. /\ c # d /\ DumpTo(c, d, keys) /\ keys \in SUBSET DOMAIN Entries(c)
        /\ \A k \in keys : AllowsAddition(Known, d, Entries(c)[k].item, StackSum(Entries(c)[k]))
    BY DEF Dump
  <2> HIDE DEF keys
  <2> QED
    BY <2>1, DumpToKeeps
<1> QED
  BY <1>1, CachesAlwaysFollow, PTL DEF DumpLosesNothing
=============================================================================
