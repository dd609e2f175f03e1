------------------------ MODULE InventoryEntry_proofs ------------------------
(* What the operators of InventoryEntry preserve: the shape of an entry,    *)
(* its stack keys at or below its key generator, and what a holder of a     *)
(* stack key relies on, that new stacks take new keys.                      *)
EXTENDS InventoryEntry, FiniteSetTheorems, WellFoundedInduction, TLAPS

\* The shape of an entry; its stack keys lie between the generator's start and
\* its position.
IsEntry(e) ==
    /\ e = [item |-> e.item, limit |-> e.limit, gen |-> e.gen, stacks |-> e.stacks]
    /\ e.limit \in Limits
    /\ e.gen \in Int /\ e.gen >= KeyGenReset
    /\ e.stacks \in [DOMAIN e.stacks -> Int]
    /\ DOMAIN e.stacks \subseteq (KeyGenReset + 1)..e.gen

\* What an edit keeps of an entry, whatever it does to the copies.
Continues(e, f) ==
    /\ f.item = e.item /\ f.limit = e.limit
    /\ f.gen >= e.gen
    /\ \A k \in DOMAIN f.stacks : k \in DOMAIN e.stacks \/ k > e.gen

-----------------------------------------------------------------------------
(* Sums.                                                                    *)

\* Finitely many stacks of finitely many copies have finitely many units.
LEMMA UnitsFinite ==
    ASSUME NEW S, IsFiniteSet(S), NEW f, \A k \in S : f[k] \in Int
    PROVE  IsFiniteSet(Units(f, S))
<1> DEFINE U(k) == {k} \X (1..f[k])
           T == {U(k) : k \in S}
           g == [k \in S |-> U(k)]
<1>1. g \in Surjection(S, T)
  BY DEF Surjection
<1>2. IsFiniteSet(T)
  BY <1>1, FS_Surjection
<1>3. \A u \in T : IsFiniteSet(u)
  <2> SUFFICES ASSUME NEW k \in S PROVE IsFiniteSet(U(k))
    OBVIOUS
  <2>1. IsFiniteSet({k}) BY FS_Singleton
  <2>2. IsFiniteSet(1..f[k]) BY FS_Interval
  <2> QED BY <2>1, <2>2, FS_Product
<1> QED
  BY <1>2, <1>3, FS_UNION DEF Units

\* A sum of copies is an integer.
LEMMA SumOverInt ==
    ASSUME NEW S, IsFiniteSet(S), NEW f, \A k \in S : f[k] \in Int
    PROVE  SumOver(f, S) \in Int
<1> DEFINE m == [k \in S |-> -f[k]]
<1>1. \A k \in S : m[k] \in Int
  OBVIOUS
<1>2. IsFiniteSet(Units(f, S)) /\ IsFiniteSet(Units(m, S))
  BY <1>1, UnitsFinite
<1>3. Cardinality(Units(f, S)) \in Nat /\ Cardinality(Units(m, S)) \in Nat
  BY <1>2, FS_CardinalityType
<1> QED
  BY <1>3 DEF SumOver

\* The stacks of an entry are finitely many.
LEMMA StacksFinite ==
    ASSUME NEW e, IsEntry(e)
    PROVE  \A S \in SUBSET DOMAIN e.stacks : IsFiniteSet(S)
<1>1. IsFiniteSet((KeyGenReset + 1)..e.gen)
  <2>1. KeyGenReset + 1 \in Int /\ e.gen \in Int
    BY DEF IsEntry, KeyGenReset
  <2> QED
    BY ONLY <2>1, FS_Interval
<1> QED
  BY <1>1, FS_Subset DEF IsEntry

\* A sum over some stacks of an entry is a number of copies.
LEMMA EntrySumInt ==
    ASSUME NEW e, IsEntry(e), NEW S \in SUBSET DOMAIN e.stacks
    PROVE  SumOver(e.stacks, S) \in Int
BY StacksFinite, SumOverInt DEF IsEntry

\* FInventoryEntry::StackSum is a number of copies.
LEMMA StackSumInt ==
    ASSUME NEW e, IsEntry(e)
    PROVE  StackSum(e) \in Int
BY EntrySumInt DEF StackSum

\* So is the room that is left in an entry's stacks.
LEMMA RoomSumInt ==
    ASSUME NEW e, IsEntry(e), NEW S \in SUBSET DOMAIN e.stacks
    PROVE  /\ SumOver(Room(e), S) \in Int
           /\ Room(e) \in [DOMAIN e.stacks -> Int]
<1>1. Room(e) \in [DOMAIN e.stacks -> Int]
  BY DEF IsEntry, Room, Limits, UnlimitedStack
<1> QED
  BY <1>1, StacksFinite, SumOverInt

-----------------------------------------------------------------------------
(* Creation and addition.                                                   *)

\* A number of copies is cut into a natural number of stacks.
LEMMA StacksNeededNat ==
    ASSUME NEW n \in Nat \ {0}, NEW limit \in Limits
    PROVE  StacksNeeded(n, limit) \in Nat
<1>1. CASE limit = UnlimitedStack
  BY <1>1 DEF StacksNeeded
<1>2. CASE limit # UnlimitedStack
  <2>1. limit \in Nat \ {0} /\ n + limit - 1 \in Nat
    BY <1>2 DEF Limits
  <2>2. \A a \in Nat, b \in Nat \ {0} : a \div b \in Nat
    OBVIOUS
  <2> QED
    BY <1>2, <2>1, <2>2 DEF StacksNeeded
<1> QED
  BY <1>1, <1>2

\* A new entry has the shape of an entry.
LEMMA NewEntryIsEntry ==
    ASSUME NEW item, NEW limit \in Limits, NEW n \in Nat \ {0}
    PROVE  /\ IsEntry(NewEntry(item, limit, n))
           /\ NewEntry(item, limit, n).item = item
<1> DEFINE e == NewEntry(item, limit, n)
           m == StacksNeeded(n, limit)
<1>1. m \in Nat
  BY StacksNeededNat
<1>2. \A k \in (KeyGenReset + 1)..(KeyGenReset + m) :
         Lesser(limit, n - limit * (k - KeyGenReset - 1)) \in Int
  BY DEF Lesser, Limits, UnlimitedStack, KeyGenReset
<1>3. e.stacks \in [(KeyGenReset + 1)..(KeyGenReset + m) -> Int]
  BY <1>2 DEF NewEntry
<1> QED
  BY <1>1, <1>3 DEF NewEntry, IsEntry, KeyGenReset

\* New stacks take new keys and the old ones stay.
LEMMA AddToNewStacksContinues ==
    ASSUME NEW e, IsEntry(e), NEW n \in Nat \ {0}
    PROVE  /\ IsEntry(AddToNewStacks(e, n))
           /\ Continues(e, AddToNewStacks(e, n))
<1> DEFINE m == StacksNeeded(n, e.limit)
           made == (e.gen + 1)..(e.gen + m)
           f == AddToNewStacks(e, n)
<1>1. m \in Nat
  BY StacksNeededNat DEF IsEntry
<1>2. f = [item |-> e.item, limit |-> e.limit, gen |-> e.gen + m,
           stacks |-> [k \in DOMAIN e.stacks \cup made |->
                          IF k \in made THEN n ELSE e.stacks[k]]]
  BY DEF IsEntry, AddToNewStacks
<1> HIDE DEF m, f
<1>3. f.stacks \in [DOMAIN e.stacks \cup made -> Int]
  BY <1>2 DEF IsEntry
<1>4. IsEntry(f) /\ Continues(e, f)
  BY <1>1, <1>2, <1>3 DEF IsEntry, Continues, KeyGenReset
<1> QED
  BY <1>4 DEF f

\* Filling stacks makes none and removes none.
LEMMA FilledContinues ==
    ASSUME NEW e, IsEntry(e), NEW n \in Int
    PROVE  /\ IsEntry(Filled(e, n))
           /\ Filled(e, n).gen = e.gen
           /\ DOMAIN Filled(e, n).stacks = DOMAIN e.stacks
           /\ Filled(e, n).item = e.item
           /\ Filled(e, n).limit = e.limit
<1> DEFINE new(k) == e.stacks[k] + Clamp(n - RoomBefore(e, k), 0, Room(e)[k])
           f == Filled(e, n)
<1>1. \A k \in DOMAIN e.stacks : RoomBefore(e, k) \in Int /\ Room(e)[k] \in Int
  <2> SUFFICES ASSUME NEW k \in DOMAIN e.stacks
               PROVE  RoomBefore(e, k) \in Int /\ Room(e)[k] \in Int
    OBVIOUS
  <2>1. {j \in DOMAIN e.stacks : j < k} \in SUBSET DOMAIN e.stacks
    OBVIOUS
  <2> QED
    BY <2>1, RoomSumInt DEF RoomBefore
<1>2. \A k \in DOMAIN e.stacks : new(k) \in Int
  BY <1>1 DEF Clamp, IsEntry
<1>3. f = [item |-> e.item, limit |-> e.limit, gen |-> e.gen,
           stacks |-> [k \in DOMAIN e.stacks |-> new(k)]]
  BY DEF IsEntry, Filled
<1> HIDE DEF new, f
<1>4. f.stacks \in [DOMAIN e.stacks -> Int]
  BY <1>2, <1>3
<1>5. /\ IsEntry(f) /\ f.gen = e.gen /\ DOMAIN f.stacks = DOMAIN e.stacks
      /\ f.item = e.item /\ f.limit = e.limit
  BY <1>3, <1>4 DEF IsEntry
<1> QED
  BY <1>5 DEF f

\* Changing the copies of one stack is no more than that.
LEMMA CopiesChange ==
    ASSUME NEW e, IsEntry(e), NEW k, NEW n,
           k \in DOMAIN e.stacks => n \in Int
    PROVE  /\ IsEntry([e EXCEPT !.stacks[k] = n])
           /\ Continues(e, [e EXCEPT !.stacks[k] = n])
           /\ [e EXCEPT !.stacks[k] = n].gen = e.gen
<1> DEFINE f == [e EXCEPT !.stacks[k] = n]
<1>1. f = [item |-> e.item, limit |-> e.limit, gen |-> e.gen,
           stacks |-> [e.stacks EXCEPT ![k] = n]]
  BY DEF IsEntry
<1>2. [e.stacks EXCEPT ![k] = n] \in [DOMAIN e.stacks -> Int]
  BY DEF IsEntry
<1> HIDE DEF f
<1>3. IsEntry(f) /\ Continues(e, f) /\ f.gen = e.gen
  BY <1>1, <1>2 DEF IsEntry, Continues
<1> QED
  BY <1>3 DEF f

\* AddToAnyStack keeps an entry in shape and gives no old stack key out again.
LEMMA AddToAnyStackContinues ==
    ASSUME NEW e, IsEntry(e), NEW n \in Nat \ {0}
    PROVE  /\ IsEntry(AddToAnyStack(e, n))
           /\ Continues(e, AddToAnyStack(e, n))
<1> DEFINE rest == n - SumOver(Room(e), DOMAIN e.stacks)
<1>1. CASE e.limit = UnlimitedStack /\ DOMAIN e.stacks # {}
  <2>1. AddToAnyStack(e, n) = [e EXCEPT !.stacks[FirstStack(e)] = @ + n]
    BY <1>1 DEF AddToAnyStack
  <2> QED
    BY <2>1, CopiesChange, SMTT(30) DEF IsEntry
<1>2. CASE ~(e.limit = UnlimitedStack /\ DOMAIN e.stacks # {})
  <2>1. rest \in Int
    BY RoomSumInt
  <2>2. IsEntry(Filled(e, n)) /\ Continues(e, Filled(e, n))
    BY FilledContinues DEF Continues, IsEntry
  <2>3. rest > 0 => /\ IsEntry(AddToNewStacks(Filled(e, n), rest))
                    /\ Continues(Filled(e, n), AddToNewStacks(Filled(e, n), rest))
    BY <2>1, <2>2, AddToNewStacksContinues
  <2>4. rest > 0 => Continues(e, AddToNewStacks(Filled(e, n), rest))
    BY <2>2, <2>3, FilledContinues DEF Continues
  <2> QED
    BY <1>2, <2>2, <2>3, <2>4 DEF AddToAnyStack
<1> QED
  BY <1>1, <1>2

-----------------------------------------------------------------------------
(* Removal and edits.                                                       *)

\* RemoveStack only forgets a stack key.
LEMMA RemoveStackContinues ==
    ASSUME NEW e, IsEntry(e), NEW k
    PROVE  /\ IsEntry(RemoveStack(e, k))
           /\ Continues(e, RemoveStack(e, k))
           /\ RemoveStack(e, k).gen = e.gen
BY DEF IsEntry, RemoveStack, Continues

\* So does SetStack, with no copies or with any.
LEMMA SetStackContinues ==
    ASSUME NEW e, IsEntry(e), NEW k, NEW n \in Int
    PROVE  /\ IsEntry(SetStack(e, k, n))
           /\ Continues(e, SetStack(e, k, n))
           /\ SetStack(e, k, n).gen = e.gen
<1>1. CASE n <= 0
  BY <1>1, RemoveStackContinues DEF SetStack
<1>2. CASE ~(n <= 0)
  BY <1>2, CopiesChange DEF SetStack
<1> QED
  BY <1>1, <1>2

\* RemoveFromAnyStack only forgets stack keys.
LEMMA RemoveFromAnyStackContinues ==
    ASSUME NEW e, IsEntry(e), NEW n \in Int
    PROVE  /\ IsEntry(RemoveFromAnyStack(e, n))
           /\ Continues(e, RemoveFromAnyStack(e, n))
           /\ RemoveFromAnyStack(e, n).gen = e.gen
<1> DEFINE part == PartlyRemoved(e, n)
           gone == ReachedFromTail(e, n) \ part
           new(k) == IF k \in part THEN FromTail(e, k) - n ELSE e.stacks[k]
           f == RemoveFromAnyStack(e, n)
<1>1. \A k \in DOMAIN e.stacks : FromTail(e, k) \in Int
  BY EntrySumInt DEF FromTail
<1>2. \A k \in DOMAIN e.stacks : new(k) \in Int
  BY <1>1 DEF IsEntry
<1>3. f = [item |-> e.item, limit |-> e.limit, gen |-> e.gen,
           stacks |-> [k \in DOMAIN e.stacks \ gone |-> new(k)]]
  BY DEF IsEntry, RemoveFromAnyStack
<1> HIDE DEF new, gone, f
<1>4. f.stacks \in [DOMAIN e.stacks \ gone -> Int]
  BY <1>2, <1>3
<1>5. IsEntry(f) /\ Continues(e, f) /\ f.gen = e.gen
  BY <1>3, <1>4 DEF IsEntry, Continues
<1> QED
  BY <1>5 DEF f

\* A split makes one stack, under the next key.
LEMMA SplitStackContinues ==
    ASSUME NEW e, IsEntry(e), NEW k, NEW n \in Int
    PROVE  /\ IsEntry(SplitStack(e, k, n))
           /\ Continues(e, SplitStack(e, k, n))
           /\ SplitStack(e, k, n).gen = e.gen + 1
<1> DEFINE new(j) == IF j = e.gen + 1 THEN n
                     ELSE IF j = k THEN e.stacks[j] - n ELSE e.stacks[j]
           f == SplitStack(e, k, n)
<1>1. f = [item |-> e.item, limit |-> e.limit, gen |-> e.gen + 1,
           stacks |-> [j \in DOMAIN e.stacks \cup {e.gen + 1} |-> new(j)]]
  BY DEF IsEntry, SplitStack
<1>2. \A j \in DOMAIN e.stacks \cup {e.gen + 1} : new(j) \in Int
  BY DEF IsEntry
<1> HIDE DEF new, f
<1>3. f.stacks \in [DOMAIN e.stacks \cup {e.gen + 1} -> Int]
  BY <1>1, <1>2
<1>4. IsEntry(f) /\ Continues(e, f) /\ f.gen = e.gen + 1
  BY <1>1, <1>3 DEF IsEntry, Continues, KeyGenReset
<1> QED
  BY <1>4 DEF f

-----------------------------------------------------------------------------
(* Least and greatest keys, and sums over sets of stacks.                   *)

\* A finite set of integers that is not empty has a least one.
LEMMA LeastInteger ==
    ASSUME NEW S, S \subseteq Int, S # {}, IsFiniteSet(S)
    PROVE  \E m \in S : \A k \in S : m <= k
<1> DEFINE upTo(k) == {j \in S : j <= k}
           T == {U \in SUBSET S : \E k \in S : U = upTo(k)}
<1>1. IsWellFoundedOn(StrictSubsetOrdering(S), FiniteSubsetsOf(S))
  BY FS_StrictSubsetOrderingWellFounded
<1>2. T \subseteq FiniteSubsetsOf(S)
  BY FS_Subset DEF FiniteSubsetsOf
<1>3. \A k \in S : upTo(k) \in T
  OBVIOUS
<1>4. PICK U \in T : \A V \in T : <<V, U>> \notin StrictSubsetOrdering(S)
  <2>1. T # {}
    BY <1>3
  <2> HIDE DEF T
  <2> QED
    BY <1>1, <1>2, <2>1, WFMin
<1>5. PICK m \in S : U = upTo(m)
  BY <1>4
<1>6. ASSUME NEW k \in S, ~(m <= k) PROVE FALSE
  <2>1. k < m /\ k \in Int /\ m \in Int
    BY <1>6
  <2>2. upTo(k) \subseteq upTo(m) /\ m \in upTo(m) /\ m \notin upTo(k)
    <3>1. \A j \in Int : j <= k => j <= m
      BY <2>1
    <3>2. m <= m /\ ~(m <= k)
      BY <2>1
    <3> QED
      BY <3>1, <3>2
  <2>3. upTo(k) \in T /\ upTo(k) \in SUBSET S /\ upTo(m) \in SUBSET S
    BY <1>3
  <2> HIDE DEF upTo, T
  <2>4. <<upTo(k), upTo(m)>> \in StrictSubsetOrdering(S)
    BY <2>2, <2>3 DEF StrictSubsetOrdering
  <2> QED
    BY <1>4, <1>5, <2>3, <2>4
<1> QED
  BY <1>6

\* And a greatest one.
LEMMA GreatestInteger ==
    ASSUME NEW S, S \subseteq Int, S # {}, IsFiniteSet(S)
    PROVE  \E m \in S : \A k \in S : k <= m
<1> DEFINE T == {0 - k : k \in S}
           neg == [k \in S |-> 0 - k]
<1>1. T \subseteq Int
  OBVIOUS
<1>2. neg \in Surjection(S, T)
  BY DEF Surjection
<1>3. IsFiniteSet(T)
  BY <1>2, FS_Surjection
<1>4. \A k \in S : 0 - k \in T
  OBVIOUS
<1>5. PICK d \in T : \A k \in T : d <= k
  <2>1. T # {}
    BY <1>4
  <2> HIDE DEF T
  <2> QED
    BY <1>1, <1>3, <2>1, LeastInteger
<1>6. PICK m \in S : d = 0 - m
  BY <1>5
<1>7. ASSUME NEW k \in S PROVE k <= m
  <2>1. 0 - m <= 0 - k
    BY <1>4, <1>5, <1>6
  <2>2. k \in Int /\ m \in Int
    BY <1>6
  <2> HIDE DEF T
  <2> QED
    BY <2>1, <2>2
<1> QED
  BY <1>7

\* A set of subsets of a finite set that is not empty has a minimal one: what
\* stands in for an induction over finite sets.
LEMMA MinimalSubset ==
    ASSUME NEW S, IsFiniteSet(S), NEW T \in SUBSET (SUBSET S), T # {}
    PROVE  \E U \in T : \A V \in T : V \subseteq U => V = U
<1>1. IsWellFoundedOn(StrictSubsetOrdering(S), FiniteSubsetsOf(S))
  BY FS_StrictSubsetOrderingWellFounded
<1>2. T \subseteq FiniteSubsetsOf(S)
  BY FS_Subset DEF FiniteSubsetsOf
<1>3. PICK U \in T : \A V \in T : <<V, U>> \notin StrictSubsetOrdering(S)
  BY <1>1, <1>2, WFMin
<1>4. ASSUME NEW V \in T, V \subseteq U, V # U PROVE FALSE
  <2>1. <<V, U>> \in StrictSubsetOrdering(S)
    BY <1>4 DEF StrictSubsetOrdering
  <2> QED
    BY <1>3, <2>1
<1> QED
  BY <1>4

\* A sum depends on the copies summed only.
LEMMA SumOverSame ==
    ASSUME NEW S, NEW f, NEW g, \A k \in S : f[k] = g[k]
    PROVE  SumOver(f, S) = SumOver(g, S)
<1>1. Units(f, S) = Units(g, S)
  BY DEF Units
<1>2. [k \in S |-> -f[k]] = [k \in S |-> -g[k]]
  OBVIOUS
<1> QED
  BY <1>1, <1>2 DEF SumOver

\* The sum over two disjoint sets is the sum of their sums.
LEMMA SumOverUnion ==
    ASSUME NEW S, IsFiniteSet(S), NEW T, IsFiniteSet(T), S \cap T = {},
           NEW f, \A k \in S \cup T : f[k] \in Int
    PROVE  SumOver(f, S \cup T) = SumOver(f, S) + SumOver(f, T)
<1> DEFINE C(g, U) == Cardinality(Units(g, U))
           m == [k \in S \cup T |-> -f[k]]
<1>1. ASSUME NEW g, \A k \in S \cup T : g[k] \in Int
      PROVE  /\ C(g, S \cup T) = C(g, S) + C(g, T)
             /\ C(g, S) \in Nat /\ C(g, T) \in Nat
  <2>1. IsFiniteSet(Units(g, S)) /\ IsFiniteSet(Units(g, T))
    BY <1>1, UnitsFinite
  <2>2. Units(g, S \cup T) = Units(g, S) \cup Units(g, T)
    BY DEF Units
  <2>3. Units(g, S) \cap Units(g, T) = {}
    BY DEF Units
  <2>4. Cardinality(Units(g, S) \cap Units(g, T)) = 0
    BY <2>3, FS_EmptySet
  <2>5. C(g, S) \in Nat /\ C(g, T) \in Nat
    BY <2>1, FS_CardinalityType
  <2>6. C(g, S \cup T) = C(g, S) + C(g, T) - 0
    BY <2>1, <2>2, <2>4, FS_Union
  <2> QED
    BY <2>5, <2>6
<1>2. \A k \in S \cup T : m[k] \in Int
  OBVIOUS
<1>3. /\ C(m, S) = Cardinality(Units([k \in S |-> -f[k]], S))
      /\ C(m, T) = Cardinality(Units([k \in T |-> -f[k]], T))
  <2>1. Units(m, S) = Units([k \in S |-> -f[k]], S)
    BY DEF Units
  <2>2. Units(m, T) = Units([k \in T |-> -f[k]], T)
    BY DEF Units
  <2> QED
    BY <2>1, <2>2
<1>4. SumOver(f, S \cup T) = C(f, S \cup T) - C(m, S \cup T)
  BY DEF SumOver
<1>5. SumOver(f, S) = C(f, S) - C(m, S) /\ SumOver(f, T) = C(f, T) - C(m, T)
  BY <1>3 DEF SumOver
<1>6. /\ C(f, S \cup T) = C(f, S) + C(f, T) /\ C(f, S) \in Nat /\ C(f, T) \in Nat
      /\ C(m, S \cup T) = C(m, S) + C(m, T) /\ C(m, S) \in Nat /\ C(m, T) \in Nat
  <2> HIDE DEF C, m
  <2> QED
    BY <1>1, <1>2
<1> HIDE DEF C, m
<1> QED
  BY <1>4, <1>5, <1>6

\* The sum over nothing, and over one stack.
LEMMA SumOverNone == ASSUME NEW f PROVE SumOver(f, {}) = 0
<1>1. \A g : Units(g, {}) = {}
  BY DEF Units
<1> DEFINE m == [k \in {} |-> -f[k]]
<1>2. Cardinality(Units(f, {})) = 0 /\ Cardinality(Units(m, {})) = 0
  <2> HIDE DEF m
  <2> QED
    BY <1>1, FS_EmptySet
<1>3. SumOver(f, {}) = Cardinality(Units(f, {})) - Cardinality(Units(m, {}))
  BY DEF SumOver
<1> HIDE DEF m
<1> QED
  BY <1>2, <1>3

\* The sum over one stack is its copies.
LEMMA SumOverOne ==
    ASSUME NEW k, NEW f, f[k] \in Int
    PROVE  SumOver(f, {k}) = f[k]
<1>1. ASSUME NEW g, g[k] \in Int
      PROVE  Cardinality(Units(g, {k})) = IF g[k] > 0 THEN g[k] ELSE 0
  <2>1. Units(g, {k}) = {k} \X (1..g[k])
    BY DEF Units
  <2>2. IsFiniteSet({k}) /\ Cardinality({k}) = 1
    BY FS_Singleton
  <2>3. IsFiniteSet(1..g[k]) /\ Cardinality(1..g[k]) = IF 1 > g[k] THEN 0 ELSE g[k] - 1 + 1
    BY <1>1, FS_Interval
  <2>4. Cardinality({k} \X (1..g[k])) = 1 * Cardinality(1..g[k])
    BY <2>2, <2>3, FS_Product
  <2> DEFINE c == Cardinality(1..g[k])
             a == g[k]
  <2>5. c = IF 1 > a THEN 0 ELSE a - 1 + 1
    BY <2>3
  <2>6. Cardinality(Units(g, {k})) = 1 * c
    BY <2>1, <2>4
  <2>7. a \in Int
    BY <1>1
  <2> HIDE DEF c, a
  <2>8. Cardinality(Units(g, {k})) = IF a > 0 THEN a ELSE 0
    BY <2>5, <2>6, <2>7
  <2> QED
    BY <2>8 DEF a
<1> DEFINE m == [j \in {k} |-> -f[j]]
<1>2. m[k] \in Int /\ m[k] = -f[k]
  OBVIOUS
<1>3. SumOver(f, {k}) = Cardinality(Units(f, {k})) - Cardinality(Units(m, {k}))
  BY DEF SumOver
<1> HIDE DEF m
<1> QED
  BY <1>1, <1>2, <1>3

\* One more stack in a sum.
LEMMA SumOverMore ==
    ASSUME NEW S, IsFiniteSet(S), NEW x, x \notin S, NEW f, \A k \in S \cup {x} : f[k] \in Int
    PROVE  SumOver(f, S \cup {x}) = SumOver(f, S) + f[x]
<1>1. IsFiniteSet({x}) /\ S \cap {x} = {}
  BY FS_Singleton
<1>2. SumOver(f, {x}) = f[x]
  BY SumOverOne
<1> QED
  BY <1>1, <1>2, SumOverUnion

\* A sum is the sum over all but one stack and that stack.
LEMMA SumOverLess ==
    ASSUME NEW S, IsFiniteSet(S), NEW x \in S, NEW f, \A k \in S : f[k] \in Int
    PROVE  SumOver(f, S) = SumOver(f, S \ {x}) + f[x]
<1>1. IsFiniteSet(S \ {x}) /\ x \notin S \ {x} /\ (S \ {x}) \cup {x} = S
  BY FS_Subset
<1> QED
  BY <1>1, SumOverMore

\* A sum of what is not negative is not negative.
LEMMA SumOverNat ==
    ASSUME NEW S, IsFiniteSet(S), NEW f, \A k \in S : f[k] \in Nat
    PROVE  SumOver(f, S) \in Nat
<1> DEFINE m == [k \in S |-> -f[k]]
<1>1. Units(m, S) = {}
  BY DEF Units
<1>2. Cardinality(Units(f, S)) \in Nat
  BY UnitsFinite, FS_CardinalityType
<1>3. SumOver(f, S) = Cardinality(Units(f, S)) - Cardinality(Units(m, S))
  BY DEF SumOver
<1> HIDE DEF m
<1>4. Cardinality(Units(m, S)) = 0
  BY <1>1, FS_EmptySet
<1> QED
  BY <1>2, <1>3, <1>4

\* Sums add up stack by stack.
LEMMA SumOverPlus ==
    ASSUME NEW S, IsFiniteSet(S), NEW f, NEW g, NEW h,
           \A k \in S : f[k] \in Int /\ g[k] \in Int /\ h[k] = f[k] + g[k]
    PROVE  SumOver(h, S) = SumOver(f, S) + SumOver(g, S)
<1> DEFINE Good(U) == SumOver(h, U) = SumOver(f, U) + SumOver(g, U)
           T == {U \in SUBSET S : ~Good(U)}
<1>1. SUFFICES ASSUME T # {} PROVE FALSE
  <2>1. S \notin T
    BY <1>1
  <2> QED
    BY <2>1
<1>2. PICK U \in T : \A V \in T : V \subseteq U => V = U
  <2>1. T \in SUBSET (SUBSET S)
    OBVIOUS
  <2> HIDE DEF T
  <2> QED
    BY <1>1, <2>1, MinimalSubset
<1>3. Good({})
  <2>1. SumOver(h, {}) = 0 /\ SumOver(f, {}) = 0 /\ SumOver(g, {}) = 0
    BY SumOverNone
  <2> QED
    BY <2>1
<1>4. PICK x \in U : TRUE
  BY <1>3
<1> DEFINE V == U \ {x}
<1>5. Good(V)
  BY <1>2, <1>4
<1>6. IsFiniteSet(U) /\ IsFiniteSet(V) /\ U \subseteq S /\ V \subseteq S /\ x \in S
  BY FS_Subset
<1>7. /\ SumOver(h, U) = SumOver(h, V) + h[x]
      /\ SumOver(f, U) = SumOver(f, V) + f[x]
      /\ SumOver(g, U) = SumOver(g, V) + g[x]
  <2>1. \A k \in U : f[k] \in Int /\ g[k] \in Int /\ h[k] \in Int
    BY <1>6
  <2> HIDE DEF T
  <2> QED
    BY <1>6, <2>1, SumOverLess
<1>8. SumOver(f, V) \in Int /\ SumOver(g, V) \in Int
  BY <1>6, SumOverInt
<1>9. ~Good(U)
  BY <1>2
<1>10. h[x] = f[x] + g[x] /\ f[x] \in Int /\ g[x] \in Int
  BY <1>6
<1> HIDE DEF V, T
<1> QED
  BY <1>5, <1>7, <1>8, <1>9, <1>10

\* Two sums that differ in one stack only.
LEMMA SumOverChange ==
    ASSUME NEW S, IsFiniteSet(S), NEW x \in S, NEW f, NEW g,
           \A k \in S : f[k] \in Int /\ g[k] \in Int,
           \A k \in S : k # x => g[k] = f[k]
    PROVE  SumOver(g, S) = SumOver(f, S) - f[x] + g[x]
<1> DEFINE U == S \ {x}
<1>1. IsFiniteSet(U)
  BY FS_Subset
<1>2. SumOver(f, S) = SumOver(f, U) + f[x] /\ SumOver(g, S) = SumOver(g, U) + g[x]
  BY SumOverLess
<1>3. SumOver(f, U) = SumOver(g, U)
  BY SumOverSame
<1>4. SumOver(f, U) \in Int
  BY <1>1, SumOverInt
<1> QED
  BY <1>2, <1>3, <1>4

-----------------------------------------------------------------------------
(* The copies an entry holds, and that none of its stacks is empty.         *)

\* FirstStack finds the first stack of an entry that has one.
LEMMA FirstStackIsFirst ==
    ASSUME NEW e, IsEntry(e), DOMAIN e.stacks # {}
    PROVE  FirstStack(e) \in DOMAIN e.stacks /\ \A j \in DOMAIN e.stacks : FirstStack(e) <= j
<1>1. IsFiniteSet(DOMAIN e.stacks) /\ DOMAIN e.stacks \subseteq Int
  BY StacksFinite DEF IsEntry
<1>2. \E m \in DOMAIN e.stacks : \A j \in DOMAIN e.stacks : m <= j
  BY <1>1, LeastInteger
<1> QED
  BY <1>2 DEF FirstStack

\* n copies need as many stacks of limit as there are, and no more.
LEMMA StacksNeededBounds ==
    ASSUME NEW n \in Nat \ {0}, NEW limit \in Nat \ {0}
    PROVE  LET m == StacksNeeded(n, limit)
           IN  /\ m \in Nat \ {0}
               /\ limit * (m - 1) < n /\ n <= limit * m
               /\ n <= limit => m = 1
<1> DEFINE a == n + limit - 1
           m == a \div limit
<1>1. StacksNeeded(n, limit) = m
  BY DEF StacksNeeded, UnlimitedStack
<1>2. m \in Int /\ limit * m <= a /\ a < limit * (m + 1)
  BY SMTT(60)
<1> HIDE DEF m
<1>3. limit * (m + 1) = limit * m + limit /\ limit * (m - 1) = limit * m - limit
  BY <1>2, SMTT(60)
<1>4. limit * m \in Int
  BY <1>2
<1>5. limit * (m - 1) < n /\ n <= limit * m
  BY <1>2, <1>3, <1>4
<1>6. m >= 1
  <2>1. ASSUME m <= 0 PROVE FALSE
    <3>1. limit * m <= 0
      BY <1>2, <2>1, SMTT(60)
    <3> QED
      BY <1>4, <1>5, <3>1
  <2> QED
    BY <1>2, <2>1
<1>7. n <= limit => m = 1
  <2>1. ASSUME n <= limit, m >= 2 PROVE FALSE
    <3>1. limit * (m - 1) >= limit
      BY <1>2, <2>1, SMTT(60)
    <3> QED
      BY <1>2, <1>5, <2>1, <3>1
  <2> QED
    BY <1>2, <1>6, <2>1
<1> QED
  BY <1>1, <1>2, <1>5, <1>6, <1>7

\* An entry with stacks, none of them without copies.
Full(e) ==
    /\ DOMAIN e.stacks # {}
    /\ \A k \in DOMAIN e.stacks : e.stacks[k] > 0

\* A new entry holds the copies it is made for, however they are cut.
LEMMA NewEntryHolds ==
    ASSUME NEW item, NEW limit \in Limits, NEW n \in Nat \ {0}
    PROVE  Full(NewEntry(item, limit, n)) /\ StackSum(NewEntry(item, limit, n)) = n
<1> DEFINE e == NewEntry(item, limit, n)
           m == StacksNeeded(n, limit)
           D == (KeyGenReset + 1)..(KeyGenReset + m)
<1>1. DOMAIN e.stacks = D
  BY DEF NewEntry
<1>2. CASE limit = UnlimitedStack
  <2> DEFINE x == KeyGenReset + 1
  <2>1. D = {x}
    BY <1>2 DEF StacksNeeded, KeyGenReset
  <2>2. e.stacks[x] = n
    BY <1>2, <2>1 DEF NewEntry
  <2> HIDE DEF e, x
  <2>3. SumOver(e.stacks, {x}) = n
    <3>1. e.stacks[x] \in Int
      BY <2>2
    <3>2. SumOver(e.stacks, {x}) = e.stacks[x]
      BY ONLY <3>1, SumOverOne
    <3> QED
      BY <2>2, <3>2
  <2>4. DOMAIN e.stacks = {x}
    BY <1>1, <2>1
  <2>5. StackSum(e) = n
    BY <2>3, <2>4 DEF StackSum
  <2>6. Full(e)
    BY <2>2, <2>4 DEF Full
  <2> QED
    BY <2>5, <2>6 DEF e
<1>3. CASE limit # UnlimitedStack
  <2>1. limit \in Nat \ {0}
    BY <1>3 DEF Limits
  <2>2. m \in Nat \ {0} /\ limit * (m - 1) < n /\ n <= limit * m
    BY <2>1, StacksNeededBounds
  <2>3. \A k \in D : e.stacks[k] = Lesser(limit, n - limit * (k - KeyGenReset - 1))
    BY <1>3 DEF NewEntry
  <2> HIDE DEF e, m
  <2>4. ASSUME NEW i \in 0..(m - 1)
        PROVE  /\ KeyGenReset + (i + 1) \in D /\ limit * i \in Int
               /\ e.stacks[KeyGenReset + (i + 1)] = IF i < m - 1 THEN limit ELSE n - limit * i
               /\ n - limit * i > 0
    <3>1. KeyGenReset + (i + 1) \in D
      BY <2>2 DEF KeyGenReset
    <3>2. KeyGenReset + (i + 1) - KeyGenReset - 1 = i
      BY DEF KeyGenReset
    <3>3. e.stacks[KeyGenReset + (i + 1)] = Lesser(limit, n - limit * i)
      <4> DEFINE x == KeyGenReset + (i + 1)
                 y == x - KeyGenReset - 1
      <4>1. e.stacks[x] = Lesser(limit, n - limit * y)
        BY <2>3, <3>1
      <4> HIDE DEF y
      <4>2. y = i
        BY DEF y, KeyGenReset
      <4> QED
        BY <4>1, <4>2
    <3>4. limit * i \in Int /\ limit * m \in Int /\ limit * (m - 1) \in Int
      BY <2>1, <2>2
    <3>5. limit * i <= limit * (m - 1)
      BY <2>1, <2>2, SMTT(60)
    <3>6. i < m - 1 => limit <= n - limit * i
      <4> HAVE i < m - 1
      <4>1. limit * (i + 1) <= limit * (m - 1)
        BY <2>1, <2>2, SMTT(60)
      <4>2. limit * (i + 1) = limit * i + limit
        BY <2>1, SMTT(60)
      <4> QED
        BY <2>1, <2>2, <3>4, <4>1, <4>2
    <3>7. i = m - 1 => n - limit * i <= limit
      <4> HAVE i = m - 1
      <4>1. limit * m = limit * (m - 1) + limit
        BY <2>1, <2>2, SMTT(60)
      <4> QED
        BY <2>1, <2>2, <3>4, <4>1
    <3> QED
      BY <2>1, <2>2, <3>1, <3>3, <3>4, <3>5, <3>6, <3>7 DEF Lesser
  <2> DEFINE first(i) == (KeyGenReset + 1)..(KeyGenReset + i)
             sum(i) == SumOver(e.stacks, first(i))
             bad == {i \in 1..m : sum(i) # IF i < m THEN limit * i ELSE n}
  <2>5. \A k \in D : e.stacks[k] \in Nat \ {0}
    <3> SUFFICES ASSUME NEW k \in D PROVE e.stacks[k] \in Nat \ {0}
      OBVIOUS
    <3> DEFINE i == k - KeyGenReset - 1
    <3>1. i \in 0..(m - 1) /\ k = KeyGenReset + (i + 1)
      BY <2>2 DEF KeyGenReset
    <3> HIDE DEF i
    <3> QED
      BY <2>1, <2>4, <3>1
  <2>6. ASSUME NEW i \in 0..(m - 1)
        PROVE  /\ sum(i + 1) = sum(i) + e.stacks[KeyGenReset + (i + 1)]
               /\ sum(i) \in Int
    <3> DEFINE x == KeyGenReset + (i + 1)
    <3>1. IsFiniteSet(first(i))
      <4>1. KeyGenReset + 1 \in Int /\ KeyGenReset + i \in Int
        BY DEF KeyGenReset
      <4> QED
        BY <4>1, FS_Interval
    <3>2. first(i + 1) = first(i) \cup {x} /\ x \notin first(i) /\ first(i) \cup {x} \subseteq D
      BY <2>2 DEF KeyGenReset
    <3>3. \A k \in first(i) \cup {x} : e.stacks[k] \in Int
      BY <2>5, <3>2
    <3> HIDE DEF x, first
    <3>4. SumOver(e.stacks, first(i) \cup {x}) = SumOver(e.stacks, first(i)) + e.stacks[x]
      BY <3>1, <3>2, <3>3, SumOverMore
    <3>5. SumOver(e.stacks, first(i)) \in Int
      BY <3>1, <3>3, SumOverInt
    <3> QED
      BY <3>2, <3>4, <3>5 DEF x
  <2>7. sum(0) = 0
    <3>1. first(0) = {}
      BY DEF KeyGenReset
    <3> HIDE DEF first
    <3> QED
      BY <3>1, SumOverNone
  <2> HIDE DEF sum
  <2>8. bad = {}
    <3>1. ASSUME bad # {} PROVE FALSE
      <4>1. bad \subseteq Int /\ IsFiniteSet(bad)
        <5>1. IsFiniteSet(1..m) /\ bad \in SUBSET (1..m)
          BY <2>2, FS_Interval
        <5> QED
          BY <2>2, <5>1, FS_Subset
      <4>2. PICK j \in bad : \A l \in bad : j <= l
        <5> HIDE DEF bad
        <5> QED
          BY <3>1, <4>1, LeastInteger
      <4> DEFINE i == j - 1
      <4>3. i \in 0..(m - 1) /\ j = i + 1 /\ i \notin bad
        BY <2>2, <4>2
      <4>4. sum(i) = limit * i
        <5>1. CASE i = 0
          BY <2>1, <2>7, <5>1
        <5>2. CASE i # 0
          <6>1. i \in 1..m /\ i < m
            BY <2>2, <4>3, <5>2
          <6> QED
            BY <4>3, <6>1
        <5> QED
          BY <5>1, <5>2
      <4> HIDE DEF i
      <4>5. sum(j) = limit * i + IF i < m - 1 THEN limit ELSE n - limit * i
        BY <2>4, <2>6, <4>3, <4>4
      <4>6. limit * j = limit * i + limit /\ limit * i \in Int
        BY <2>1, <4>3, SMTT(60)
      <4>7. sum(j) = IF j < m THEN limit * j ELSE n
        BY <2>1, <2>2, <4>3, <4>5, <4>6
      <4> QED
        BY <4>2, <4>7
    <3> QED
      BY <3>1
  <2>9. sum(m) = n
    BY <2>2, <2>8
  <2>10. StackSum(e) = n
    BY <1>1, <2>9 DEF StackSum, sum
  <2>11. D # {}
    <3>1. KeyGenReset + 1 \in D
      BY <2>2 DEF KeyGenReset
    <3> QED
      BY <3>1
  <2>12. Full(e)
    BY <1>1, <2>5, <2>11 DEF Full
  <2> QED
    BY <2>10, <2>12 DEF e
<1> QED
  BY <1>2, <1>3

\* What lies before a stack is nothing, or reaches up to the stack before it.
LEMMA StackBefore ==
    ASSUME NEW S, S \subseteq Int, IsFiniteSet(S), NEW k \in Int, {j \in S : j < k} # {}
    PROVE  \E p \in S : p < k /\ {j \in S : j < k} = {j \in S : j <= p}
<1> DEFINE T == {j \in S : j < k}
<1>1. T \subseteq Int /\ IsFiniteSet(T) /\ T # {}
  BY FS_Subset
<1>2. PICK p \in T : \A j \in T : j <= p
  <2> HIDE DEF T
  <2> QED
    BY <1>1, GreatestInteger
<1>3. p \in S /\ p < k
  BY <1>2
<1>4. \A j \in S : j < k <=> j <= p
  BY <1>2, <1>3
<1> QED
  BY <1>3, <1>4

\* Copies poured into rooms one after the other fill them as far as they go:
\* what is poured is all there is, or all there is room for.
LEMMA PouredSum ==
    ASSUME NEW S, S \subseteq Int, IsFiniteSet(S), NEW n \in Nat,
           NEW room \in [S -> Nat], NEW poured \in [S -> Int],
           \A k \in S : poured[k] = Clamp(n - SumOver(room, {j \in S : j < k}), 0, room[k])
    PROVE  SumOver(poured, S) = Lesser(n, SumOver(room, S))
<1> DEFINE before(k) == {j \in S : j < k}
           upTo(k) == {j \in S : j <= k}
           bad == {k \in S : SumOver(poured, upTo(k)) # Lesser(n, SumOver(room, upTo(k)))}
<1>1. \A T \in SUBSET S : IsFiniteSet(T) /\ SumOver(room, T) \in Nat /\ SumOver(poured, T) \in Int
  <2> SUFFICES ASSUME NEW T \in SUBSET S
               PROVE  IsFiniteSet(T) /\ SumOver(room, T) \in Nat /\ SumOver(poured, T) \in Int
    OBVIOUS
  <2>1. IsFiniteSet(T)
    BY FS_Subset
  <2> QED
    BY <2>1, SumOverNat, SumOverInt
<1>2. SumOver(poured, {}) = Lesser(n, SumOver(room, {}))
  BY SumOverNone DEF Lesser
<1>3. ASSUME NEW k \in S, SumOver(poured, before(k)) = Lesser(n, SumOver(room, before(k)))
      PROVE  k \notin bad
  <2> DEFINE T == before(k)
             b == SumOver(room, T)
  <2>1. T \in SUBSET S /\ k \notin T /\ upTo(k) = T \cup {k}
    <3>1. \A j \in S : j <= k <=> (j < k \/ j = k)
      OBVIOUS
    <3>2. ~(k < k)
      OBVIOUS
    <3> QED
      BY <3>1, <3>2
  <2>2. poured[k] = Clamp(n - b, 0, room[k])
    OBVIOUS
  <2>3. SumOver(poured, T) = Lesser(n, b)
    BY <1>3
  <2>4. b \in Nat /\ room[k] \in Nat /\ poured[k] \in Int
    BY <1>1, <2>1
  <2>5. \A j \in T \cup {k} : room[j] \in Int /\ poured[j] \in Int
    BY <2>1
  <2> HIDE DEF T, upTo
  <2>6. SumOver(room, T \cup {k}) = b + room[k] /\ SumOver(poured, T \cup {k}) = SumOver(poured, T) + poured[k]
    BY <1>1, <2>1, <2>5, SumOverMore
  <2> HIDE DEF b
  <2>7. SumOver(poured, upTo(k)) = Lesser(n, SumOver(room, upTo(k)))
    BY <2>1, <2>2, <2>3, <2>4, <2>6 DEF Clamp, Lesser
  <2> QED
    BY <2>7
<1>4. bad = {}
  <2>1. ASSUME bad # {} PROVE FALSE
    <3>1. bad \subseteq Int /\ IsFiniteSet(bad)
      BY FS_Subset
    <3>2. PICK k \in bad : \A j \in bad : k <= j
      <4> HIDE DEF bad
      <4> QED
        BY <2>1, <3>1, LeastInteger
    <3>3. k \in S /\ k \in Int
      BY <3>2
    <3>4. SumOver(poured, before(k)) = Lesser(n, SumOver(room, before(k)))
      <4>1. CASE before(k) = {}
        BY <1>2, <4>1
      <4>2. CASE before(k) # {}
        <5>1. PICK p \in S : p < k /\ before(k) = upTo(p)
          BY <3>3, <4>2, StackBefore
        <5>2. p \notin bad
          BY <3>2, <3>3, <5>1
        <5> QED
          BY <5>1, <5>2
      <4> QED
        BY <4>1, <4>2
    <3> HIDE DEF bad, before, upTo
    <3> QED
      BY <1>3, <3>2, <3>3, <3>4
  <2> QED
    BY <2>1
<1>5. CASE S = {}
  BY <1>2, <1>5
<1>6. CASE S # {}
  <2>1. PICK m \in S : \A k \in S : k <= m
    BY <1>6, GreatestInteger
  <2>2. upTo(m) = S
    BY <2>1
  <2>3. m \notin bad
    BY <1>4
  <2>4. SumOver(poured, upTo(m)) = Lesser(n, SumOver(room, upTo(m)))
    BY <2>3
  <2> HIDE DEF upTo
  <2> QED
    BY <2>2, <2>4
<1> QED
  BY <1>5, <1>6

\* Filling the stacks that are there adds what they have room for.
LEMMA FilledHolds ==
    ASSUME NEW e, IsEntry(e), NEW n \in Nat \ {0}
    PROVE  LET room == SumOver(Room(e), DOMAIN e.stacks)
           IN  /\ room \in Nat
               /\ StackSum(Filled(e, n)) = StackSum(e) + Lesser(n, room)
               /\ Full(e) => Full(Filled(e, n))
<1> DEFINE D == DOMAIN e.stacks
           R == Room(e)
           poured == [k \in D |-> Clamp(n - RoomBefore(e, k), 0, R[k])]
           stacks == [k \in D |-> e.stacks[k] + poured[k]]
<1>1. D \subseteq Int /\ IsFiniteSet(D) /\ \A S \in SUBSET D : IsFiniteSet(S)
  BY StacksFinite DEF IsEntry
<1>2. R \in [D -> Nat]
  <2>1. \A k \in D : e.stacks[k] \in Int /\ e.limit \in Int
    BY DEF IsEntry, Limits, UnlimitedStack
  <2> QED
    BY <2>1 DEF Room
<1> HIDE DEF D, R
<1>3. \A k \in D : RoomBefore(e, k) = SumOver(R, {j \in D : j < k}) /\ RoomBefore(e, k) \in Int
  <2> SUFFICES ASSUME NEW k \in D
               PROVE  RoomBefore(e, k) = SumOver(R, {j \in D : j < k}) /\ RoomBefore(e, k) \in Int
    OBVIOUS
  <2> DEFINE S == {j \in D : j < k}
  <2>1. RoomBefore(e, k) = SumOver(R, S)
    BY DEF RoomBefore, D, R
  <2>2. IsFiniteSet(S) /\ \A j \in S : R[j] \in Int
    BY <1>1, <1>2
  <2> HIDE DEF S
  <2>3. SumOver(R, S) \in Int
    BY <2>2, SumOverInt
  <2> QED
    BY <2>1, <2>3 DEF S
<1>4. poured \in [D -> Nat]
  <2>1. \A k \in D : Clamp(n - RoomBefore(e, k), 0, R[k]) \in Nat
    <3> SUFFICES ASSUME NEW k \in D PROVE Clamp(n - RoomBefore(e, k), 0, R[k]) \in Nat
      OBVIOUS
    <3>1. R[k] \in Nat /\ RoomBefore(e, k) \in Int
      BY <1>2, <1>3
    <3> QED
      BY <3>1 DEF Clamp
  <2> QED
    BY <2>1
<1>5. \A k \in D : poured[k] = Clamp(n - SumOver(R, {j \in D : j < k}), 0, R[k])
  BY <1>3
<1> HIDE DEF poured
<1>6. SumOver(poured, D) = Lesser(n, SumOver(R, D))
  <2>1. n \in Nat /\ poured \in [D -> Int]
    BY <1>4
  <2> QED
    BY ONLY <1>1, <1>2, <1>5, <2>1, PouredSum
<1>7. Filled(e, n) = [e EXCEPT !.stacks = stacks]
  BY DEF Filled, IsEntry, poured, D, R
<1>8. Filled(e, n).stacks = stacks
  BY <1>7 DEF IsEntry
<1>9. \A k \in D : /\ e.stacks[k] \in Int /\ poured[k] \in Int
                   /\ stacks[k] = e.stacks[k] + poured[k]
  BY <1>4 DEF IsEntry, D
<1>10. DOMAIN stacks = D
  OBVIOUS
<1> HIDE DEF stacks
<1>11. SumOver(stacks, D) = SumOver(e.stacks, D) + SumOver(poured, D)
  BY <1>1, <1>9, SumOverPlus
<1>12. SumOver(R, D) \in Nat
  BY <1>1, <1>2, SumOverNat
<1>13. StackSum(Filled(e, n)) = StackSum(e) + Lesser(n, SumOver(R, D))
  BY <1>6, <1>8, <1>10, <1>11 DEF StackSum, D
<1>14. ASSUME Full(e) PROVE Full(Filled(e, n))
  <2>1. \A k \in D : stacks[k] > 0
    BY <1>4, <1>9, <1>14 DEF Full, D
  <2> QED
    BY <1>8, <1>10, <1>14, <2>1 DEF Full, D
<1> QED
  BY <1>12, <1>13, <1>14 DEF D, R

\* The stacks made for an addition are not empty; when one stack takes all of
\* it, it holds just that.
LEMMA AddToNewStacksHolds ==
    ASSUME NEW e, IsEntry(e), NEW n \in Nat \ {0}
    PROVE  /\ (\A k \in DOMAIN e.stacks : e.stacks[k] > 0) => Full(AddToNewStacks(e, n))
           /\ e.limit = UnlimitedStack \/ n <= e.limit
              => StackSum(AddToNewStacks(e, n)) = StackSum(e) + n
<1> DEFINE D == DOMAIN e.stacks
           m == StacksNeeded(n, e.limit)
           made == (e.gen + 1)..(e.gen + m)
           stacks == [k \in D \cup made |-> IF k \in made THEN n ELSE e.stacks[k]]
<1>1. AddToNewStacks(e, n).stacks = stacks
  BY DEF AddToNewStacks
<1>2. DOMAIN stacks = D \cup made
  OBVIOUS
<1>3. m \in Nat \ {0} /\ (e.limit = UnlimitedStack \/ n <= e.limit => m = 1)
  <2>1. CASE e.limit = UnlimitedStack
    BY <2>1 DEF StacksNeeded
  <2>2. CASE e.limit # UnlimitedStack
    <3>1. e.limit \in Nat \ {0}
      BY <2>2 DEF IsEntry, Limits
    <3> QED
      BY <2>2, <3>1, StacksNeededBounds
  <2> QED
    BY <2>1, <2>2
<1> HIDE DEF m
<1>4. e.gen \in Int /\ e.gen + 1 \in made /\ e.gen + 1 \notin D
  BY <1>3 DEF IsEntry, KeyGenReset
<1>5. ASSUME \A k \in D : e.stacks[k] > 0 PROVE Full(AddToNewStacks(e, n))
  <2>1. \A k \in D \cup made : stacks[k] > 0
    BY <1>5
  <2> HIDE DEF stacks, made
  <2> QED
    BY <1>1, <1>2, <1>4, <2>1 DEF Full
<1>6. ASSUME e.limit = UnlimitedStack \/ n <= e.limit
      PROVE  StackSum(AddToNewStacks(e, n)) = StackSum(e) + n
  <2> DEFINE x == e.gen + 1
  <2>1. m = 1
    BY <1>3, <1>6
  <2>2. made = {x}
    BY <1>4, <2>1
  <2>3. stacks[x] = n /\ \A k \in D : stacks[k] = e.stacks[k]
    BY <1>4, <2>2
  <2>4. IsFiniteSet(D) /\ \A k \in D \cup {x} : stacks[k] \in Int
    BY <2>3, StacksFinite DEF IsEntry
  <2>5. x \notin D
    BY <1>4
  <2> HIDE DEF stacks, made, x, D
  <2>6. SumOver(stacks, D \cup {x}) = SumOver(stacks, D) + stacks[x]
    BY <2>4, <2>5, SumOverMore
  <2>7. SumOver(stacks, D) = SumOver(e.stacks, D)
    BY <2>3, SumOverSame
  <2>8. SumOver(stacks, D \cup {x}) = StackSum(e) + n
    BY <2>3, <2>6, <2>7 DEF StackSum, D
  <2> QED
    BY <1>1, <1>2, <2>2, <2>8 DEF StackSum
<1> QED
  BY <1>5, <1>6

\* An entry with one stack changed.
LEMMA OneStackChanges ==
    ASSUME NEW e, IsEntry(e), NEW k \in DOMAIN e.stacks, NEW n \in Int, NEW f,
           f.stacks = [e.stacks EXCEPT ![k] = n]
    PROVE  /\ StackSum(f) = StackSum(e) - e.stacks[k] + n
           /\ Full(e) /\ n > 0 => Full(f)
<1> DEFINE D == DOMAIN e.stacks
<1>1. DOMAIN f.stacks = D /\ f.stacks[k] = n /\ \A j \in D : j # k => f.stacks[j] = e.stacks[j]
  OBVIOUS
<1>2. IsFiniteSet(D) /\ \A j \in D : e.stacks[j] \in Int /\ f.stacks[j] \in Int
  BY <1>1, StacksFinite DEF IsEntry
<1>3. k \in D
  OBVIOUS
<1> HIDE DEF D
<1>4. SumOver(f.stacks, D) = SumOver(e.stacks, D) - e.stacks[k] + f.stacks[k]
  BY ONLY <1>1, <1>2, <1>3, SumOverChange
<1>5. Full(e) /\ n > 0 => Full(f)
  BY <1>1 DEF Full, D
<1> QED
  BY <1>1, <1>4, <1>5 DEF StackSum, D

\* An addition anywhere adds its copies, unless it needs more than one stack.
LEMMA AddToAnyStackHolds ==
    ASSUME NEW e, IsEntry(e), NEW n \in Nat \ {0}
    PROVE  /\ Full(e) => Full(AddToAnyStack(e, n))
           /\ e.limit = UnlimitedStack \/ n <= e.limit
              => StackSum(AddToAnyStack(e, n)) = StackSum(e) + n
<1> DEFINE room == SumOver(Room(e), DOMAIN e.stacks)
           rest == n - room
           g == Filled(e, n)
<1>1. room \in Nat /\ StackSum(g) = StackSum(e) + Lesser(n, room) /\ (Full(e) => Full(g))
  BY FilledHolds
<1>2. IsEntry(g) /\ g.limit = e.limit
  BY FilledContinues
<1>3. StackSum(e) \in Int
  BY StackSumInt
<1>4. CASE e.limit = UnlimitedStack /\ DOMAIN e.stacks # {}
  <2> DEFINE k == FirstStack(e)
             f == [e EXCEPT !.stacks[k] = @ + n]
             c == e.stacks[k] + n
  <2>1. k \in DOMAIN e.stacks
    BY <1>4, FirstStackIsFirst
  <2>2. e.stacks[k] \in Int
    BY <2>1 DEF IsEntry
  <2>3. f.stacks = [e.stacks EXCEPT ![k] = c]
    BY DEF IsEntry
  <2>4. AddToAnyStack(e, n) = f
    BY <1>4 DEF AddToAnyStack
  <2>5. Full(e) => c > 0
    BY <2>1, <2>2 DEF Full
  <2>6. c \in Int /\ c = e.stacks[k] + n
    BY <2>2
  <2> HIDE DEF f, k, c
  <2>7. StackSum(f) = StackSum(e) - e.stacks[k] + c /\ (Full(e) /\ c > 0 => Full(f))
    BY <2>1, <2>3, <2>6, OneStackChanges
  <2> QED
    BY <1>3, <2>2, <2>4, <2>5, <2>6, <2>7
<1>5. CASE ~(e.limit = UnlimitedStack /\ DOMAIN e.stacks # {}) /\ rest > 0
  <2>1. AddToAnyStack(e, n) = AddToNewStacks(g, rest)
    BY <1>5 DEF AddToAnyStack
  <2>2. rest \in Nat \ {0} /\ rest <= n /\ Lesser(n, room) = n - rest
    BY <1>1, <1>5 DEF Lesser
  <2>3. e.limit \in Int
    BY DEF IsEntry, Limits, UnlimitedStack
  <2> HIDE DEF rest, g, room
  <2>4. /\ (\A k \in DOMAIN g.stacks : g.stacks[k] > 0) => Full(AddToNewStacks(g, rest))
        /\ g.limit = UnlimitedStack \/ rest <= g.limit
           => StackSum(AddToNewStacks(g, rest)) = StackSum(g) + rest
    BY <1>2, <2>2, AddToNewStacksHolds
  <2>5. Full(e) => Full(AddToAnyStack(e, n))
    BY <1>1, <2>1, <2>4 DEF Full
  <2>6. e.limit = UnlimitedStack \/ n <= e.limit => g.limit = UnlimitedStack \/ rest <= g.limit
    BY <1>2, <2>2, <2>3
  <2> QED
    BY <1>1, <1>3, <2>1, <2>2, <2>4, <2>5, <2>6
<1>6. CASE ~(e.limit = UnlimitedStack /\ DOMAIN e.stacks # {}) /\ ~(rest > 0)
  <2>1. AddToAnyStack(e, n) = g
    BY <1>6 DEF AddToAnyStack
  <2>2. Lesser(n, room) = n
    BY <1>1, <1>6 DEF Lesser
  <2> HIDE DEF g, room
  <2> QED
    BY <1>1, <2>1, <2>2
<1> QED
  BY <1>4, <1>5, <1>6

\* A stack that is removed takes its copies along, and no other stack.
LEMMA RemoveStackHolds ==
    ASSUME NEW e, IsEntry(e), NEW k \in DOMAIN e.stacks
    PROVE  /\ StackSum(RemoveStack(e, k)) = StackSum(e) - e.stacks[k]
           /\ Full(e) /\ ~IsOnlyStack(e, k) => Full(RemoveStack(e, k))
<1> DEFINE D == DOMAIN e.stacks
           stacks == [j \in D \ {k} |-> e.stacks[j]]
<1>1. RemoveStack(e, k).stacks = stacks
  BY DEF RemoveStack, IsEntry
<1>2. DOMAIN stacks = D \ {k} /\ \A j \in D \ {k} : stacks[j] = e.stacks[j]
  OBVIOUS
<1>3. IsFiniteSet(D) /\ IsFiniteSet(D \ {k}) /\ k \in D /\ \A j \in D : e.stacks[j] \in Int
  BY StacksFinite DEF IsEntry
<1> HIDE DEF D, stacks
<1>4. SumOver(e.stacks, D) = SumOver(e.stacks, D \ {k}) + e.stacks[k]
  BY <1>3, SumOverLess
<1>5. SumOver(stacks, D \ {k}) = SumOver(e.stacks, D \ {k})
  BY <1>2, SumOverSame
<1>6. SumOver(e.stacks, D \ {k}) \in Int /\ e.stacks[k] \in Int
  BY <1>3, SumOverInt
<1>7. StackSum(RemoveStack(e, k)) = SumOver(stacks, D \ {k}) /\ StackSum(e) = SumOver(e.stacks, D)
  BY <1>1, <1>2 DEF StackSum, D
<1>8. Full(e) /\ ~IsOnlyStack(e, k) => Full(RemoveStack(e, k))
  BY <1>1, <1>2, <1>3 DEF Full, IsOnlyStack, D
<1> QED
  BY <1>4, <1>5, <1>6, <1>7, <1>8

\* Copies taken from the tail on: what is left is what there was without them,
\* and some stack is left.
LEMMA RemoveFromAnyStackHolds ==
    ASSUME NEW e, IsEntry(e), NEW n \in Nat \ {0}, n < StackSum(e)
    PROVE  /\ StackSum(RemoveFromAnyStack(e, n)) = StackSum(e) - n
           /\ Full(e) => Full(RemoveFromAnyStack(e, n))
<1> DEFINE D == DOMAIN e.stacks
           reached == ReachedFromTail(e, n)
           part == PartlyRemoved(e, n)
           gone == reached \ part
           left == D \ reached
           tail(k) == {j \in D : j >= k}
           stacks == [k \in D \ gone |-> IF k \in part THEN FromTail(e, k) - n ELSE e.stacks[k]]
<1>1. RemoveFromAnyStack(e, n).stacks = stacks
  <2>1. RemoveFromAnyStack(e, n)
          = [e EXCEPT !.stacks = [k \in DOMAIN @ \ gone |->
                                     IF k \in part THEN FromTail(e, k) - n ELSE @[k]]]
    BY DEF RemoveFromAnyStack
  <2> HIDE DEF part, gone
  <2> QED
    BY <2>1 DEF IsEntry
<1>2. /\ D \subseteq Int /\ IsFiniteSet(D) /\ \A k \in D : e.stacks[k] \in Int
      /\ \A S \in SUBSET D : IsFiniteSet(S) /\ SumOver(e.stacks, S) \in Int
  BY StacksFinite, EntrySumInt DEF IsEntry
<1>3. \A k \in D : FromTail(e, k) = SumOver(e.stacks, tail(k)) /\ FromTail(e, k) \in Int
  BY <1>2 DEF FromTail
<1>4. \A k : k \in reached <=> k \in D /\ \A j \in D : j > k => FromTail(e, j) < n
  BY DEF ReachedFromTail
<1>5. \A k : k \in part <=> k \in reached /\ FromTail(e, k) > n
  BY DEF PartlyRemoved
<1>6. StackSum(e) = SumOver(e.stacks, D)
  BY DEF StackSum
<1> HIDE DEF D, reached, part
<1>7. D # {}
  BY <1>6, SumOverNone
<1>8. PICK z \in D : \A k \in D : k <= z
  BY <1>2, <1>7, GreatestInteger
<1>9. z \in reached /\ reached \subseteq D
  BY <1>2, <1>4, <1>8
<1>10. PICK r \in reached : \A k \in reached : r <= k
  <2>1. reached \subseteq Int /\ IsFiniteSet(reached) /\ reached # {}
    BY <1>2, <1>9
  <2> QED
    BY <2>1, LeastInteger
<1>11. r \in D /\ r \in Int
  BY <1>2, <1>9
\* What is reached is what lies from r on.
<1>12. reached = tail(r)
  <2>1. ASSUME NEW k \in D, k >= r PROVE k \in reached
    <3>1. \A j \in D : j > k => j > r
      BY <1>2, <1>11, <2>1
    <3> QED
      BY <1>4, <3>1
  <2> QED
    BY <1>9, <1>10, <1>11, <2>1
\* The removal ends there: from r on there is enough.
<1>13. FromTail(e, r) >= n
  <2> DEFINE before == {j \in D : j < r}
  <2>1. CASE before = {}
    <3>1. tail(r) = D
      BY <1>2, <1>11, <2>1
    <3> QED
      BY <1>2, <1>3, <1>6, <1>11, <3>1
  <2>2. CASE before # {}
    <3>1. PICK p \in D : p < r /\ before = {j \in D : j <= p}
      BY <1>2, <1>11, <2>2, StackBefore
    <3>2. p \notin reached
      BY <1>2, <1>10, <1>11, <3>1
    <3>3. PICK j \in D : j > p /\ ~(FromTail(e, j) < n)
      BY <1>4, <3>1, <3>2
    <3>4. ~(j < r)
      BY <1>2, <3>1, <3>3
    <3>5. j > r => FromTail(e, j) < n
      BY <1>4, <1>10, <3>3
    <3>6. j = r
      BY <1>2, <1>11, <3>3, <3>4, <3>5
    <3>7. FromTail(e, r) \in Int /\ ~(FromTail(e, r) < n)
      BY <1>3, <1>11, <3>3, <3>6
    <3> QED
      BY <3>7
  <2> QED
    BY <2>1, <2>2
\* Of what is reached only r may be left, with what the removal leaves of it.
<1>14. part = IF FromTail(e, r) > n THEN {r} ELSE {}
  <2>1. \A k \in part : k = r
    <3> SUFFICES ASSUME NEW k \in part PROVE k = r
      OBVIOUS
    <3>1. k \in reached /\ FromTail(e, k) > n
      BY <1>5
    <3>2. k > r => FromTail(e, k) < n
      BY <1>4, <1>9, <1>10, <3>1
    <3>3. k \in Int /\ r <= k /\ FromTail(e, k) \in Int
      BY <1>2, <1>3, <1>9, <1>10, <3>1
    <3> QED
      BY <1>11, <3>1, <3>2, <3>3
  <2> QED
    BY <1>5, <2>1
<1>15. SumOver(e.stacks, D) = SumOver(e.stacks, left) + FromTail(e, r)
  <2>1. D = left \cup reached /\ left \cap reached = {} /\ left \in SUBSET D /\ reached \in SUBSET D
    BY <1>9
  <2>2. IsFiniteSet(left) /\ IsFiniteSet(reached)
    BY <1>2, <2>1
  <2> HIDE DEF left
  <2>3. SumOver(e.stacks, left \cup reached) = SumOver(e.stacks, left) + SumOver(e.stacks, reached)
    BY <1>2, <2>1, <2>2, SumOverUnion
  <2> HIDE DEF tail
  <2> QED
    BY <1>3, <1>11, <1>12, <2>1, <2>3
<1>16. DOMAIN stacks = left \cup part
  BY <1>5, <1>9
<1>17. /\ \A k \in left : stacks[k] = e.stacks[k]
       /\ \A k \in part : stacks[k] = FromTail(e, k) - n
  BY <1>5, <1>9
<1>18. left \subseteq D /\ IsFiniteSet(left) /\ SumOver(e.stacks, left) \in Int /\ r \notin left
  BY <1>2
<1> HIDE DEF left, stacks, tail
<1>19. SumOver(stacks, left) = SumOver(e.stacks, left)
  BY <1>17, SumOverSame
<1>20. SumOver(stacks, left \cup part) = SumOver(e.stacks, D) - n
  <2>1. CASE FromTail(e, r) > n
    <3>1. part = {r} /\ stacks[r] = FromTail(e, r) - n
      BY <1>14, <1>17, <2>1
    <3>2. \A k \in left \cup {r} : stacks[k] \in Int
      BY <1>2, <1>3, <1>11, <1>17, <1>18, <3>1
    <3>3. SumOver(stacks, left \cup {r}) = SumOver(stacks, left) + stacks[r]
      BY <1>18, <3>2, SumOverMore
    <3> QED
      BY <1>3, <1>11, <1>15, <1>18, <1>19, <3>1, <3>3
  <2>2. CASE ~(FromTail(e, r) > n)
    <3>1. part = {} /\ FromTail(e, r) = n
      BY <1>3, <1>11, <1>13, <1>14, <2>2
    <3>2. left \cup part = left
      BY <3>1
    <3> QED
      BY <1>15, <1>18, <1>19, <3>1, <3>2
  <2> QED
    BY <2>1, <2>2
<1>21. StackSum(RemoveFromAnyStack(e, n)) = StackSum(e) - n
  BY <1>1, <1>6, <1>16, <1>20 DEF StackSum
<1>22. ASSUME Full(e) PROVE Full(RemoveFromAnyStack(e, n))
  <2>1. \A k \in left \cup part : stacks[k] > 0
    <3>1. \A k \in left : stacks[k] > 0
      BY <1>17, <1>18, <1>22 DEF Full, D
    <3>2. \A k \in part : stacks[k] > 0
      BY <1>3, <1>5, <1>9, <1>17
    <3> QED
      BY <3>1, <3>2
  <2>2. left \cup part # {}
    <3>1. ASSUME left \cup part = {} PROVE FALSE
      <4>1. SumOver(e.stacks, D) - n = 0
        BY <1>20, <3>1, SumOverNone
      <4>2. SumOver(e.stacks, D) \in Int
        BY <1>2
      <4> QED
        BY <1>6, <4>1, <4>2
    <3> QED
      BY <3>1
  <2> QED
    BY <1>1, <1>16, <2>1, <2>2 DEF Full
<1> QED
  BY <1>21, <1>22

\* A split only moves copies.
LEMMA SplitStackHolds ==
    ASSUME NEW e, IsEntry(e), NEW k \in DOMAIN e.stacks, NEW n \in Int
    PROVE  /\ StackSum(SplitStack(e, k, n)) = StackSum(e)
           /\ Full(e) /\ 0 < n /\ n < e.stacks[k] => Full(SplitStack(e, k, n))
<1> DEFINE D == DOMAIN e.stacks
           x == e.gen + 1
           stacks == [j \in D \cup {x} |-> IF j = x THEN n
                                           ELSE IF j = k THEN e.stacks[j] - n
                                           ELSE e.stacks[j]]
<1>1. SplitStack(e, k, n).stacks = stacks
  BY DEF SplitStack
<1>2. x \notin D /\ k \in D /\ IsFiniteSet(D) /\ \A j \in D : e.stacks[j] \in Int
  BY StacksFinite DEF IsEntry, KeyGenReset
<1> HIDE DEF x
<1>3. /\ DOMAIN stacks = D \cup {x} /\ stacks[x] = n /\ stacks[k] = e.stacks[k] - n
      /\ \A j \in D : j # k => stacks[j] = e.stacks[j]
  BY <1>2
<1>4. \A j \in D \cup {x} : stacks[j] \in Int
  BY <1>2, <1>3
<1> HIDE DEF stacks, D
<1>5. SumOver(stacks, D \cup {x}) = SumOver(stacks, D) + n
  BY <1>2, <1>3, <1>4, SumOverMore
<1>6. SumOver(stacks, D) = SumOver(e.stacks, D) - e.stacks[k] + stacks[k]
  BY <1>2, <1>3, <1>4, SumOverChange
<1>7. SumOver(e.stacks, D) \in Int
  BY <1>2, SumOverInt
<1>8. StackSum(SplitStack(e, k, n)) = StackSum(e)
  BY <1>1, <1>2, <1>3, <1>5, <1>6, <1>7 DEF StackSum, D
<1>9. Full(e) /\ 0 < n /\ n < e.stacks[k] => Full(SplitStack(e, k, n))
  BY <1>1, <1>2, <1>3 DEF Full, D
<1> QED
  BY <1>8, <1>9

\* Full entries are valid, so that the proxies hear of them.
LEMMA FullIsValid ==
    ASSUME NEW e, IsEntry(e), Full(e)
    PROVE  IsValidEntry(e)
BY DEF Full, IsEntry, IsValidEntry, IsValidStackAmount, Limits

\* An addition to stacks that are there removes none of them.
LEMMA AdditionsKeepStacks ==
    ASSUME NEW e, IsEntry(e), NEW n \in Nat \ {0}
    PROVE  /\ DOMAIN e.stacks \subseteq DOMAIN AddToNewStacks(e, n).stacks
           /\ DOMAIN e.stacks \subseteq DOMAIN AddToAnyStack(e, n).stacks
<1>1. ASSUME NEW d PROVE \A m : DOMAIN d.stacks \subseteq DOMAIN AddToNewStacks(d, m).stacks
  BY DEF AddToNewStacks
<1>2. DOMAIN Filled(e, n).stacks = DOMAIN e.stacks
  BY FilledContinues
<1>3. [e EXCEPT !.stacks[FirstStack(e)] = @ + n].stacks
        = [e.stacks EXCEPT ![FirstStack(e)] = @ + n]
  BY DEF IsEntry
<1>4. DOMAIN [e EXCEPT !.stacks[FirstStack(e)] = @ + n].stacks = DOMAIN e.stacks
  BY <1>3
<1> QED
  BY <1>1, <1>2, <1>4 DEF AddToAnyStack

\* RemoveFromAnyStack removes stacks its loop came to, and makes none.
LEMMA RemoveFromAnyStackKeeps ==
    ASSUME NEW e, IsEntry(e), NEW n \in Int
    PROVE  /\ DOMAIN RemoveFromAnyStack(e, n).stacks \subseteq DOMAIN e.stacks
           /\ DOMAIN e.stacks \ DOMAIN RemoveFromAnyStack(e, n).stacks \subseteq ReachedFromTail(e, n)
<1> DEFINE part == PartlyRemoved(e, n)
           lost == ReachedFromTail(e, n) \ part
           stacks == [k \in DOMAIN e.stacks \ lost |->
                         IF k \in part THEN FromTail(e, k) - n ELSE e.stacks[k]]
<1>1. RemoveFromAnyStack(e, n)
        = [e EXCEPT !.stacks = [k \in DOMAIN @ \ lost |->
                                   IF k \in part THEN FromTail(e, k) - n ELSE @[k]]]
  BY DEF RemoveFromAnyStack
<1> HIDE DEF part, lost
<1>2. RemoveFromAnyStack(e, n).stacks = stacks
  BY <1>1 DEF IsEntry
<1> HIDE DEF stacks
<1>3. DOMAIN stacks = DOMAIN e.stacks \ lost
  BY DEF stacks
<1> QED
  BY <1>2, <1>3 DEF lost

\* Each stack that the loop of a removal comes to loses copies.
LEMMA ReachedFalls ==
    ASSUME NEW e, IsEntry(e), Full(e), NEW n \in Nat \ {0}, NEW k \in ReachedFromTail(e, n)
    PROVE  LET left == RemoveFromAnyStack(e, n).stacks
           IN  /\ k \in DOMAIN e.stacks /\ e.stacks[k] \in Nat \ {0}
               /\ k \in DOMAIN left => left[k] < e.stacks[k]
<1> DEFINE D == DOMAIN e.stacks
           part == PartlyRemoved(e, n)
           gone == ReachedFromTail(e, n) \ part
           later == {j \in D : j > k}
           stacks == [l \in D \ gone |-> IF l \in part THEN FromTail(e, l) - n ELSE e.stacks[l]]
<1>1. RemoveFromAnyStack(e, n).stacks = stacks
  <2>1. RemoveFromAnyStack(e, n)
          = [e EXCEPT !.stacks = [l \in DOMAIN @ \ gone |->
                                     IF l \in part THEN FromTail(e, l) - n ELSE @[l]]]
    BY DEF RemoveFromAnyStack
  <2> HIDE DEF part, gone
  <2> QED
    BY <2>1 DEF IsEntry
<1>2. k \in D /\ \A j \in D : j > k => FromTail(e, j) < n
  BY DEF ReachedFromTail
<1>3. /\ D \subseteq Int /\ IsFiniteSet(D) /\ \A l \in D : e.stacks[l] \in Int
      /\ \A S \in SUBSET D : IsFiniteSet(S) /\ SumOver(e.stacks, S) \in Int
  BY StacksFinite, EntrySumInt DEF IsEntry
<1>4. e.stacks[k] \in Nat \ {0}
  BY <1>2, <1>3 DEF Full
<1> HIDE DEF D
<1>5. FromTail(e, k) = SumOver(e.stacks, later) + e.stacks[k]
  <2>1. {j \in D : j >= k} = later \cup {k} /\ k \notin later /\ later \in SUBSET D
    <3>1. k \in Int /\ \A j \in D : j >= k <=> j > k \/ j = k
      BY <1>2, <1>3
    <3>2. k \in D /\ ~(k > k)
      BY <1>2, <3>1
    <3> QED
      BY ONLY <3>1, <3>2
  <2>2. FromTail(e, k) = SumOver(e.stacks, {j \in D : j >= k})
    BY DEF FromTail, D
  <2>3. IsFiniteSet(later) /\ \A j \in later \cup {k} : e.stacks[j] \in Int
    BY <1>2, <1>3, <2>1
  <2> HIDE DEF later
  <2> QED
    BY <2>1, <2>2, <2>3, SumOverMore
<1>6. SumOver(e.stacks, later) \in Int /\ SumOver(e.stacks, later) < n
  <2>1. later \in SUBSET D
    OBVIOUS
  <2>2. CASE later = {}
    BY <1>3, <2>1, <2>2, SumOverNone
  <2>3. CASE later # {}
    <3>1. later \subseteq Int /\ IsFiniteSet(later)
      BY <1>3, <2>1
    <3>2. PICK r \in later : \A j \in later : r <= j
      <4> HIDE DEF later
      <4> QED
        BY <2>3, <3>1, LeastInteger
    <3>3. {j \in D : j >= r} = later
      <4>1. D \subseteq Int /\ k \in Int /\ r \in Int /\ r > k
        BY <1>2, <1>3
      <4>2. ASSUME NEW j \in D PROVE j >= r <=> j > k
        BY <3>2, <4>1
      <4> QED
        BY <4>2
    <3>4. FromTail(e, r) = SumOver(e.stacks, later)
      BY <3>3 DEF FromTail, D
    <3> QED
      BY <1>2, <1>3, <2>1, <3>2, <3>4
  <2> QED
    BY <2>2, <2>3
<1>7. k \in DOMAIN stacks => stacks[k] = FromTail(e, k) - n
  BY <1>2
<1> HIDE DEF stacks, later
<1> QED
  BY <1>1, <1>2, <1>4, <1>5, <1>6, <1>7 DEF D

-----------------------------------------------------------------------------
(* Loops of a known number of steps.                                        *)

\* As many numbers as their last.
LEMMA UpTo == ASSUME NEW n \in Nat PROVE IsFiniteSet(1 .. n) /\ Cardinality(1 .. n) = n
<1>1. 1 \in Int /\ n \in Int /\ (IF 1 > n THEN 0 ELSE n - 1 + 1) = n
  OBVIOUS
<1>2. IsFiniteSet(1 .. n) /\ Cardinality(1 .. n) = IF 1 > n THEN 0 ELSE n - 1 + 1
  BY ONLY <1>1, FS_Interval
<1> QED
  BY ONLY <1>1, <1>2

\* Something holds after the loop if it holds at first and each step keeps it:
\* Kept is the set of the numbers of steps after which it does.
LEMMA LoopInduction ==
    ASSUME NEW N \in Nat, NEW Kept, 0 \in Kept,
           \A n \in 1 .. N : n - 1 \in Kept => n \in Kept
    PROVE  N \in Kept
<1> DEFINE bad == {n \in 0 .. N : n \notin Kept}
<1>1. SUFFICES ASSUME bad # {} PROVE FALSE
  OBVIOUS
<1>2. PICK n \in bad : \A m \in bad : n <= m
  <2>1. bad \in SUBSET (0 .. N) /\ bad \subseteq Int
    OBVIOUS
  <2>2. IsFiniteSet(0 .. N)
    BY FS_Interval
  <2> HIDE DEF bad
  <2> QED
    BY <1>1, <2>1, <2>2, FS_Subset, LeastInteger
<1>3. n # 0 /\ n \in 0 .. N
  BY <1>2
<1>4. n \in 1 .. N /\ n - 1 \in 0 .. N /\ ~(n <= n - 1)
  BY <1>3
<1>5. n - 1 \in Kept
  BY <1>2, <1>4
<1> QED
  BY <1>2, <1>4, <1>5

\* A loop whose step is a function on a set ends.
LoopOf(f, N, start, step) ==
    f = [k \in 0 .. N |-> IF k = 0 THEN start ELSE step[<<k, f[k - 1]>>]]

LEMMA LoopRuns ==
    ASSUME NEW N \in Nat, NEW S, NEW start \in S, NEW step \in [(1 .. N) \X S -> S]
    PROVE  \E f \in [0 .. N -> S] : LoopOf(f, N, start, step)
<1> DEFINE RunsTo(f, n) == f[0] = start /\ \A k \in 1 .. n : f[k] = step[<<k, f[k - 1]>>]
           Kept == {n \in 0 .. N : \E f \in [0 .. n -> S] : RunsTo(f, n)}
<1>1. 0 \in Kept
  <2> DEFINE f == [k \in 0 .. 0 |-> start]
  <2>1. f \in [0 .. 0 -> S] /\ RunsTo(f, 0)
    OBVIOUS
  <2> HIDE DEF f, RunsTo
  <2> QED
    BY <2>1
<1>2. ASSUME NEW n \in 1 .. N, n - 1 \in Kept PROVE n \in Kept
  <2>1. PICK f \in [0 .. n - 1 -> S] : RunsTo(f, n - 1)
    BY <1>2
  <2>2. n - 1 \in 0 .. n - 1 /\ n \in Nat /\ n - 1 \in Nat
    OBVIOUS
  <2>3. step[<<n, f[n - 1]>>] \in S
    BY <2>1, <2>2
  <2> DEFINE g == [k \in 0 .. n |-> IF k = n THEN step[<<n, f[n - 1]>>] ELSE f[k]]
  <2>4. g \in [0 .. n -> S]
    BY <2>1, <2>3
  <2>5. \A k \in 0 .. n - 1 : g[k] = f[k]
    BY <2>2
  <2>6. g[n] = step[<<n, f[n - 1]>>]
    BY <2>2
  <2> HIDE DEF g
  <2>7. RunsTo(g, n)
    <3>1. g[0] = start
      BY <2>1, <2>2, <2>5
    <3>2. ASSUME NEW k \in 1 .. n PROVE g[k] = step[<<k, g[k - 1]>>]
      <4>1. k - 1 \in 0 .. n - 1 /\ g[k - 1] = f[k - 1]
        BY <2>2, <2>5
      <4>2. CASE k = n
        BY <2>6, <4>1, <4>2
      <4>3. CASE k # n
        <5>1. k \in 1 .. n - 1 /\ k \in 0 .. n - 1
          BY <2>2, <4>3
        <5>2. f[k] = step[<<k, f[k - 1]>>]
          BY <2>1, <5>1
        <5> QED
          BY <2>5, <4>1, <5>1, <5>2
      <4> QED
        BY <4>2, <4>3
    <3> QED
      BY <3>1, <3>2
  <2> HIDE DEF RunsTo
  <2> QED
    BY <2>2, <2>4, <2>7
<1>3. N \in Kept
  <2> HIDE DEF Kept
  <2> QED
    BY <1>1, <1>2, LoopInduction
<1>4. PICK f \in [0 .. N -> S] : RunsTo(f, N)
  BY <1>3
<1>5. ASSUME NEW k \in 0 .. N PROVE f[k] = IF k = 0 THEN start ELSE step[<<k, f[k - 1]>>]
  BY <1>4, <1>5
<1>6. f = [k \in 0 .. N |-> f[k]]
  BY <1>4
<1> HIDE DEF RunsTo
<1>7. LoopOf(f, N, start, step)
  BY <1>5, <1>6 DEF LoopOf
<1> QED
  BY <1>7
=============================================================================
