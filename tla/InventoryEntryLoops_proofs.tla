---------------------- MODULE InventoryEntryLoops_proofs ----------------------
(* The loops of FInventoryEntry and of its FMutableAccess leave what the     *)
(* closed forms of InventoryEntry say, for every entry, limit and amount:    *)
(* what each loop has done when it has gone through some of the stacks.      *)
(* And the rules of ItemFilters: what they log and advise is true.           *)
EXTENDS InventoryEntryLoops, ItemFilters, InventoryEntry_proofs, SequenceTheorems

-----------------------------------------------------------------------------
(* Arrays of stacks, and the entries they make.                             *)

Rows == [key : Int, copies : Int]

\* An array in key order, its keys given out by a generator that is at g.
IsArray(a, g) ==
    /\ a \in Seq(Rows)
    /\ g \in Int /\ g >= KeyGenReset
    /\ \A i \in DOMAIN a : a[i].key > KeyGenReset /\ a[i].key <= g
    /\ \A i, j \in DOMAIN a : i < j => a[i].key < a[j].key

KeysOf(a, S) == {a[i].key : i \in S}

EntryOf(limit, a, g) ==
    [item   |-> "item",
     limit  |-> limit,
     gen    |-> g,
     stacks |-> [k \in {a[i].key : i \in DOMAIN a} |->
                    (CHOOSE s \in {a[i] : i \in DOMAIN a} : s.key = k).copies]]

\* The rows of an array.
LEMMA RowsOfArray ==
    ASSUME NEW a, NEW g, IsArray(a, g)
    PROVE  /\ Len(a) \in Nat /\ DOMAIN a = 1..Len(a)
           /\ \A i \in DOMAIN a : a[i].key \in Int /\ a[i].copies \in Int
           /\ \A i, j \in DOMAIN a : /\ a[i].key = a[j].key => i = j
                                     /\ a[i].key < a[j].key <=> i < j
<1>1. Len(a) \in Nat /\ DOMAIN a = 1..Len(a) /\ \A i \in DOMAIN a : a[i] \in Rows
  BY DEF IsArray
<1>2. \A i \in DOMAIN a : a[i].key \in Int /\ a[i].copies \in Int
  BY <1>1 DEF Rows
<1>3. \A i, j \in DOMAIN a : i < j => a[i].key < a[j].key
  BY DEF IsArray
<1>4. DOMAIN a \subseteq Int
  BY <1>1
<1>5. \A i, j \in DOMAIN a : /\ a[i].key = a[j].key => i = j
                             /\ a[i].key < a[j].key <=> i < j
  BY <1>2, <1>3, <1>4
<1> QED
  BY <1>1, <1>2, <1>5

\* An array makes an entry with its keys and copies.
LEMMA EntryOfArray ==
    ASSUME NEW a, NEW g, IsArray(a, g), NEW limit \in Limits
    PROVE  LET e == EntryOf(limit, a, g)
           IN  /\ IsEntry(e) /\ e.item = "item" /\ e.limit = limit /\ e.gen = g
               /\ DOMAIN e.stacks = KeysOf(a, DOMAIN a)
               /\ \A i \in DOMAIN a : a[i].key \in DOMAIN e.stacks /\ e.stacks[a[i].key] = a[i].copies
<1> DEFINE e == EntryOf(limit, a, g)
           D == {a[i].key : i \in DOMAIN a}
           V(k) == (CHOOSE s \in {a[i] : i \in DOMAIN a} : s.key = k).copies
<1>1. e = [item |-> "item", limit |-> limit, gen |-> g, stacks |-> [k \in D |-> V(k)]]
  BY DEF EntryOf
<1>2. /\ \A i \in DOMAIN a : a[i].key \in Int /\ a[i].copies \in Int
      /\ \A i, j \in DOMAIN a : a[i].key = a[j].key => i = j
  BY RowsOfArray
<1>3. \A i \in DOMAIN a : V(a[i].key) = a[i].copies
  <2> SUFFICES ASSUME NEW i \in DOMAIN a PROVE V(a[i].key) = a[i].copies
    OBVIOUS
  <2> DEFINE R == {a[j] : j \in DOMAIN a}
             s == CHOOSE x \in R : x.key = a[i].key
  <2>1. a[i] \in R
    OBVIOUS
  <2>2. \E x \in R : x.key = a[i].key
    BY <2>1
  <2>3. s \in R /\ s.key = a[i].key
    BY <2>2
  <2>4. PICK j \in DOMAIN a : s = a[j]
    BY <2>3
  <2>5. j = i
    BY <1>2, <2>3, <2>4
  <2> QED
    BY <2>4, <2>5
<1> HIDE DEF V
<1>4. \A i \in DOMAIN a : a[i].key \in D
  OBVIOUS
<1>5. \A k \in D : V(k) \in Int /\ k \in (KeyGenReset + 1)..g
  <2> SUFFICES ASSUME NEW i \in DOMAIN a
               PROVE  V(a[i].key) \in Int /\ a[i].key \in (KeyGenReset + 1)..g
    OBVIOUS
  <2>1. V(a[i].key) \in Int
    BY <1>2, <1>3
  <2>2. a[i].key > KeyGenReset /\ a[i].key <= g /\ g \in Int /\ a[i].key \in Int
    BY <1>2 DEF IsArray
  <2> QED
    BY <2>1, <2>2 DEF KeyGenReset
<1> HIDE DEF D
<1>6. e.stacks = [k \in D |-> V(k)] /\ DOMAIN e.stacks = D
  BY <1>1
<1>7. e.stacks \in [D -> Int]
  BY <1>5, <1>6
<1>8. e.item = "item" /\ e.limit = limit /\ e.gen = g
  BY <1>1
<1>9. g \in Int /\ g >= KeyGenReset
  BY DEF IsArray
<1>10. D \subseteq (KeyGenReset + 1)..g
  BY <1>5
<1>11. e = [item |-> e.item, limit |-> e.limit, gen |-> e.gen, stacks |-> e.stacks]
  BY <1>1
<1>12. D = KeysOf(a, DOMAIN a)
  BY DEF KeysOf, D
<1> HIDE DEF e
<1>13. IsEntry(e)
  BY <1>6, <1>7, <1>8, <1>9, <1>10, <1>11 DEF IsEntry
<1> QED
  BY <1>3, <1>4, <1>6, <1>8, <1>12, <1>13 DEF e

\* Two entries are one when their parts are.
LEMMA SameEntry ==
    ASSUME NEW e, NEW f,
           e = [item |-> e.item, limit |-> e.limit, gen |-> e.gen, stacks |-> e.stacks],
           f = [item |-> f.item, limit |-> f.limit, gen |-> f.gen, stacks |-> f.stacks],
           e.item = f.item, e.limit = f.limit, e.gen = f.gen,
           e.stacks = [k \in DOMAIN e.stacks |-> e.stacks[k]],
           f.stacks = [k \in DOMAIN f.stacks |-> f.stacks[k]],
           DOMAIN e.stacks = DOMAIN f.stacks, \A k \in DOMAIN e.stacks : e.stacks[k] = f.stacks[k]
    PROVE  e = f
<1>1. e.stacks = f.stacks
  OBVIOUS
<1> QED
  BY <1>1

\* The keys before and after some place of an array.
LEMMA KeysAround ==
    ASSUME NEW a, NEW g, IsArray(a, g), NEW i \in DOMAIN a
    PROVE  /\ {k \in KeysOf(a, DOMAIN a) : k < a[i].key} = KeysOf(a, 1..(i - 1))
           /\ {k \in KeysOf(a, DOMAIN a) : k >= a[i].key} = KeysOf(a, i..Len(a))
           /\ KeysOf(a, 1..i) = KeysOf(a, 1..(i - 1)) \cup {a[i].key}
           /\ a[i].key \notin KeysOf(a, 1..(i - 1))
           /\ KeysOf(a, i..Len(a)) = KeysOf(a, (i + 1)..Len(a)) \cup {a[i].key}
           /\ a[i].key \notin KeysOf(a, (i + 1)..Len(a))
<1>1. /\ Len(a) \in Nat /\ DOMAIN a = 1..Len(a)
      /\ \A j \in DOMAIN a : a[j].key \in Int
      /\ \A j, l \in DOMAIN a : /\ a[j].key = a[l].key => j = l
                                /\ a[j].key < a[l].key <=> j < l
  BY RowsOfArray
<1>2. i \in Nat /\ i >= 1 /\ i <= Len(a)
  BY <1>1
<1>3. 1..(i - 1) \subseteq DOMAIN a /\ i..Len(a) \subseteq DOMAIN a /\ (i + 1)..Len(a) \subseteq DOMAIN a
  BY <1>1, <1>2
<1>4. {k \in KeysOf(a, DOMAIN a) : k < a[i].key} = KeysOf(a, 1..(i - 1))
  BY <1>1, <1>2, <1>3 DEF KeysOf
<1>5. {k \in KeysOf(a, DOMAIN a) : k >= a[i].key} = KeysOf(a, i..Len(a))
  <2>1. \A j \in DOMAIN a : a[j].key >= a[i].key <=> j >= i
    BY <1>1, <1>2
  <2>2. \A j \in DOMAIN a : j \in i..Len(a) <=> j >= i
    BY <1>1, <1>2
  <2> QED
    BY <1>3, <2>1, <2>2 DEF KeysOf
<1>6. 1..i = (1..(i - 1)) \cup {i} /\ i..Len(a) = ((i + 1)..Len(a)) \cup {i}
  BY <1>1, <1>2
<1>7. i \notin 1..(i - 1) /\ i \notin (i + 1)..Len(a)
  BY <1>2
<1>8. a[i].key \notin KeysOf(a, 1..(i - 1)) /\ a[i].key \notin KeysOf(a, (i + 1)..Len(a))
  BY <1>1, <1>3, <1>7 DEF KeysOf
<1>9. /\ KeysOf(a, 1..i) = KeysOf(a, 1..(i - 1)) \cup {a[i].key}
      /\ KeysOf(a, i..Len(a)) = KeysOf(a, (i + 1)..Len(a)) \cup {a[i].key}
  BY <1>6 DEF KeysOf
<1> QED
  BY <1>4, <1>5, <1>8, <1>9

\* An array makes an entry that has its keys and copies, and no other entry.
LEMMA ArrayIsEntry ==
    ASSUME NEW a, NEW g, IsArray(a, g), NEW limit \in Limits,
           NEW f, IsEntry(f), f.item = "item", f.limit = limit, f.gen = g,
           DOMAIN f.stacks = KeysOf(a, DOMAIN a),
           \A i \in DOMAIN a : f.stacks[a[i].key] = a[i].copies
    PROVE  EntryOf(limit, a, g) = f
<1> DEFINE e == EntryOf(limit, a, g)
<1>1. /\ IsEntry(e) /\ e.item = "item" /\ e.limit = limit /\ e.gen = g
      /\ DOMAIN e.stacks = KeysOf(a, DOMAIN a)
      /\ \A i \in DOMAIN a : e.stacks[a[i].key] = a[i].copies
  BY EntryOfArray
<1> HIDE DEF e
<1>2. \A k \in DOMAIN e.stacks : e.stacks[k] = f.stacks[k]
  <2> SUFFICES ASSUME NEW k \in DOMAIN e.stacks PROVE e.stacks[k] = f.stacks[k]
    OBVIOUS
  <2>1. PICK i \in DOMAIN a : k = a[i].key
    BY <1>1 DEF KeysOf
  <2> QED
    BY <1>1, <2>1
<1>3. /\ e = [item |-> e.item, limit |-> e.limit, gen |-> e.gen, stacks |-> e.stacks]
      /\ f = [item |-> f.item, limit |-> f.limit, gen |-> f.gen, stacks |-> f.stacks]
      /\ e.stacks = [k \in DOMAIN e.stacks |-> e.stacks[k]]
      /\ f.stacks = [k \in DOMAIN f.stacks |-> f.stacks[k]]
  BY <1>1 DEF IsEntry
<1>4. e = f
  BY <1>1, <1>2, <1>3, SameEntry
<1> QED
  BY <1>4 DEF e

-----------------------------------------------------------------------------
(* The loops that make stacks.                                              *)

\* What is left of n copies when j stacks have been cut off them.
Left(n, limit, j) == IF j = StacksNeeded(n, limit) THEN 0 ELSE n - limit * j

\* It is nothing just when as many stacks are cut as the copies need, and the
\* next stack takes what the limit allows of it.
LEMMA LeftSteps ==
    ASSUME NEW n \in Nat \ {0}, NEW limit \in Nat \ {0},
           NEW j \in Nat, j <= StacksNeeded(n, limit)
    PROVE  /\ Left(n, limit, j) \in Nat
           /\ Left(n, limit, j) = 0 <=> j = StacksNeeded(n, limit)
           /\ Left(n, limit, 0) = n
           /\ j # StacksNeeded(n, limit) =>
                /\ Left(n, limit, j) = n - limit * j
                /\ Left(n, limit, j) - Lesser(Left(n, limit, j), limit) = Left(n, limit, j + 1)
<1> DEFINE m == StacksNeeded(n, limit)
           x == limit * j
           y == limit * (j + 1)
           z == limit * (m - 1)
           w == limit * m
<1>1. m \in Nat \ {0} /\ z < n /\ n <= w
  BY StacksNeededBounds
<1> HIDE DEF m
<1>2. x \in Int /\ y \in Int /\ z \in Int /\ w \in Int
  BY <1>1
<1>3. y = x + limit /\ w = z + limit
  BY <1>1, SMTT(60)
<1>4. j < m => x <= z
  BY <1>1, SMTT(60)
<1>5. j + 1 < m => y <= z
  BY <1>1, SMTT(60)
<1>6. j + 1 = m => y = w
  OBVIOUS
<1>7. limit * 0 = 0
  OBVIOUS
<1> HIDE DEF x, y, z, w
<1>8. /\ Left(n, limit, j) = (IF j = m THEN 0 ELSE n - x)
      /\ Left(n, limit, j + 1) = (IF j + 1 = m THEN 0 ELSE n - y)
      /\ Left(n, limit, 0) = n
  BY <1>1, <1>7 DEF Left, m, x, y
<1>9. j <= m
  BY DEF m
<1>10. j # m => n - x > 0
  BY <1>1, <1>2, <1>4, <1>9
<1>11. Left(n, limit, j) \in Nat /\ (Left(n, limit, j) = 0 <=> j = m)
  BY <1>2, <1>8, <1>10
<1>12. ASSUME j # m
       PROVE  Left(n, limit, j) - Lesser(Left(n, limit, j), limit) = Left(n, limit, j + 1)
  <2>1. CASE j + 1 = m
    BY <1>1, <1>2, <1>3, <1>6, <1>8, <1>12, <2>1 DEF Lesser
  <2>2. CASE j + 1 # m
    <3>1. j + 1 < m
      BY <1>1, <1>9, <1>12, <2>2
    <3> QED
      BY <1>1, <1>2, <1>3, <1>5, <1>8, <1>12, <3>1 DEF Lesser
  <2> QED
    BY <2>1, <2>2
<1> QED
  BY <1>8, <1>11, <1>12 DEF m, x

\* The array a0 with the copies that stacks gives its keys, and some stacks
\* made after it: the j-th of them of f[j] copies.
Made(stack, a0, g0, f, a, g) ==
    /\ IsArray(a, g)
    /\ Len(a) >= Len(a0) /\ g = g0 + (Len(a) - Len(a0))
    /\ \A i \in DOMAIN a0 : a[i].key = a0[i].key /\ a[i].copies = stack[a0[i].key]
    /\ \A i \in DOMAIN a : i > Len(a0) => /\ a[i].key = g0 + (i - Len(a0))
                                          /\ a[i].copies = f[i - Len(a0)]

\* One more stack at the end of an array.
LEMMA ArrayGrows ==
    ASSUME NEW a, NEW g, IsArray(a, g), NEW n \in Int
    PROVE  LET b == Append(a, Stack(g + 1, n))
           IN  /\ IsArray(b, g + 1) /\ Len(b) = Len(a) + 1
               /\ DOMAIN b = 1..(Len(a) + 1)
               /\ \A i \in DOMAIN a : b[i] = a[i]
               /\ b[Len(a) + 1].key = g + 1 /\ b[Len(a) + 1].copies = n
<1> DEFINE s == Stack(g + 1, n)
           b == Append(a, s)
           l == Len(a)
<1>1. a \in Seq(Rows) /\ g \in Int /\ g >= KeyGenReset
  BY DEF IsArray
<1>2. s \in Rows /\ s.key = g + 1 /\ s.copies = n
  BY <1>1 DEF Stack, Rows
<1> HIDE DEF s
<1>3. b \in Seq(Rows) /\ Len(b) = Len(a) + 1 /\ b[Len(a) + 1] = s
  BY <1>1, <1>2
<1>4. l \in Nat /\ DOMAIN a = 1..l /\ DOMAIN b = 1..(l + 1)
  BY <1>1, <1>2
<1>5. \A i \in DOMAIN a : b[i] = a[i]
  BY <1>1, <1>2
<1>6. b[l + 1].key = g + 1 /\ b[l + 1].copies = n
  BY <1>2, <1>3
<1>7. /\ \A i \in DOMAIN a : a[i].key > KeyGenReset /\ a[i].key <= g /\ a[i].key \in Int
      /\ \A i, j \in DOMAIN a : i < j => a[i].key < a[j].key
  BY RowsOfArray DEF IsArray
<1> HIDE DEF b, l
<1>8. \A i \in DOMAIN b : i \in DOMAIN a \/ i = l + 1
  BY <1>4
<1>9. \A i \in DOMAIN b : b[i].key > KeyGenReset /\ b[i].key <= g + 1
  <2>1. \A i \in DOMAIN a : b[i].key > KeyGenReset /\ b[i].key <= g + 1
    BY <1>1, <1>5, <1>7 DEF KeyGenReset
  <2>2. b[l + 1].key > KeyGenReset /\ b[l + 1].key <= g + 1
    BY <1>1, <1>6 DEF KeyGenReset
  <2> QED
    BY <1>8, <2>1, <2>2
<1>10. \A i, j \in DOMAIN b : i < j => b[i].key < b[j].key
  <2> SUFFICES ASSUME NEW i \in DOMAIN b, NEW j \in DOMAIN b, i < j PROVE b[i].key < b[j].key
    OBVIOUS
  <2>1. i \in DOMAIN a
    BY <1>4
  <2>2. CASE j \in DOMAIN a
    BY <1>5, <1>7, <2>1, <2>2
  <2>3. CASE j = l + 1
    BY <1>1, <1>5, <1>6, <1>7, <2>1, <2>3
  <2> QED
    BY <1>8, <2>2, <2>3
<1>11. g + 1 \in Int /\ g + 1 >= KeyGenReset
  BY <1>1 DEF KeyGenReset
<1>12. IsArray(b, g + 1)
  BY <1>3, <1>9, <1>10, <1>11 DEF IsArray
<1> QED
  BY <1>3, <1>4, <1>5, <1>6, <1>12 DEF b, l, s

\* So the loops that make stacks go on.
LEMMA OneMoreMade ==
    ASSUME NEW stack, NEW a0, NEW g0 \in Int, IsArray(a0, g0), NEW f, NEW a, NEW g,
           Made(stack, a0, g0, f, a, g), NEW n \in Int, n = f[Len(a) - Len(a0) + 1]
    PROVE  /\ Made(stack, a0, g0, f, Append(a, Stack(g + 1, n)), g + 1)
           /\ Len(Append(a, Stack(g + 1, n))) = Len(a) + 1
<1> DEFINE b == Append(a, Stack(g + 1, n))
           l == Len(a)
           l0 == Len(a0)
<1>1. /\ IsArray(b, g + 1) /\ Len(b) = l + 1
      /\ DOMAIN b = 1..(l + 1)
      /\ \A i \in DOMAIN a : b[i] = a[i]
      /\ b[l + 1].key = g + 1 /\ b[l + 1].copies = n
  <2>1. IsArray(a, g) /\ n \in Int
    BY DEF Made
  <2> QED
    BY ONLY <2>1, ArrayGrows
<1>2. l \in Nat /\ DOMAIN a = 1..l /\ l0 \in Nat /\ DOMAIN a0 = 1..l0
  BY RowsOfArray DEF Made
<1>3. /\ l >= l0 /\ g = g0 + (l - l0)
      /\ \A i \in DOMAIN a0 : a[i].key = a0[i].key /\ a[i].copies = stack[a0[i].key]
      /\ \A i \in DOMAIN a : i > l0 => a[i].key = g0 + (i - l0) /\ a[i].copies = f[i - l0]
  BY DEF Made
<1>4. n = f[l - l0 + 1]
  OBVIOUS
<1> HIDE DEF b, l, l0
<1>5. \A i \in DOMAIN a0 : b[i].key = a0[i].key /\ b[i].copies = stack[a0[i].key]
  <2>1. \A i \in DOMAIN a0 : i \in DOMAIN a
    BY <1>2, <1>3
  <2> QED
    BY <1>1, <1>3, <2>1
<1>6. \A i \in DOMAIN b : i > l0 => b[i].key = g0 + (i - l0) /\ b[i].copies = f[i - l0]
  <2> SUFFICES ASSUME NEW i \in DOMAIN b, i > l0
               PROVE  b[i].key = g0 + (i - l0) /\ b[i].copies = f[i - l0]
    OBVIOUS
  <2>1. CASE i \in DOMAIN a
    BY <1>1, <1>3, <2>1
  <2>2. CASE i = l + 1
    <3>1. g + 1 = g0 + (i - l0) /\ l - l0 + 1 = i - l0
      BY <1>2, <1>3, <2>2
    <3> QED
      BY <1>1, <1>4, <2>2, <3>1
  <2> QED
    BY <1>1, <1>2, <2>1, <2>2
<1>7. Len(b) >= l0 /\ g + 1 = g0 + (Len(b) - l0)
  BY <1>1, <1>2, <1>3
<1>8. Made(stack, a0, g0, f, b, g + 1)
  BY <1>1, <1>5, <1>6, <1>7 DEF Made, l0
<1> QED
  BY <1>1, <1>8 DEF b, l

\* The keys of the stacks that were made, and of all.
LEMMA KeysMade ==
    ASSUME NEW stack, NEW a0, NEW g0 \in Int, IsArray(a0, g0), NEW f, NEW a, NEW g,
           Made(stack, a0, g0, f, a, g)
    PROVE  /\ KeysOf(a, DOMAIN a) = KeysOf(a0, DOMAIN a0) \cup ((g0 + 1)..g)
           /\ KeysOf(a, DOMAIN a) \ KeysOf(a0, DOMAIN a0) = (g0 + 1)..g
<1> DEFINE l == Len(a)
           l0 == Len(a0)
<1>1. /\ l \in Nat /\ DOMAIN a = 1..l /\ l0 \in Nat /\ DOMAIN a0 = 1..l0
      /\ \A i \in DOMAIN a0 : a0[i].key \in Int
  BY RowsOfArray DEF Made
<1>2. /\ l >= l0 /\ g = g0 + (l - l0)
      /\ \A i \in DOMAIN a0 : a[i].key = a0[i].key
      /\ \A i \in DOMAIN a : i > l0 => a[i].key = g0 + (i - l0)
  BY DEF Made
<1>3. \A i \in DOMAIN a0 : a0[i].key <= g0
  BY DEF IsArray
<1> HIDE DEF l, l0
<1>4. ASSUME NEW i \in DOMAIN a
      PROVE  a[i].key \in KeysOf(a0, DOMAIN a0) \/ a[i].key \in (g0 + 1)..g
  <2>1. CASE i > l0
    BY <1>1, <1>2, <2>1
  <2>2. CASE ~(i > l0)
    <3>1. i \in DOMAIN a0
      BY <1>1, <2>2
    <3> QED
      BY <1>2, <3>1 DEF KeysOf
  <2> QED
    BY <2>1, <2>2
<1>5. ASSUME NEW i \in DOMAIN a0 PROVE a0[i].key \in KeysOf(a, DOMAIN a) /\ a0[i].key \notin (g0 + 1)..g
  <2>1. i \in DOMAIN a /\ a[i].key = a0[i].key
    BY <1>1, <1>2
  <2> QED
    BY <1>1, <1>3, <2>1 DEF KeysOf
<1>6. ASSUME NEW k \in (g0 + 1)..g PROVE k \in KeysOf(a, DOMAIN a)
  <2> DEFINE i == k - g0 + l0
  <2>1. i \in DOMAIN a /\ i > l0 /\ g0 + (i - l0) = k
    BY <1>1, <1>2
  <2> HIDE DEF i
  <2>2. a[i].key = k
    BY <1>2, <2>1
  <2> QED
    BY <2>1, <2>2 DEF KeysOf
<1>7. KeysOf(a, DOMAIN a) \subseteq KeysOf(a0, DOMAIN a0) \cup ((g0 + 1)..g)
  <2> SUFFICES ASSUME NEW k \in KeysOf(a, DOMAIN a)
               PROVE  k \in KeysOf(a0, DOMAIN a0) \cup ((g0 + 1)..g)
    OBVIOUS
  <2>1. PICK i \in DOMAIN a : k = a[i].key
    BY DEF KeysOf
  <2> QED
    BY <1>4, <2>1
<1>8. \A k \in KeysOf(a0, DOMAIN a0) : k \in KeysOf(a, DOMAIN a) /\ k \notin (g0 + 1)..g
  <2> SUFFICES ASSUME NEW k \in KeysOf(a0, DOMAIN a0)
               PROVE  k \in KeysOf(a, DOMAIN a) /\ k \notin (g0 + 1)..g
    OBVIOUS
  <2>1. PICK i \in DOMAIN a0 : k = a0[i].key
    BY DEF KeysOf
  <2> QED
    BY <1>5, <2>1
<1> QED
  BY <1>6, <1>7, <1>8

\* What the constructor's loop has made when it is done is the new entry.
LEMMA AllConstructed ==
    ASSUME NEW limit \in Limits, NEW n \in Nat \ {0}, NEW stack, NEW f, NEW a, NEW g,
           Made(stack, <<>>, KeyGenReset, f, a, g), Len(a) = StacksNeeded(n, limit),
           \A j \in 1..Len(a) : f[j] = IF limit = UnlimitedStack THEN n
                                       ELSE Lesser(limit, n - limit * (j - 1))
    PROVE  EntryOf(limit, a, g) = NewEntry("item", limit, n)
<1> DEFINE e == NewEntry("item", limit, n)
           m == StacksNeeded(n, limit)
           D == (KeyGenReset + 1)..(KeyGenReset + m)
           C(k) == IF limit = UnlimitedStack THEN n
                   ELSE Lesser(limit, n - limit * (k - KeyGenReset - 1))
<1>1. IsEntry(e)
  BY NewEntryIsEntry
<1>2. e.item = "item" /\ e.limit = limit /\ e.gen = KeyGenReset + m /\ e.stacks = [k \in D |-> C(k)]
  BY DEF NewEntry
<1>3. m \in Nat
  BY StacksNeededNat
<1> HIDE DEF e, C
<1>4. IsArray(a, g) /\ Len(a) >= 0 /\ g = KeyGenReset + (Len(a) - 0)
  BY DEF Made
<1>5. DOMAIN a = 1..Len(a) /\ Len(a) \in Nat
  BY <1>4, RowsOfArray
<1>6. \A i \in DOMAIN a : a[i].key = KeyGenReset + i /\ a[i].copies = f[i]
  <2>1. \A i \in DOMAIN a : i > 0 => /\ a[i].key = KeyGenReset + (i - 0)
                                     /\ a[i].copies = f[i - 0]
    BY DEF Made
  <2>2. \A i \in DOMAIN a : i > 0 /\ i - 0 = i
    BY <1>5
  <2> QED
    BY <2>1, <2>2
<1>7. Len(a) = m
  OBVIOUS
<1> HIDE DEF m
<1>8. g = e.gen
  BY <1>2, <1>3, <1>4, <1>7 DEF KeyGenReset
<1>9. KeysOf(a, DOMAIN a) = D
  <2>1. \A i \in DOMAIN a : a[i].key \in D
    BY <1>3, <1>5, <1>6, <1>7 DEF KeyGenReset
  <2>2. ASSUME NEW k \in D PROVE k \in KeysOf(a, DOMAIN a)
    <3> DEFINE i == k - KeyGenReset
    <3>1. i \in DOMAIN a /\ KeyGenReset + i = k
      BY <1>3, <1>5, <1>7 DEF KeyGenReset
    <3> HIDE DEF i
    <3>2. a[i].key = k
      BY <1>6, <3>1
    <3> QED
      BY <3>1, <3>2 DEF KeysOf
  <2>3. KeysOf(a, DOMAIN a) \subseteq D
    BY <2>1 DEF KeysOf
  <2> QED
    BY <2>2, <2>3
<1>10. \A i \in DOMAIN a : e.stacks[a[i].key] = a[i].copies
  <2> SUFFICES ASSUME NEW i \in DOMAIN a PROVE e.stacks[a[i].key] = a[i].copies
    OBVIOUS
  <2> DEFINE k == KeyGenReset + i
             y == k - KeyGenReset - 1
  <2>1. k \in D /\ a[i].key = k
    BY <1>3, <1>5, <1>6, <1>7 DEF KeyGenReset
  <2>2. y = i - 1
    BY <1>5 DEF KeyGenReset
  <2>3. e.stacks[k] = C(k)
    BY <1>2, <2>1
  <2>4. C(k) = IF limit = UnlimitedStack THEN n ELSE Lesser(limit, n - limit * y)
    BY DEF C
  <2>5. f[i] = IF limit = UnlimitedStack THEN n ELSE Lesser(limit, n - limit * (i - 1))
    BY <1>5
  <2> HIDE DEF k, y
  <2> QED
    BY <1>6, <2>1, <2>2, <2>3, <2>4, <2>5
<1>11. DOMAIN e.stacks = D
  BY <1>2
<1>12. EntryOf(limit, a, g) = e
  BY <1>1, <1>2, <1>4, <1>8, <1>9, <1>10, <1>11, ArrayIsEntry, ZenonT(30)
<1> QED
  BY <1>12 DEF e

\* All stacks are made that n copies need beside those of e, each of n copies.
Complete(e, a0, f, n, a, g) ==
    /\ IsEntry(e) /\ e.item = "item"
    /\ IsArray(a0, e.gen) /\ DOMAIN e.stacks = KeysOf(a0, DOMAIN a0)
    /\ Made(e.stacks, a0, e.gen, f, a, g)
    /\ Len(a) - Len(a0) = StacksNeeded(n, e.limit)
    /\ \A j \in 1..(Len(a) - Len(a0)) : f[j] = n

\* What AddToNewStacks' loop has made when it is done are its stacks.
LEMMA AllMade ==
    ASSUME NEW e, NEW n \in Nat \ {0}, NEW a0, NEW f, NEW a, NEW g, Complete(e, a0, f, n, a, g)
    PROVE  EntryOf(e.limit, a, g) = AddToNewStacks(e, n)
<1> DEFINE b == AddToNewStacks(e, n)
           m == StacksNeeded(n, e.limit)
           made == (e.gen + 1)..(e.gen + m)
           D == DOMAIN e.stacks
           l0 == Len(a0)
           C(k) == IF k \in made THEN n ELSE e.stacks[k]
<1>0. /\ IsEntry(e) /\ e.item = "item"
      /\ IsArray(a0, e.gen) /\ D = KeysOf(a0, DOMAIN a0)
      /\ Made(e.stacks, a0, e.gen, f, a, g)
      /\ Len(a) - l0 = m /\ \A j \in 1..m : f[j] = n
  BY DEF Complete
<1>1. IsEntry(b)
  BY <1>0, AddToNewStacksContinues
<1>2. /\ b.item = e.item /\ b.limit = e.limit /\ b.gen = e.gen + m
      /\ b.stacks = [k \in D \cup made |-> C(k)]
  BY DEF AddToNewStacks
<1>3. m \in Nat /\ e.gen \in Int /\ e.limit \in Limits
  BY <1>0, StacksNeededNat DEF IsEntry
<1> HIDE DEF b, C
<1>4. /\ IsArray(a, g) /\ Len(a) >= l0 /\ g = e.gen + (Len(a) - l0)
      /\ \A i \in DOMAIN a0 : a[i].key = a0[i].key /\ a[i].copies = e.stacks[a0[i].key]
      /\ \A i \in DOMAIN a : i > l0 => a[i].key = e.gen + (i - l0) /\ a[i].copies = f[i - l0]
  BY <1>0 DEF Made
<1>5. /\ DOMAIN a = 1..Len(a) /\ Len(a) \in Nat /\ DOMAIN a0 = 1..l0 /\ l0 \in Nat
      /\ \A i \in DOMAIN a0 : a0[i].key \in Int
  BY <1>0, <1>4, RowsOfArray
<1>6. Len(a) - l0 = m /\ \A j \in 1..m : f[j] = n
  BY <1>0
<1>7. KeysOf(a, DOMAIN a) = D \cup made
  <2>1. KeysOf(a, DOMAIN a) = D \cup ((e.gen + 1)..g)
    BY <1>0, <1>3, KeysMade
  <2>2. g = e.gen + m
    BY <1>4, <1>6
  <2> QED
    BY <2>1, <2>2
<1>8. \A i \in DOMAIN a0 : a0[i].key \in D /\ a0[i].key \notin made
  <2>1. \A i \in DOMAIN a0 : a0[i].key <= e.gen
    BY <1>0 DEF IsArray
  <2>2. \A i \in DOMAIN a0 : a0[i].key \in D
    BY <1>0 DEF KeysOf
  <2> QED
    BY <1>3, <1>5, <2>1, <2>2
<1> HIDE DEF m, l0, made, D
<1>9. ASSUME NEW i \in DOMAIN a PROVE b.stacks[a[i].key] = a[i].copies
  <2>1. CASE i > l0
    <3>1. i - l0 \in 1..m /\ a[i].key = e.gen + (i - l0) /\ a[i].copies = f[i - l0]
      BY <1>4, <1>5, <1>6, <2>1
    <3>2. a[i].key \in made
      BY <1>3, <3>1 DEF made
    <3>3. a[i].copies = n
      BY <1>6, <3>1
    <3> QED
      BY <1>2, <3>2, <3>3 DEF C
  <2>2. CASE ~(i > l0)
    <3>1. i \in DOMAIN a0
      BY <1>5, <2>2
    <3>2. a[i].key = a0[i].key /\ a[i].copies = e.stacks[a0[i].key]
      BY <1>4, <3>1
    <3>3. a0[i].key \in D /\ a0[i].key \notin made
      BY <1>8, <3>1
    <3> QED
      BY <1>2, <3>2, <3>3 DEF C
  <2> QED
    BY <2>1, <2>2
<1>10. DOMAIN b.stacks = D \cup made
  BY <1>2
<1>11. EntryOf(e.limit, a, g) = b
  <2>1. b.gen = g /\ b.item = "item"
    BY <1>0, <1>2, <1>4, <1>6
  <2>2. DOMAIN b.stacks = KeysOf(a, DOMAIN a) /\ \A i \in DOMAIN a : b.stacks[a[i].key] = a[i].copies
    BY <1>7, <1>9, <1>10
  <2>3. IsArray(a, g) /\ e.limit \in Limits /\ b.limit = e.limit
    BY <1>2, <1>3, <1>4
  <2> QED
    BY ONLY <1>1, <2>1, <2>2, <2>3, ArrayIsEntry
<1> QED
  BY <1>11 DEF b

-----------------------------------------------------------------------------
(* The loop that fills stacks.                                              *)

\* An array with the copies of one stack changed.
LEMMA ArrayChanges ==
    ASSUME NEW a, NEW g, IsArray(a, g), NEW i \in DOMAIN a, NEW n \in Int
    PROVE  LET b == [a EXCEPT ![i].copies = n]
           IN  /\ IsArray(b, g) /\ Len(b) = Len(a) /\ DOMAIN b = DOMAIN a
               /\ b[i].copies = n
               /\ \A j \in DOMAIN a : b[j].key = a[j].key /\ (j # i => b[j] = a[j])
<1> DEFINE b == [a EXCEPT ![i].copies = n]
           s == [key |-> a[i].key, copies |-> n]
<1>1. /\ Len(a) \in Nat /\ DOMAIN a = 1..Len(a)
      /\ \A j \in DOMAIN a : a[j].key \in Int /\ a[j].copies \in Int
  BY RowsOfArray
<1>2. a \in Seq(Rows) /\ a[i] \in Rows
  BY DEF IsArray
<1>3. a[i] = [key |-> a[i].key, copies |-> a[i].copies]
  BY <1>2 DEF Rows
<1>4. b = [a EXCEPT ![i] = s]
  <2>1. \A r, k, c : r = [key |-> k, copies |-> c] => [r EXCEPT !.copies = n] = [key |-> k, copies |-> n]
    OBVIOUS
  <2>2. [a[i] EXCEPT !.copies = n] = s
    BY <1>3, <2>1
  <2> QED
    BY <2>2
<1>5. s \in Rows
  BY <1>1 DEF Rows
<1> HIDE DEF b
<1>6. /\ DOMAIN b = DOMAIN a /\ b[i] = s /\ \A j \in DOMAIN a : j # i => b[j] = a[j]
  BY <1>4
<1>7. b \in Seq(Rows) /\ Len(b) = Len(a)
  BY <1>1, <1>2, <1>4, <1>5
<1>8. b[i].copies = n /\ \A j \in DOMAIN a : b[j].key = a[j].key
  BY <1>6
<1> HIDE DEF s
<1>9. IsArray(b, g)
  BY <1>6, <1>7, <1>8 DEF IsArray
<1> QED
  BY <1>6, <1>7, <1>8, <1>9 DEF b

\* An array and the entry it makes.
Shows(a, e) ==
    /\ IsEntry(e) /\ e.item = "item"
    /\ IsArray(a, e.gen)
    /\ DOMAIN e.stacks = KeysOf(a, DOMAIN a)
    /\ \A i \in DOMAIN a : a[i].key \in DOMAIN e.stacks /\ e.stacks[a[i].key] = a[i].copies

\* The room in the stacks before the i-th.
RoomTo(e, a, i) == SumOver(Room(e), KeysOf(a, 1..(i - 1)))

\* Part of a sum of what is not negative is no more than the sum.
LEMMA SumOverPart ==
    ASSUME NEW T, IsFiniteSet(T), NEW S \in SUBSET T, NEW f, \A k \in T : f[k] \in Nat
    PROVE  SumOver(f, S) \in Nat /\ SumOver(f, T) \in Nat /\ SumOver(f, S) <= SumOver(f, T)
<1> DEFINE U == T \ S
<1>1. IsFiniteSet(S) /\ IsFiniteSet(U)
  BY FS_Subset
<1>2. S \cup U = T /\ S \cap U = {}
  OBVIOUS
<1>3. /\ \A k \in S : f[k] \in Nat
      /\ \A k \in U : f[k] \in Nat
  OBVIOUS
<1> HIDE DEF U
<1>4. SumOver(f, S) \in Nat /\ SumOver(f, U) \in Nat /\ SumOver(f, T) \in Nat
  BY <1>1, <1>3, SumOverNat
<1>5. SumOver(f, S \cup U) = SumOver(f, S) + SumOver(f, U)
  BY <1>1, <1>2, <1>3, SumOverUnion
<1> QED
  BY <1>2, <1>4, <1>5

\* The rooms of an entry's stacks are not negative, and they add up as the
\* loop goes through the stacks.
LEMMA RoomSteps ==
    ASSUME NEW a, NEW e, Shows(a, e)
    PROVE  /\ \A i \in 1..(Len(a) + 1) : RoomTo(e, a, i) \in Nat
           /\ \A i, j \in 1..(Len(a) + 1) : i <= j => RoomTo(e, a, i) <= RoomTo(e, a, j)
           /\ RoomTo(e, a, 1) = 0
           /\ RoomTo(e, a, Len(a) + 1) = SumOver(Room(e), DOMAIN e.stacks)
           /\ \A i \in DOMAIN a :
                 /\ RoomBefore(e, a[i].key) = RoomTo(e, a, i)
                 /\ Room(e)[a[i].key] \in Nat
                 /\ Room(e)[a[i].key] = IF a[i].copies < e.limit THEN e.limit - a[i].copies ELSE 0
                 /\ RoomTo(e, a, i + 1) = RoomTo(e, a, i) + Room(e)[a[i].key]
<1> DEFINE R == Room(e)
           D == DOMAIN e.stacks
           K(i) == KeysOf(a, 1..(i - 1))
<1>1. /\ Len(a) \in Nat /\ DOMAIN a = 1..Len(a) /\ IsArray(a, e.gen)
      /\ \A i \in DOMAIN a : a[i].key \in Int /\ a[i].copies \in Int
  BY RowsOfArray DEF Shows
<1>2. D = KeysOf(a, DOMAIN a) /\ IsFiniteSet(D) /\ e.limit \in Int
  BY StacksFinite DEF Shows, IsEntry, Limits, UnlimitedStack
<1>3. R = [k \in D |-> IF e.stacks[k] < e.limit THEN e.limit - e.stacks[k] ELSE 0]
  BY DEF Room
<1>4. \A i \in DOMAIN a : a[i].key \in D /\ e.stacks[a[i].key] = a[i].copies
  BY DEF Shows
<1>5. \A k \in D : e.stacks[k] \in Int
  BY DEF Shows, IsEntry
<1> HIDE DEF D, R
<1>6. \A k \in D : R[k] \in Nat
  BY <1>2, <1>3, <1>5
<1>7. \A i \in 1..(Len(a) + 1) : K(i) \in SUBSET D
  BY <1>1, <1>2 DEF KeysOf
<1>8. \A i, j \in 1..(Len(a) + 1) : i <= j => K(i) \in SUBSET K(j)
  <2> SUFFICES ASSUME NEW i \in 1..(Len(a) + 1), NEW j \in 1..(Len(a) + 1), i <= j
               PROVE  K(i) \in SUBSET K(j)
    OBVIOUS
  <2>1. 1..(i - 1) \subseteq 1..(j - 1)
    BY <1>1
  <2> QED
    BY <2>1 DEF KeysOf
<1>9. K(1) = {}
  BY DEF KeysOf
<1>10. K(Len(a) + 1) = D
  <2>1. 1..(Len(a) + 1 - 1) = DOMAIN a
    BY <1>1
  <2> QED
    BY <1>2, <2>1
<1>11. \A i \in DOMAIN a : /\ {k \in D : k < a[i].key} = K(i)
                           /\ K(i + 1) = K(i) \cup {a[i].key} /\ a[i].key \notin K(i)
  <2> SUFFICES ASSUME NEW i \in DOMAIN a
               PROVE  /\ {k \in D : k < a[i].key} = K(i)
                      /\ K(i + 1) = K(i) \cup {a[i].key} /\ a[i].key \notin K(i)
    OBVIOUS
  <2>1. i + 1 - 1 = i
    BY <1>1
  <2> QED
    BY <1>1, <1>2, <2>1, KeysAround
<1>12. \A i \in 1..(Len(a) + 1) : RoomTo(e, a, i) = SumOver(R, K(i))
  BY DEF RoomTo, R
<1> HIDE DEF K
<1>13. \A i \in 1..(Len(a) + 1) : IsFiniteSet(K(i)) /\ \A k \in K(i) : R[k] \in Nat
  BY <1>2, <1>6, <1>7, FS_Subset
<1>14. \A i \in 1..(Len(a) + 1) : RoomTo(e, a, i) \in Nat
  BY <1>12, <1>13, SumOverNat
<1>15. \A i, j \in 1..(Len(a) + 1) : i <= j => RoomTo(e, a, i) <= RoomTo(e, a, j)
  BY <1>8, <1>12, <1>13, SumOverPart
<1>16. RoomTo(e, a, 1) = 0
  <2>1. 1 \in 1..(Len(a) + 1)
    BY <1>1
  <2> QED
    BY <1>9, <1>12, <2>1, SumOverNone
<1>17. RoomTo(e, a, Len(a) + 1) = SumOver(R, D)
  <2>1. Len(a) + 1 \in 1..(Len(a) + 1)
    BY <1>1
  <2> QED
    BY <1>10, <1>12, <2>1
<1>18. ASSUME NEW i \in DOMAIN a
       PROVE  /\ RoomBefore(e, a[i].key) = RoomTo(e, a, i)
              /\ R[a[i].key] \in Nat
              /\ R[a[i].key] = IF a[i].copies < e.limit THEN e.limit - a[i].copies ELSE 0
              /\ RoomTo(e, a, i + 1) = RoomTo(e, a, i) + R[a[i].key]
  <2> DEFINE x == a[i].key
  <2>1. x \in D /\ e.stacks[x] = a[i].copies
    BY <1>4
  <2>2. R[x] \in Nat /\ R[x] = IF a[i].copies < e.limit THEN e.limit - a[i].copies ELSE 0
    BY <1>3, <1>6, <2>1
  <2>3. i \in 1..(Len(a) + 1) /\ i + 1 \in 1..(Len(a) + 1)
    BY <1>1
  <2>4. RoomBefore(e, x) = SumOver(R, {k \in D : k < x})
    BY DEF RoomBefore, R, D
  <2>5. {k \in D : k < x} = K(i) /\ K(i + 1) = K(i) \cup {x} /\ x \notin K(i)
    BY <1>11
  <2> HIDE DEF x
  <2>6. SumOver(R, K(i) \cup {x}) = SumOver(R, K(i)) + R[x]
    <3>1. IsFiniteSet(K(i)) /\ \A k \in K(i) \cup {x} : R[k] \in Int
      BY <1>13, <2>2, <2>3
    <3> QED
      BY ONLY <2>5, <3>1, SumOverMore
  <2>7. RoomTo(e, a, i) = SumOver(R, K(i)) /\ RoomTo(e, a, i + 1) = SumOver(R, K(i + 1))
    BY <1>12, <2>3
  <2>8. RoomBefore(e, x) = RoomTo(e, a, i) /\ RoomTo(e, a, i + 1) = RoomTo(e, a, i) + R[x]
    BY <2>4, <2>5, <2>6, <2>7
  <2> QED
    BY <2>2, <2>8 DEF x
<1> QED
  BY <1>14, <1>15, <1>16, <1>17, <1>18 DEF R, D

\* What Filled gives the i-th stack.
LEMMA FilledCopies ==
    ASSUME NEW a, NEW e, Shows(a, e), NEW n \in Nat \ {0}
    PROVE  /\ IsEntry(Filled(e, n)) /\ Filled(e, n).item = "item"
           /\ Filled(e, n).limit = e.limit /\ Filled(e, n).gen = e.gen
           /\ DOMAIN Filled(e, n).stacks = DOMAIN e.stacks
           /\ \A i \in DOMAIN a :
                 Filled(e, n).stacks[a[i].key]
                    = a[i].copies + Clamp(n - RoomTo(e, a, i), 0, Room(e)[a[i].key])
<1> DEFINE D == DOMAIN e.stacks
           F(k) == e.stacks[k] + Clamp(n - RoomBefore(e, k), 0, Room(e)[k])
           g == Filled(e, n)
<1>1. IsEntry(e) /\ e.item = "item" /\ n \in Int
  BY DEF Shows
<1>2. IsEntry(g) /\ g.item = "item" /\ g.limit = e.limit /\ g.gen = e.gen /\ DOMAIN g.stacks = D
  BY <1>1, FilledContinues
<1>3. g.stacks = [k \in D |-> F(k)]
  <2>1. e = [item |-> e.item, limit |-> e.limit, gen |-> e.gen, stacks |-> e.stacks]
    BY <1>1 DEF IsEntry
  <2>2. g = [e EXCEPT !.stacks = [k \in D |-> F(k)]]
    BY DEF Filled
  <2> HIDE DEF F, D, g
  <2> QED
    BY <2>1, <2>2
<1> HIDE DEF F, D, g
<1>4. ASSUME NEW i \in DOMAIN a
      PROVE  g.stacks[a[i].key] = a[i].copies + Clamp(n - RoomTo(e, a, i), 0, Room(e)[a[i].key])
  <2> DEFINE k == a[i].key
  <2>1. k \in D /\ e.stacks[k] = a[i].copies
    BY DEF Shows, D
  <2>2. RoomBefore(e, k) = RoomTo(e, a, i)
    BY RoomSteps
  <2> HIDE DEF k
  <2>3. g.stacks[k] = F(k)
    BY <1>3, <2>1
  <2>4. F(k) = a[i].copies + Clamp(n - RoomTo(e, a, i), 0, Room(e)[k])
    BY <2>1, <2>2 DEF F
  <2> QED
    BY <2>3, <2>4 DEF k
<1> QED
  BY <1>2, <1>4 DEF g, D

\* The stacks before the i-th filled with n copies, the others as they were.
Poured(e, a0, n, i, a) ==
    /\ IsArray(a, e.gen) /\ Len(a) = Len(a0)
    /\ \A j \in DOMAIN a0 :
          /\ a[j].key = a0[j].key
          /\ a[j].copies = IF j < i THEN Filled(e, n).stacks[a0[j].key] ELSE a0[j].copies

\* So the loop fills one stack more, and counts down what is left of n; when
\* nothing is, what it leaves is Filled.
LEMMA OneMorePoured ==
    ASSUME NEW a0, NEW e, Shows(a0, e), NEW n \in Nat \ {0}, NEW i \in DOMAIN a0,
           NEW a, Poured(e, a0, n, i, a), n - RoomTo(e, a0, i) > 0, NEW space,
           space = IF a[i].copies < e.limit THEN e.limit - a[i].copies ELSE 0
    PROVE  LET left   == n - RoomTo(e, a0, i)
               adding == Lesser(left, space)
               b      == [a EXCEPT ![i].copies = a[i].copies + adding]
           IN  /\ Poured(e, a0, n, i + 1, b)
               /\ left - adding > 0 => left - adding = n - RoomTo(e, a0, i + 1)
               /\ left - adding <= 0 => /\ EntryOf(e.limit, b, e.gen) = Filled(e, n)
                                        /\ n - SumOver(Room(e), DOMAIN e.stacks) <= 0
<1> DEFINE left == n - RoomTo(e, a0, i)
           adding == Lesser(left, space)
           c == a[i].copies + adding
           b == [a EXCEPT ![i].copies = c]
           g == Filled(e, n)
           l == Len(a0)
           T(j) == RoomTo(e, a0, j)
           R == Room(e)
           total == SumOver(R, DOMAIN e.stacks)
<1>1. /\ IsEntry(g) /\ g.item = "item" /\ g.limit = e.limit /\ g.gen = e.gen
      /\ DOMAIN g.stacks = DOMAIN e.stacks
      /\ \A j \in DOMAIN a0 : g.stacks[a0[j].key] = a0[j].copies + Clamp(n - T(j), 0, R[a0[j].key])
  BY FilledCopies
<1>2. /\ IsEntry(e) /\ IsArray(a0, e.gen) /\ DOMAIN e.stacks = KeysOf(a0, DOMAIN a0)
      /\ e.limit \in Limits
  BY DEF Shows, IsEntry
<1>3. /\ l \in Nat /\ DOMAIN a0 = 1..l
      /\ \A j \in DOMAIN a0 : a0[j].key \in Int /\ a0[j].copies \in Int
  BY <1>2, RowsOfArray
<1>4. /\ IsArray(a, e.gen) /\ Len(a) = l
      /\ \A j \in DOMAIN a0 : /\ a[j].key = a0[j].key
                              /\ a[j].copies = IF j < i THEN g.stacks[a0[j].key] ELSE a0[j].copies
  BY DEF Poured
<1>5. DOMAIN a = 1..l /\ \A j \in DOMAIN a : a[j].copies \in Int
  BY <1>4, RowsOfArray
<1>6. /\ \A j \in 1..(l + 1) : T(j) \in Nat
      /\ \A j, m \in 1..(l + 1) : j <= m => T(j) <= T(m)
      /\ T(l + 1) = total
      /\ \A j \in DOMAIN a0 :
            /\ R[a0[j].key] \in Nat
            /\ R[a0[j].key] = IF a0[j].copies < e.limit THEN e.limit - a0[j].copies ELSE 0
            /\ T(j + 1) = T(j) + R[a0[j].key]
  BY RoomSteps
<1> HIDE DEF g, l, T, R, total
<1>7. i \in 1..(l + 1) /\ i + 1 \in 1..(l + 1) /\ l + 1 \in 1..(l + 1) /\ i \in DOMAIN a /\ ~(i < i)
  BY <1>3, <1>5
<1>8. a[i].copies = a0[i].copies /\ a0[i].copies \in Int
  BY <1>3, <1>4, <1>7
<1>9. space = R[a0[i].key] /\ space \in Nat
  BY <1>6, <1>8
<1>10. left = n - T(i) /\ left > 0 /\ T(i) \in Nat /\ T(i + 1) = T(i) + space /\ T(i + 1) \in Nat
  BY <1>6, <1>7, <1>9 DEF T
<1> HIDE DEF left
<1>11. /\ left \in Int /\ adding \in Int /\ adding = Clamp(n - T(i), 0, space)
       /\ left - adding > 0 => left - adding = n - T(i + 1)
       /\ left - adding <= 0 => T(i + 1) >= n
  BY <1>9, <1>10 DEF Lesser, Clamp
<1> HIDE DEF adding
<1>12. c \in Int /\ c = g.stacks[a0[i].key]
  BY <1>1, <1>8, <1>9, <1>11
<1>13. /\ IsArray(b, e.gen) /\ Len(b) = l /\ DOMAIN b = 1..l
       /\ b[i].copies = c
       /\ \A j \in DOMAIN a : b[j].key = a[j].key /\ (j # i => b[j] = a[j])
  <2>1. /\ IsArray(b, e.gen) /\ Len(b) = Len(a) /\ DOMAIN b = DOMAIN a
        /\ b[i].copies = c
        /\ \A j \in DOMAIN a : b[j].key = a[j].key /\ (j # i => b[j] = a[j])
    <3>1. IsArray(a, e.gen) /\ i \in DOMAIN a /\ c \in Int
      BY <1>4, <1>7, <1>12
    <3> HIDE DEF c
    <3> QED
      BY ONLY <3>1, ArrayChanges
  <2> QED
    BY <1>4, <1>5, <2>1
<1> HIDE DEF b, c
<1>14. \A j \in DOMAIN a0 :
          /\ b[j].key = a0[j].key
          /\ b[j].copies = IF j < i + 1 THEN g.stacks[a0[j].key] ELSE a0[j].copies
  <2> SUFFICES ASSUME NEW j \in DOMAIN a0
               PROVE  /\ b[j].key = a0[j].key
                      /\ b[j].copies = IF j < i + 1 THEN g.stacks[a0[j].key] ELSE a0[j].copies
    OBVIOUS
  <2>1. j \in DOMAIN a /\ b[j].key = a0[j].key
    BY <1>3, <1>4, <1>5, <1>13
  <2>2. CASE j = i
    <3>1. j < i + 1
      BY <1>3, <2>2
    <3> QED
      BY <1>12, <1>13, <2>1, <2>2, <3>1
  <2>3. CASE j # i
    <3>1. j < i + 1 <=> j < i
      BY <1>3, <2>3
    <3> QED
      BY <1>4, <1>13, <2>1, <2>3, <3>1
  <2> QED
    BY <2>1, <2>2, <2>3
<1>15. Poured(e, a0, n, i + 1, b)
  BY <1>13, <1>14 DEF Poured, l, g
<1>16. ASSUME left - adding <= 0
       PROVE  EntryOf(e.limit, b, e.gen) = g /\ n - total <= 0
  <2>1. T(i + 1) >= n
    BY <1>11, <1>16
  <2>2. n - total <= 0
    <3>1. T(i + 1) <= total
      BY <1>3, <1>6, <1>7
    <3>2. total \in Nat
      BY <1>6, <1>7
    <3> QED
      BY <1>10, <2>1, <3>1, <3>2
  <2>3. ASSUME NEW j \in DOMAIN a0 PROVE g.stacks[b[j].key] = b[j].copies
    <3>1. CASE j < i + 1
      BY <1>14, <3>1
    <3>2. CASE ~(j < i + 1)
      <4>1. T(i + 1) <= T(j) /\ T(j) \in Nat
        <5>1. j \in 1..(l + 1) /\ i + 1 <= j
          BY <1>3, <3>2
        <5> QED
          BY <1>6, <1>7, <5>1
      <4>2. R[a0[j].key] \in Nat
        BY <1>6
      <4>3. Clamp(n - T(j), 0, R[a0[j].key]) = 0
        BY <1>10, <2>1, <4>1, <4>2 DEF Clamp
      <4>4. a0[j].copies \in Int
        BY <1>3
      <4> QED
        BY <1>1, <1>14, <3>2, <4>3, <4>4
    <3> QED
      BY <3>1, <3>2
  <2>4. KeysOf(b, DOMAIN b) = KeysOf(a0, DOMAIN a0)
    BY <1>3, <1>13, <1>14, SMTT(30) DEF KeysOf
  <2>5. \A j \in DOMAIN b : g.stacks[b[j].key] = b[j].copies
    BY <1>3, <1>13, <2>3
  <2>6. DOMAIN g.stacks = KeysOf(b, DOMAIN b) /\ IsArray(b, e.gen)
    BY <1>1, <1>2, <1>13, <2>4
  <2>7. EntryOf(e.limit, b, e.gen) = g
    BY ONLY <1>1, <1>2, <2>5, <2>6, ArrayIsEntry
  <2> QED
    BY <2>2, <2>7
<1>17. left - adding > 0 => left - adding = n - RoomTo(e, a0, i + 1)
  BY <1>11 DEF T
<1> QED
  BY <1>15, <1>16, <1>17 DEF b, c, adding, left, g, total, R

\* When the loop has gone through all stacks, stacks can be made after them.
LEMMA AllPoured ==
    ASSUME NEW a0, NEW e, Shows(a0, e), NEW n \in Nat \ {0}, NEW f,
           NEW a, Poured(e, a0, n, Len(a0) + 1, a)
    PROVE  /\ Made(Filled(e, n).stacks, a0, e.gen, f, a, e.gen)
           /\ Len(a) = Len(a0)
<1> DEFINE l == Len(a0)
<1>1. IsArray(a0, e.gen) /\ e.gen \in Int
  BY DEF Shows, IsEntry
<1>2. l \in Nat /\ DOMAIN a0 = 1..l
  BY <1>1, RowsOfArray
<1>3. IsArray(a, e.gen) /\ Len(a) = l
  BY DEF Poured
<1>4. DOMAIN a = 1..l
  BY <1>2, <1>3, RowsOfArray
<1>5. \A i \in DOMAIN a0 : a[i].key = a0[i].key /\ a[i].copies = Filled(e, n).stacks[a0[i].key]
  <2>1. \A i \in DOMAIN a0 : i < Len(a0) + 1
    BY <1>2
  <2> QED
    BY <2>1 DEF Poured
<1>6. \A i \in DOMAIN a : ~(i > l)
  BY <1>2, <1>4
<1>7. Len(a) >= l /\ e.gen = e.gen + (Len(a) - l)
  BY <1>1, <1>2, <1>3
<1> QED
  BY <1>3, <1>5, <1>6, <1>7 DEF Made, l

-----------------------------------------------------------------------------
(* The loop that takes from the tail.                                       *)

\* The copies in the i-th stack and those after it.
TailFrom(e, a, i) == SumOver(e.stacks, KeysOf(a, i..Len(a)))

\* They add up as the loop goes through the stacks from the last.
LEMMA TailSteps ==
    ASSUME NEW a, NEW e, Shows(a, e)
    PROVE  /\ \A i \in 1..(Len(a) + 1) : TailFrom(e, a, i) \in Int
           /\ TailFrom(e, a, Len(a) + 1) = 0
           /\ \A i \in DOMAIN a : /\ FromTail(e, a[i].key) = TailFrom(e, a, i)
                                  /\ TailFrom(e, a, i) = TailFrom(e, a, i + 1) + a[i].copies
<1> DEFINE D == DOMAIN e.stacks
           l == Len(a)
           K(i) == KeysOf(a, i..l)
<1>1. /\ l \in Nat /\ DOMAIN a = 1..l /\ IsArray(a, e.gen)
      /\ \A i \in DOMAIN a : a[i].key \in Int /\ a[i].copies \in Int
  BY RowsOfArray DEF Shows
<1>2. D = KeysOf(a, DOMAIN a) /\ IsFiniteSet(D) /\ \A k \in D : e.stacks[k] \in Int
  BY StacksFinite DEF Shows, IsEntry
<1>3. \A i \in DOMAIN a : a[i].key \in D /\ e.stacks[a[i].key] = a[i].copies
  BY DEF Shows
<1>4. \A i \in 1..(l + 1) : TailFrom(e, a, i) = SumOver(e.stacks, K(i))
  BY DEF TailFrom
<1> HIDE DEF D
<1>5. \A i \in 1..(l + 1) : K(i) \in SUBSET D
  BY <1>1, <1>2 DEF KeysOf
<1>6. K(l + 1) = {}
  <2>1. (l + 1)..l = {}
    BY <1>1
  <2> QED
    BY <2>1 DEF KeysOf
<1>7. \A i \in DOMAIN a : /\ {k \in D : k >= a[i].key} = K(i)
                          /\ K(i) = K(i + 1) \cup {a[i].key} /\ a[i].key \notin K(i + 1)
  BY <1>1, <1>2, KeysAround
<1> HIDE DEF K
<1>8. \A i \in 1..(l + 1) : IsFiniteSet(K(i)) /\ \A k \in K(i) : e.stacks[k] \in Int
  BY <1>2, <1>5, FS_Subset
<1>9. \A i \in 1..(l + 1) : TailFrom(e, a, i) \in Int
  BY <1>4, <1>8, SumOverInt
<1>10. TailFrom(e, a, l + 1) = 0
  <2>1. l + 1 \in 1..(l + 1)
    BY <1>1
  <2> QED
    BY <1>4, <1>6, <2>1, SumOverNone
<1>11. ASSUME NEW i \in DOMAIN a
       PROVE  /\ FromTail(e, a[i].key) = TailFrom(e, a, i)
              /\ TailFrom(e, a, i) = TailFrom(e, a, i + 1) + a[i].copies
  <2> DEFINE x == a[i].key
  <2>1. i \in 1..(l + 1) /\ i + 1 \in 1..(l + 1)
    BY <1>1
  <2>2. x \in D /\ e.stacks[x] = a[i].copies /\ e.stacks[x] \in Int
    BY <1>2, <1>3
  <2>3. {k \in D : k >= x} = K(i) /\ K(i) = K(i + 1) \cup {x} /\ x \notin K(i + 1)
    BY <1>7
  <2>4. FromTail(e, x) = SumOver(e.stacks, {k \in D : k >= x})
    BY DEF FromTail, D
  <2> HIDE DEF x
  <2>5. SumOver(e.stacks, K(i + 1) \cup {x}) = SumOver(e.stacks, K(i + 1)) + e.stacks[x]
    <3>1. IsFiniteSet(K(i + 1)) /\ \A k \in K(i + 1) \cup {x} : e.stacks[k] \in Int
      BY <1>8, <2>1, <2>2
    <3> QED
      BY ONLY <2>3, <3>1, SumOverMore
  <2>6. TailFrom(e, a, i) = SumOver(e.stacks, K(i)) /\ TailFrom(e, a, i + 1) = SumOver(e.stacks, K(i + 1))
    BY <1>4, <2>1
  <2>7. FromTail(e, x) = TailFrom(e, a, i) /\ TailFrom(e, a, i) = TailFrom(e, a, i + 1) + a[i].copies
    BY <2>2, <2>3, <2>4, <2>5, <2>6
  <2> QED
    BY <2>7 DEF x
<1> QED
  BY <1>9, <1>10, <1>11 DEF l

\* Where the loop stops in some stack, that stack and those after it are the
\* ones a removal of n reaches, and only that one may be left in part.
LEMMA ReachesSome ==
    ASSUME NEW a, NEW e, Shows(a, e), NEW n \in Nat \ {0}, NEW i \in DOMAIN a,
           TailFrom(e, a, i) >= n, \A j \in DOMAIN a : j > i => TailFrom(e, a, j) < n
    PROVE  /\ ReachedFromTail(e, n) = KeysOf(a, i..Len(a))
           /\ \A j \in DOMAIN a : a[j].key \in PartlyRemoved(e, n) <=> j = i /\ TailFrom(e, a, i) > n
           /\ \A j \in DOMAIN a : a[j].key \in ReachedFromTail(e, n) <=> j >= i
<1> DEFINE D == DOMAIN e.stacks
           l == Len(a)
           T(j) == TailFrom(e, a, j)
<1>1. IsArray(a, e.gen) /\ D = KeysOf(a, DOMAIN a)
  BY DEF Shows
<1>2. /\ l \in Nat /\ DOMAIN a = 1..l
      /\ \A j \in DOMAIN a : a[j].key \in Int
      /\ \A j, m \in DOMAIN a : (a[j].key = a[m].key => j = m) /\ (a[j].key < a[m].key <=> j < m)
  BY <1>1, RowsOfArray
<1>3. \A j \in DOMAIN a : FromTail(e, a[j].key) = T(j) /\ T(j) \in Int
  <2>1. \A j \in DOMAIN a : j \in 1..(Len(a) + 1)
    BY <1>2
  <2> QED
    BY <2>1, TailSteps
<1> HIDE DEF D, l, T
<1>4. T(i) >= n /\ \A j \in DOMAIN a : j > i => T(j) < n
  BY DEF T
<1>5. \A k \in D : \E j \in DOMAIN a : k = a[j].key
  BY <1>1 DEF KeysOf
<1>6. \A j \in DOMAIN a : a[j].key \in D
  BY <1>1 DEF KeysOf
<1>7. ASSUME NEW j \in DOMAIN a PROVE a[j].key \in ReachedFromTail(e, n) <=> j >= i
  <2>1. ASSUME j >= i PROVE \A k \in D : k > a[j].key => FromTail(e, k) < n
    <3> SUFFICES ASSUME NEW k \in D, k > a[j].key PROVE FromTail(e, k) < n
      OBVIOUS
    <3>1. PICK m \in DOMAIN a : k = a[m].key
      BY <1>5
    <3>2. j < m
      BY <1>2, <3>1
    <3>3. m > i
      BY <1>2, <2>1, <3>2
    <3> QED
      BY <1>3, <1>4, <3>1, <3>3
  <2>2. ASSUME ~(j >= i) PROVE \E k \in D : k > a[j].key /\ ~(FromTail(e, k) < n)
    <3>1. j < i
      BY <1>2, <2>2
    <3>2. a[i].key > a[j].key
      BY <1>2, <3>1
    <3>3. ~(FromTail(e, a[i].key) < n)
      BY <1>3, <1>4
    <3> QED
      BY <1>6, <3>2, <3>3
  <2> QED
    BY <1>6, <2>1, <2>2 DEF ReachedFromTail, D
<1>8. ReachedFromTail(e, n) = KeysOf(a, i..l)
  <2>1. ReachedFromTail(e, n) \subseteq D
    BY DEF ReachedFromTail, D
  <2>2. \A j \in DOMAIN a : j >= i <=> j \in i..l
    BY <1>2
  <2>3. i..l \subseteq DOMAIN a
    BY <1>2
  <2>4. ASSUME NEW k \in ReachedFromTail(e, n) PROVE k \in KeysOf(a, i..l)
    <3>1. PICK j \in DOMAIN a : k = a[j].key
      BY <1>5, <2>1
    <3>2. j \in i..l
      BY <1>7, <2>2, <3>1
    <3> QED
      BY <3>1, <3>2 DEF KeysOf
  <2>5. ASSUME NEW k \in KeysOf(a, i..l) PROVE k \in ReachedFromTail(e, n)
    <3>1. PICK j \in i..l : k = a[j].key
      BY DEF KeysOf
    <3>2. j \in DOMAIN a /\ j >= i
      BY <2>2, <2>3
    <3> QED
      BY <1>7, <3>1, <3>2
  <2> QED
    BY <2>4, <2>5
<1>9. ASSUME NEW j \in DOMAIN a PROVE a[j].key \in PartlyRemoved(e, n) <=> j = i /\ T(i) > n
  <2>1. a[j].key \in PartlyRemoved(e, n) <=> j >= i /\ T(j) > n
    BY <1>3, <1>7 DEF PartlyRemoved
  <2>2. j > i => ~(T(j) > n)
    BY <1>3, <1>4
  <2> QED
    BY <1>2, <2>1, <2>2
<1> QED
  BY <1>7, <1>8, <1>9 DEF l, T

\* Where it goes through all of them, they are all reached and none is left.
LEMMA ReachesAll ==
    ASSUME NEW a, NEW e, Shows(a, e), NEW n \in Nat \ {0},
           \A j \in DOMAIN a : TailFrom(e, a, j) < n
    PROVE  /\ ReachedFromTail(e, n) = KeysOf(a, DOMAIN a)
           /\ PartlyRemoved(e, n) = {}
<1> DEFINE D == DOMAIN e.stacks
<1>1. IsArray(a, e.gen) /\ D = KeysOf(a, DOMAIN a)
  BY DEF Shows
<1>2. \A j \in DOMAIN a : FromTail(e, a[j].key) < n /\ FromTail(e, a[j].key) \in Int
  <2>1. DOMAIN a = 1..Len(a) /\ Len(a) \in Nat
    BY <1>1, RowsOfArray
  <2>2. \A j \in DOMAIN a : j \in 1..(Len(a) + 1)
    BY <2>1
  <2> QED
    BY <2>2, TailSteps
<1>3. \A k \in D : FromTail(e, k) < n /\ FromTail(e, k) \in Int
  <2> SUFFICES ASSUME NEW k \in D PROVE FromTail(e, k) < n /\ FromTail(e, k) \in Int
    OBVIOUS
  <2>1. PICK j \in DOMAIN a : k = a[j].key
    BY <1>1 DEF KeysOf
  <2> QED
    BY <1>2, <2>1
<1>4. ReachedFromTail(e, n) = D
  BY <1>3 DEF ReachedFromTail
<1>5. \A k \in D : ~(FromTail(e, k) > n)
  BY <1>3
<1> HIDE DEF D
<1>6. PartlyRemoved(e, n) = {}
  BY <1>4, <1>5 DEF PartlyRemoved
<1> QED
  BY <1>1, <1>4, <1>6

\* The array without the stacks that the removal of n copies empties, and with
\* fewer copies in the one that it reaches without emptying it.
Without(b, e, a0, n) ==
    /\ IsArray(b, e.gen) /\ Len(b) <= Len(a0)
    /\ \A j \in DOMAIN b :
          /\ b[j].key = a0[j].key
          /\ b[j].copies = IF a0[j].key \in PartlyRemoved(e, n) THEN FromTail(e, a0[j].key) - n
                           ELSE a0[j].copies
    /\ \A j \in DOMAIN a0 :
          j <= Len(b) <=> a0[j].key \notin ReachedFromTail(e, n) \ PartlyRemoved(e, n)

\* The entry the loop leaves is the one without what the removal reaches.
LEMMA TakenAway ==
    ASSUME NEW a0, NEW e, Shows(a0, e), NEW n \in Nat \ {0}, NEW b, Without(b, e, a0, n)
    PROVE  EntryOf(e.limit, b, e.gen) = RemoveFromAnyStack(e, n)
<1> DEFINE D == DOMAIN e.stacks
           part == PartlyRemoved(e, n)
           gone == ReachedFromTail(e, n) \ part
           C(k) == IF k \in part THEN FromTail(e, k) - n ELSE e.stacks[k]
           f == RemoveFromAnyStack(e, n)
<1>0. /\ IsArray(b, e.gen) /\ Len(b) <= Len(a0)
      /\ \A j \in DOMAIN b :
            /\ b[j].key = a0[j].key
            /\ b[j].copies = IF a0[j].key \in part THEN FromTail(e, a0[j].key) - n ELSE a0[j].copies
      /\ \A j \in DOMAIN a0 : j <= Len(b) <=> a0[j].key \notin gone
  BY DEF Without
<1>1. IsEntry(e) /\ e.item = "item" /\ IsArray(a0, e.gen) /\ D = KeysOf(a0, DOMAIN a0) /\ e.limit \in Limits
  BY DEF Shows, IsEntry
<1>2. IsEntry(f) /\ f.item = "item" /\ f.limit = e.limit /\ f.gen = e.gen
  BY <1>1, RemoveFromAnyStackContinues DEF Continues
<1>3. f.stacks = [k \in D \ gone |-> C(k)]
  <2>1. e = [item |-> e.item, limit |-> e.limit, gen |-> e.gen, stacks |-> e.stacks]
    BY <1>1 DEF IsEntry
  <2>2. f = [e EXCEPT !.stacks = [k \in D \ gone |-> C(k)]]
    BY DEF RemoveFromAnyStack
  <2> HIDE DEF C, D, gone, f
  <2> QED
    BY <2>1, <2>2
<1> HIDE DEF f, C
<1>4. /\ DOMAIN a0 = 1..Len(a0) /\ Len(a0) \in Nat
      /\ DOMAIN b = 1..Len(b) /\ Len(b) \in Nat
  BY <1>0, <1>1, RowsOfArray
<1>5. \A j \in DOMAIN b : j \in DOMAIN a0 /\ j <= Len(b)
  BY <1>0, <1>4
<1>6. \A j \in DOMAIN a0 : j <= Len(b) => j \in DOMAIN b
  BY <1>4
<1>7. \A j \in DOMAIN a0 : a0[j].key \in D /\ e.stacks[a0[j].key] = a0[j].copies
  BY DEF Shows
<1> HIDE DEF D
<1>8. KeysOf(b, DOMAIN b) = D \ gone
  <2>1. ASSUME NEW k \in KeysOf(b, DOMAIN b) PROVE k \in D \ gone
    <3>1. PICK j \in DOMAIN b : k = b[j].key
      BY DEF KeysOf
    <3> QED
      BY <1>0, <1>5, <1>7, <3>1
  <2>2. ASSUME NEW k \in D \ gone PROVE k \in KeysOf(b, DOMAIN b)
    <3>1. PICK j \in DOMAIN a0 : k = a0[j].key
      BY <1>1 DEF KeysOf
    <3>2. j \in DOMAIN b /\ k = b[j].key
      BY <1>0, <1>6, <3>1
    <3> QED
      BY <3>2 DEF KeysOf
  <2> QED
    BY <2>1, <2>2
<1>9. ASSUME NEW j \in DOMAIN b PROVE f.stacks[b[j].key] = b[j].copies
  <2> DEFINE k == a0[j].key
  <2>1. b[j].key = k /\ k \in D /\ e.stacks[k] = a0[j].copies
    BY <1>0, <1>5, <1>7
  <2>2. k \notin gone
    BY <1>0, <1>5
  <2>3. b[j].copies = IF k \in part THEN FromTail(e, k) - n ELSE a0[j].copies
    BY <1>0
  <2> HIDE DEF k, gone, part
  <2>4. f.stacks[k] = C(k)
    BY <1>3, <2>1, <2>2
  <2> QED
    BY <2>1, <2>3, <2>4 DEF C
<1>10. DOMAIN f.stacks = KeysOf(b, DOMAIN b) /\ IsArray(b, e.gen)
  BY <1>0, <1>3, <1>8
<1>11. \A j \in DOMAIN b : f.stacks[b[j].key] = b[j].copies
  BY <1>9
<1>12. EntryOf(e.limit, b, e.gen) = f
  BY ONLY <1>1, <1>2, <1>10, <1>11, ArrayIsEntry
<1> QED
  BY <1>12 DEF f

-----------------------------------------------------------------------------
(* What each loop has done so far: the inductive invariant.                 *)

CallTyped ==
    /\ call.loop \in Loops /\ call.limit \in Limits /\ call.amount \in Nat \ {0}
    /\ IsArray(call.stacks, call.gen)
    /\ call.loop = "construct" => call.stacks = <<>> /\ call.gen = KeyGenReset
    /\ at \in Loops \cup {"done"}

\* The copies of the stacks the constructor makes.
Cut == [j \in Nat |-> IF Unlimited THEN call.amount
                      ELSE Lesser(call.limit, call.amount - call.limit * (j - 1))]

\* Some of the stacks are made, of as much of the copies as is gone.
Constructing ==
    /\ call.loop = "construct"
    /\ Made(<<>>, <<>>, KeyGenReset, Cut, stacks, gen)
    /\ touched = (KeyGenReset + 1)..gen
    /\ IF Unlimited THEN Len(stacks) = 0 /\ amount = call.amount
       ELSE /\ Len(stacks) <= StacksNeeded(call.amount, call.limit)
            /\ amount = Left(call.amount, call.limit, Len(stacks))

\* Some of the stacks are full, of as much of the copies as is gone.
Filling ==
    /\ call.loop = "fill" /\ gen = call.gen /\ touched = {}
    /\ index \in 1..(Len(call.stacks) + 1)
    /\ Poured(Before, call.stacks, call.amount, index, stacks)
    /\ Unlimited => index = 1
    /\ amount = call.amount - RoomTo(Before, call.stacks, index)
    /\ amount > 0

\* What the new stacks are added to.
Basis == IF call.loop = "fill" THEN Filled(Before, call.amount) ELSE Before

\* Some of the new stacks are made, each of the amount that was captured.
Making ==
    /\ call.loop \in {"fill", "make"}
    /\ captured \in Nat \ {0}
    /\ captured = IF call.loop = "make" THEN call.amount
                  ELSE call.amount - SumOver(Room(Before), DOMAIN Before.stacks)
    /\ call.loop = "fill" => ~(Unlimited /\ DOMAIN Before.stacks # {})
    /\ Made(Basis.stacks, call.stacks, call.gen, [j \in Nat |-> captured], stacks, gen)
    /\ touched = (call.gen + 1)..gen
    /\ IF Unlimited THEN Len(stacks) = Len(call.stacks)
       ELSE /\ Len(stacks) - Len(call.stacks) <= StacksNeeded(captured, call.limit)
            /\ amount = Left(captured, call.limit, Len(stacks) - Len(call.stacks))

\* Some of the stacks at the tail are gone, with as much of the amount.
Taking ==
    /\ call.loop = "take" /\ gen = call.gen
    /\ index \in 0..Len(call.stacks)
    /\ stacks \in Seq(Rows) /\ Len(stacks) = index
    /\ \A j \in 1..index : stacks[j] = call.stacks[j]
    /\ amount = call.amount - TailFrom(Before, call.stacks, index + 1)
    /\ amount > 0
    /\ \A j \in DOMAIN call.stacks : j > index => TailFrom(Before, call.stacks, j) < call.amount
    /\ touched = KeysOf(call.stacks, (index + 1)..Len(call.stacks))

Progress ==
    /\ CallTyped
    /\ at = "construct" => Constructing
    /\ at = "fill" => Filling
    /\ at = "make" => Making
    /\ at = "take" => Taking
    /\ LoopsGiveClosedForms

\* The arrays the loops begin with are arrays in key order.
LEMMA KeyedIsArray ==
    ASSUME NEW a \in Arrays, NEW gap \in 0..1
    PROVE  /\ IsArray(Keyed(a, gap), KeyGenReset + (IF a = <<>> THEN 0 ELSE Len(a) + gap))
           /\ Len(Keyed(a, gap)) = Len(a)
           /\ a = <<>> => Keyed(a, gap) = <<>>
<1> DEFINE b == Keyed(a, gap)
           g == KeyGenReset + (IF a = <<>> THEN 0 ELSE Len(a) + gap)
           K(i) == KeyGenReset + i + (IF i > 1 THEN gap ELSE 0)
<1>1. PICK n \in Sizes : a \in [1..n -> Copies]
  BY DEF Arrays
<1>2. n \in Nat /\ Copies \subseteq Int
  BY LoopsAssumption
<1>3. a \in Seq(Int) /\ Len(a) = n /\ DOMAIN a = 1..n
  <2>1. a \in [1..n -> Int]
    BY <1>1, <1>2
  <2> QED
    BY <1>2, <2>1
<1>4. a = <<>> <=> n = 0
  BY <1>2, <1>3
<1>5. b = [i \in 1..n |-> [key |-> K(i), copies |-> a[i]]]
  BY <1>3 DEF Keyed, Stack
<1>6. \A i \in 1..n : K(i) \in Int /\ a[i] \in Int
  BY <1>2, <1>3 DEF KeyGenReset
<1>7. \A i \in 1..n : K(i) > KeyGenReset /\ K(i) <= g
  <2>1. g = KeyGenReset + (IF n = 0 THEN 0 ELSE n + gap)
    BY <1>3, <1>4
  <2> QED
    BY <1>2, <2>1 DEF KeyGenReset
<1>8. \A i, j \in 1..n : i < j => K(i) < K(j)
  BY <1>2 DEF KeyGenReset
<1>9. g \in Int /\ g >= KeyGenReset
  BY <1>2, <1>3 DEF KeyGenReset
<1> HIDE DEF K, b, g
<1>10. \A i \in 1..n : b[i].key = K(i) /\ b[i] \in Rows
  BY <1>5, <1>6 DEF Rows
<1>11. b \in Seq(Rows) /\ Len(b) = n /\ DOMAIN b = 1..n
  <2>1. b \in [1..n -> Rows]
    BY <1>5, <1>10
  <2> QED
    BY <1>2, <2>1
<1>12. IsArray(b, g)
  BY <1>7, <1>8, <1>9, <1>10, <1>11 DEF IsArray
<1>13. n = 0 => b = <<>>
  BY <1>11
<1> QED
  BY <1>3, <1>4, <1>11, <1>12, <1>13 DEF b, g

\* The entry the call began with.
LEMMA BeforeShows ==
    ASSUME CallTyped
    PROVE  /\ Shows(call.stacks, Before)
           /\ Before.limit = call.limit /\ Before.gen = call.gen
           /\ call.gen \in Int /\ Len(call.stacks) \in Nat
           /\ DOMAIN call.stacks = 1..Len(call.stacks)
<1>1. IsArray(call.stacks, call.gen) /\ call.limit \in Limits
  BY DEF CallTyped
<1>2. Before = EntryOf(call.limit, call.stacks, call.gen)
  BY DEF Before, AsEntry, EntryOf
<1>3. Shows(call.stacks, Before) /\ Before.limit = call.limit /\ Before.gen = call.gen
  BY <1>1, <1>2, EntryOfArray DEF Shows
<1>4. call.gen \in Int
  BY <1>1 DEF IsArray
<1>5. Len(call.stacks) \in Nat /\ DOMAIN call.stacks = 1..Len(call.stacks)
  BY <1>1, RowsOfArray
<1> QED
  BY <1>3, <1>4, <1>5

\* An array of which nothing is made yet.
LEMMA NoneMade ==
    ASSUME NEW a, NEW g, IsArray(a, g), NEW stack, NEW f,
           \A i \in DOMAIN a : stack[a[i].key] = a[i].copies
    PROVE  Made(stack, a, g, f, a, g)
<1>1. DOMAIN a = 1..Len(a) /\ Len(a) \in Nat /\ g \in Int
  BY RowsOfArray DEF IsArray
<1>2. \A i \in DOMAIN a : ~(i > Len(a))
  BY <1>1
<1>3. Len(a) >= Len(a) /\ g = g + (Len(a) - Len(a))
  BY <1>1
<1> QED
  BY <1>2, <1>3 DEF Made

\* Calls begin with nothing done.
LEMMA ProgressBegins == Init => Progress
<1> SUFFICES ASSUME Init PROVE Progress
  OBVIOUS
<1>1. PICK loop \in Loops, limit \in SomeLimits, n \in Requests, a \in Arrays, gap \in 0..1 :
         /\ loop = "construct" => a = <<>>
         /\ stacks = Keyed(a, gap)
         /\ gen = KeyGenReset + (IF a = <<>> THEN 0 ELSE Len(a) + gap)
         /\ call = [loop |-> loop, limit |-> limit, amount |-> n,
                    stacks |-> stacks, gen |-> gen]
         /\ amount = n
         /\ captured = n
         /\ index = (IF loop = "take" THEN Len(a) ELSE 1)
         /\ at = loop
  BY DEF Init
<1>2. /\ call.loop = loop /\ call.limit = limit /\ call.amount = n
      /\ call.stacks = stacks /\ call.gen = gen /\ touched = {}
  BY <1>1 DEF Init
<1>3. n \in Nat \ {0} /\ limit \in Limits
  BY LoopsAssumption
<1>4. IsArray(stacks, gen) /\ Len(stacks) = Len(a) /\ (loop = "construct" => stacks = <<>>)
  BY <1>1, KeyedIsArray
<1>5. loop = "construct" => gen = KeyGenReset
  BY <1>1 DEF KeyGenReset
<1>6. CallTyped
  BY <1>1, <1>2, <1>3, <1>4, <1>5 DEF CallTyped
<1>7. /\ Shows(stacks, Before)
      /\ Before.limit = limit /\ Before.gen = gen
      /\ gen \in Int /\ Len(stacks) \in Nat
      /\ DOMAIN stacks = 1..Len(stacks)
  BY <1>2, <1>6, BeforeShows
<1>8. /\ \A i \in DOMAIN stacks : Before.stacks[stacks[i].key] = stacks[i].copies
      /\ stacks \in Seq(Rows)
  BY <1>4, <1>7 DEF Shows, IsArray
<1>9. (gen + 1)..gen = {}
  BY <1>7
<1>10. limit # UnlimitedStack => limit \in Nat \ {0}
  BY <1>3 DEF Limits
<1>11. limit # UnlimitedStack => 0 <= StacksNeeded(n, limit) /\ Left(n, limit, 0) = n
  <2> HAVE limit # UnlimitedStack
  <2>1. StacksNeeded(n, limit) \in Nat
    BY <1>3, StacksNeededNat
  <2> QED
    BY <1>3, <1>10, <2>1, LeftSteps
<1>12. ASSUME at = "construct" PROVE Constructing
  <2>1. loop = "construct" /\ stacks = <<>> /\ gen = KeyGenReset
    BY <1>1, <1>4, <1>5, <1>12
  <2>2. IsArray(<<>>, KeyGenReset) /\ Len(stacks) = 0
    BY <1>4, <2>1
  <2>3. Made(<<>>, <<>>, KeyGenReset, Cut, <<>>, KeyGenReset)
    BY <2>2, NoneMade
  <2>4. touched = (KeyGenReset + 1)..gen
    BY <1>2, <1>9, <2>1
  <2>5. IF Unlimited THEN Len(stacks) = 0 /\ amount = call.amount
        ELSE /\ Len(stacks) <= StacksNeeded(call.amount, call.limit)
             /\ amount = Left(call.amount, call.limit, Len(stacks))
    BY <1>1, <1>2, <1>11, <2>2 DEF Unlimited
  <2> QED
    BY <1>2, <2>1, <2>3, <2>4, <2>5 DEF Constructing
<1>13. ASSUME at = "fill" PROVE Filling
  <2>1. loop = "fill" /\ index = 1
    BY <1>1, <1>13
  <2>2. \A j \in DOMAIN stacks : ~(j < 1)
    BY <1>7
  <2>3. Poured(Before, stacks, n, 1, stacks)
    BY <1>4, <1>7, <2>2 DEF Poured
  <2>4. RoomTo(Before, stacks, 1) = 0
    BY <1>7, RoomSteps
  <2>5. amount = n - RoomTo(Before, stacks, 1) /\ amount > 0 /\ index \in 1..(Len(stacks) + 1)
    BY <1>1, <1>3, <1>7, <2>1, <2>4
  <2> QED
    BY <1>2, <2>1, <2>3, <2>5 DEF Filling
<1>14. ASSUME at = "make" PROVE Making
  <2>1. loop = "make" /\ captured = n /\ Basis = Before
    BY <1>1, <1>2, <1>14 DEF Basis
  <2>2. Made(Before.stacks, stacks, gen, [j \in Nat |-> captured], stacks, gen)
    BY <1>4, <1>8, NoneMade
  <2>3. Len(stacks) - Len(stacks) = 0
    BY <1>7
  <2>4. IF Unlimited THEN Len(stacks) = Len(call.stacks)
        ELSE /\ Len(stacks) - Len(call.stacks) <= StacksNeeded(captured, call.limit)
             /\ amount = Left(captured, call.limit, Len(stacks) - Len(call.stacks))
    BY <1>1, <1>2, <1>11, <2>1, <2>3 DEF Unlimited
  <2> QED
    BY <1>2, <1>3, <1>9, <2>1, <2>2, <2>4 DEF Making
<1>15. ASSUME at = "take" PROVE Taking
  <2> DEFINE l == Len(stacks)
  <2>1. loop = "take" /\ index = l
    BY <1>1, <1>4, <1>15
  <2>2. TailFrom(Before, stacks, l + 1) = 0
    BY <1>7, TailSteps
  <2>3. (l + 1)..l = {} /\ \A j \in DOMAIN stacks : ~(j > l)
    BY <1>7
  <2>4. KeysOf(stacks, (l + 1)..l) = {}
    BY <2>3 DEF KeysOf
  <2>5. amount = n - TailFrom(Before, stacks, l + 1) /\ amount > 0 /\ l \in 0..l
    BY <1>1, <1>3, <1>7, <2>2
  <2> QED
    BY <1>2, <1>8, <2>1, <2>3, <2>4, <2>5 DEF Taking
<1>16. at # "done"
  BY <1>1 DEF Loops
<1> QED
  BY <1>6, <1>12, <1>13, <1>14, <1>15, <1>16 DEF Progress, LoopsGiveClosedForms

\* The stack keys that one entry has and another has not.
NewKeys(e, f) == DOMAIN f.stacks \ DOMAIN e.stacks

\* What was made is what the entry has more than the one the call began with.
LEMMA MadeIsNew ==
    ASSUME NEW stack, NEW a0, NEW g0 \in Int, IsArray(a0, g0), NEW f, NEW a, NEW g,
           Made(stack, a0, g0, f, a, g), NEW limit \in Limits
    PROVE  NewKeys(EntryOf(limit, a0, g0), EntryOf(limit, a, g)) = (g0 + 1)..g
<1>1. IsArray(a, g)
  BY DEF Made
<1>2. DOMAIN EntryOf(limit, a, g).stacks = KeysOf(a, DOMAIN a)
  BY <1>1, EntryOfArray
<1>3. DOMAIN EntryOf(limit, a0, g0).stacks = KeysOf(a0, DOMAIN a0)
  BY EntryOfArray
<1>4. KeysOf(a, DOMAIN a) \ KeysOf(a0, DOMAIN a0) = (g0 + 1)..g
  BY KeysMade
<1> QED
  BY ONLY <1>2, <1>3, <1>4 DEF NewKeys

\* The call stays as it is.
LEMMA CallStays ==
    ASSUME CallTyped, call' = call, at' \in Loops \cup {"done"}
    PROVE  /\ CallTyped' /\ Before' = Before /\ (Unlimited' <=> Unlimited)
           /\ Cut' = Cut /\ Basis' = Basis
           /\ Before = EntryOf(call.limit, call.stacks, call.gen)
           /\ After' = EntryOf(call.limit, stacks', gen')
<1>1. Before' = Before
  BY DEF Before, AsEntry
<1>2. CallTyped'
  BY DEF CallTyped
<1>3. Unlimited' <=> Unlimited
  BY DEF Unlimited
<1>4. Cut' = Cut
  BY DEF Cut, Unlimited
<1>5. Basis' = Basis
  BY <1>1 DEF Basis
<1>6. Before = EntryOf(call.limit, call.stacks, call.gen)
  BY DEF Before, AsEntry, EntryOf
<1>7. After' = EntryOf(call.limit, stacks', gen')
  BY DEF After, AsEntry, EntryOf
<1> QED
  BY <1>1, <1>2, <1>3, <1>4, <1>5, <1>6, <1>7

\* One stack more is one key more.
LEMMA OneMoreKey ==
    ASSUME NEW g0 \in Int, NEW g \in Int, g >= g0
    PROVE  ((g0 + 1)..g) \cup {g + 1} = (g0 + 1)..(g + 1)
OBVIOUS

\* The constructor cuts one stack more off the copies, or has cut them all.
LEMMA ConstructKeeps == Progress /\ ConstructStack => Progress'
<1> SUFFICES ASSUME Progress, ConstructStack PROVE Progress'
  OBVIOUS
<1> DEFINE n == call.amount
           limit == call.limit
           m == StacksNeeded(n, limit)
           l == Len(stacks)
           next == IF Unlimited THEN amount ELSE Lesser(amount, limit)
<1>1. CallTyped /\ Constructing /\ at = "construct"
  BY DEF Progress, ConstructStack
<1>2. /\ call' = call /\ at' \in Loops \cup {"done"}
  BY <1>1 DEF ConstructStack, Loops
<1>3. /\ CallTyped' /\ Before' = Before /\ (Unlimited' <=> Unlimited) /\ Cut' = Cut
      /\ Before = EntryOf(call.limit, call.stacks, call.gen)
      /\ After' = EntryOf(call.limit, stacks', gen')
  BY <1>1, <1>2, CallStays
<1>4. /\ n \in Nat \ {0} /\ limit \in Limits /\ (~Unlimited => limit \in Nat \ {0})
      /\ call.loop = "construct" /\ call.stacks = <<>> /\ call.gen = KeyGenReset
      /\ IsArray(<<>>, KeyGenReset)
  BY <1>1 DEF CallTyped, Constructing, Unlimited, Limits
<1>5. /\ Made(<<>>, <<>>, KeyGenReset, Cut, stacks, gen)
      /\ touched = (KeyGenReset + 1)..gen
      /\ Unlimited => l = 0 /\ amount = n
      /\ ~Unlimited => l <= m /\ amount = Left(n, limit, l)
  BY <1>1 DEF Constructing
<1>6. IsArray(stacks, gen) /\ gen \in Int /\ gen = KeyGenReset + l /\ gen >= KeyGenReset /\ KeyGenReset \in Int
  <2>1. IsArray(stacks, gen) /\ gen = KeyGenReset + (l - 0)
    BY <1>5 DEF Made
  <2>2. l \in Nat
    BY <2>1, RowsOfArray
  <2> QED
    BY <2>1, <2>2 DEF IsArray, KeyGenReset
<1>7. l \in Nat /\ m \in Nat
  BY <1>4, <1>6, RowsOfArray, StacksNeededNat
<1>8. ~Unlimited =>
         /\ amount \in Nat /\ (amount = 0 <=> l = m)
         /\ l # m => amount = n - limit * l /\ amount - Lesser(amount, limit) = Left(n, limit, l + 1)
  <2> HAVE ~Unlimited
  <2> QED
    BY <1>4, <1>5, <1>7, LeftSteps
<1>9. Cut[l + 1] = IF Unlimited THEN n ELSE Lesser(limit, n - limit * l)
  <2>1. l + 1 \in Nat /\ l + 1 - 1 = l
    BY <1>7
  <2> DEFINE j == l + 1
  <2>2. Cut[j] = IF Unlimited THEN n ELSE Lesser(limit, n - limit * (j - 1))
    BY <2>1 DEF Cut
  <2> QED
    BY <2>1, <2>2
<1> HIDE DEF m
\* A stack is made.
<1>10. ASSUME NewStack(next), Unlimited \/ amount > 0
       PROVE  /\ Made(<<>>, <<>>, KeyGenReset, Cut, stacks', gen')
              /\ Len(stacks') = l + 1
              /\ touched' = (KeyGenReset + 1)..gen'
  <2>1. next = Cut[l + 1]
    <3>1. CASE Unlimited
      BY <1>5, <1>9, <3>1
    <3>2. CASE ~Unlimited
      <4>1. amount = n - limit * l /\ amount \in Int /\ limit \in Int
        BY <1>4, <1>8, <1>10, <3>2
      <4>2. Lesser(amount, limit) = Lesser(limit, amount)
        BY <4>1 DEF Lesser
      <4> QED
        BY <1>9, <3>2, <4>1, <4>2
    <3> QED
      BY <3>1, <3>2
  <2>2. next \in Int
    BY <1>4, <1>5, <1>8 DEF Lesser
  <2>3. gen' = gen + 1 /\ stacks' = Append(stacks, Stack(gen + 1, next)) /\ touched' = touched \cup {gen + 1}
    BY <1>10 DEF NewStack
  <2>4. Len(stacks) - Len(<<>>) + 1 = l + 1
    BY <1>7
  <2> HIDE DEF next
  <2>5. next = Cut[Len(stacks) - Len(<<>>) + 1]
    BY <2>1, <2>4
  <2>6. /\ Made(<<>>, <<>>, KeyGenReset, Cut, Append(stacks, Stack(gen + 1, next)), gen + 1)
        /\ Len(Append(stacks, Stack(gen + 1, next))) = Len(stacks) + 1
    BY <1>4, <1>5, <1>6, <2>2, <2>5, OneMoreMade
  <2>7. touched' = (KeyGenReset + 1)..(gen + 1)
    BY <1>5, <1>6, <2>3, OneMoreKey
  <2> QED
    BY <2>3, <2>6, <2>7
\* The loop is done.
<1>11. ASSUME at' = "done", Made(<<>>, <<>>, KeyGenReset, Cut, stacks', gen'),
              Len(stacks') = StacksNeeded(n, limit), touched' = (KeyGenReset + 1)..gen'
       PROVE  Progress'
  <2>1. EntryOf(limit, stacks', gen') = NewEntry("item", limit, n)
    <3>1. Len(stacks') \in Nat
      BY <1>4, <1>11, StacksNeededNat
    <3>2. \A j \in 1..Len(stacks') : Cut[j] = IF limit = UnlimitedStack THEN n
                                              ELSE Lesser(limit, n - limit * (j - 1))
      BY <3>1 DEF Cut, Unlimited
    <3> QED
      BY <1>4, <1>11, <3>2, AllConstructed
  <2>2. NewKeys(EntryOf(limit, call.stacks, call.gen), EntryOf(limit, stacks', gen'))
          = (KeyGenReset + 1)..gen'
    <3>1. call.gen \in Int /\ IsArray(call.stacks, call.gen) /\ limit \in Limits
      BY <1>4, <1>6
    <3>2. Made(<<>>, call.stacks, call.gen, Cut, stacks', gen')
      BY <1>4, <1>11
    <3>3. NewKeys(EntryOf(limit, call.stacks, call.gen), EntryOf(limit, stacks', gen')) = (call.gen + 1)..gen'
      BY ONLY <3>1, <3>2, MadeIsNew
    <3> QED
      BY <1>4, <3>3
  <2>3. After' = NewEntry("item", limit, n) /\ touched' = DOMAIN After'.stacks \ DOMAIN Before'.stacks
    BY <1>3, <1>4, <1>11, <2>1, <2>2 DEF NewKeys
  <2>4. call'.loop = "construct" /\ call'.limit = limit /\ call'.amount = n
    BY <1>2, <1>4
  <2>5. LoopsGiveClosedForms'
    BY <2>3, <2>4 DEF LoopsGiveClosedForms
  <2> QED
    BY <1>3, <1>11, <2>5 DEF Progress
<1>12. CASE Unlimited
  <2>1. NewStack(next) /\ at' = "done"
    BY <1>1, <1>12 DEF ConstructStack
  <2>2. StacksNeeded(n, limit) = 1 /\ l + 1 = 1
    BY <1>5, <1>12 DEF StacksNeeded, Unlimited
  <2> QED
    BY <1>10, <1>11, <1>12, <2>1, <2>2
<1>13. CASE ~Unlimited /\ amount > 0
  <2>1. NewStack(next) /\ at' = "construct" /\ amount' = amount - Lesser(amount, limit)
    BY <1>1, <1>13 DEF ConstructStack
  <2>2. /\ Made(<<>>, <<>>, KeyGenReset, Cut, stacks', gen')
        /\ Len(stacks') = l + 1
        /\ touched' = (KeyGenReset + 1)..gen'
    BY <1>10, <1>13, <2>1
  <2>3. l # m /\ l <= m
    BY <1>5, <1>8, <1>13 DEF m
  <2>4. Len(stacks') <= m /\ amount' = Left(n, limit, Len(stacks'))
    BY <1>7, <1>8, <1>13, <2>1, <2>2, <2>3
  <2>5. call'.loop = "construct" /\ call'.limit = limit /\ call'.amount = n
    BY <1>2, <1>4
  <2>6. Constructing'
    BY <1>3, <1>13, <2>2, <2>4, <2>5 DEF Constructing, m
  <2> QED
    BY <1>3, <2>1, <2>6 DEF Progress, LoopsGiveClosedForms
<1>14. CASE ~Unlimited /\ ~(amount > 0)
  <2>1. at' = "done" /\ UNCHANGED <<gen, stacks, touched>>
    BY <1>1, <1>14 DEF ConstructStack
  <2>2. l = m
    BY <1>8, <1>14
  <2> QED
    BY <1>5, <1>11, <2>1, <2>2 DEF m
<1> QED
  BY <1>12, <1>13, <1>14

\* The basis of an addition has the stacks the call began with.
LEMMA BasisShows ==
    ASSUME CallTyped
    PROVE  /\ IsEntry(Basis) /\ Basis.item = "item" /\ Basis.limit = call.limit
           /\ Basis.gen = call.gen
           /\ DOMAIN Basis.stacks = KeysOf(call.stacks, DOMAIN call.stacks)
<1>1. Shows(call.stacks, Before) /\ Before.limit = call.limit /\ Before.gen = call.gen
  BY BeforeShows
<1>2. /\ IsEntry(Before) /\ Before.item = "item"
      /\ DOMAIN Before.stacks = KeysOf(call.stacks, DOMAIN call.stacks)
  BY <1>1 DEF Shows
<1>3. call.amount \in Nat \ {0}
  BY DEF CallTyped
<1> DEFINE g == Filled(Before, call.amount)
<1>4. /\ IsEntry(g) /\ g.item = "item" /\ g.limit = Before.limit /\ g.gen = Before.gen
      /\ DOMAIN g.stacks = DOMAIN Before.stacks
  BY <1>1, <1>3, FilledCopies
<1>5. Basis = g \/ Basis = Before
  BY DEF Basis
<1> HIDE DEF g
<1> QED
  BY <1>1, <1>2, <1>4, <1>5

\* AddToNewStacks' loop makes one stack more of the amount it captured, or has
\* made as many as the amount needs.
LEMMA MakeKeeps == Progress /\ MakeStack => Progress'
<1> SUFFICES ASSUME Progress, MakeStack PROVE Progress'
  OBVIOUS
<1> DEFINE n == captured
           limit == call.limit
           m == StacksNeeded(n, limit)
           a0 == call.stacks
           g0 == call.gen
           l == Len(stacks) - Len(a0)
           F == [j \in Nat |-> captured]
           B == Basis.stacks
<1>1. CallTyped /\ Making /\ at = "make"
  BY DEF Progress, MakeStack
<1>2. call' = call /\ captured' = captured /\ at' \in Loops \cup {"done"}
  BY <1>1 DEF MakeStack, Loops
<1>3. /\ CallTyped' /\ Before' = Before /\ (Unlimited' <=> Unlimited) /\ Basis' = Basis
      /\ Before = EntryOf(call.limit, call.stacks, call.gen)
      /\ After' = EntryOf(call.limit, stacks', gen')
  BY <1>1, <1>2, CallStays
<1>4. /\ n \in Nat \ {0} /\ limit \in Limits /\ (~Unlimited => limit \in Nat \ {0})
      /\ IsArray(a0, g0) /\ g0 \in Int /\ Len(a0) \in Nat
  BY <1>1, BeforeShows DEF CallTyped, Making, Unlimited, Limits
<1>5. /\ Made(B, a0, g0, F, stacks, gen)
      /\ touched = (g0 + 1)..gen
      /\ Unlimited => l = 0
      /\ ~Unlimited => l <= m /\ amount = Left(n, limit, l)
  <2>1. Unlimited => Len(stacks) = Len(a0)
    BY <1>1 DEF Making
  <2>2. /\ Made(B, a0, g0, F, stacks, gen)
        /\ touched = (g0 + 1)..gen
        /\ ~Unlimited => l <= m /\ amount = Left(n, limit, l)
    BY <1>1 DEF Making
  <2> QED
    BY <1>4, <2>1, <2>2
<1>6. IsArray(stacks, gen) /\ gen \in Int /\ gen >= g0 /\ l \in Nat /\ Len(stacks) \in Nat /\ m \in Nat
  <2>1. IsArray(stacks, gen) /\ Len(stacks) >= Len(a0) /\ gen = g0 + (Len(stacks) - Len(a0))
    BY <1>5 DEF Made
  <2>2. Len(stacks) \in Nat
    BY <2>1, RowsOfArray
  <2>3. m \in Nat
    BY <1>4, StacksNeededNat
  <2> HIDE DEF m
  <2> QED
    BY <1>4, <2>1, <2>2, <2>3
<1>7. ~Unlimited =>
         /\ amount \in Nat /\ (amount = 0 <=> l = m)
         /\ l # m => amount - Lesser(amount, limit) = Left(n, limit, l + 1)
  <2> HAVE ~Unlimited
  <2>1. n \in Nat \ {0} /\ limit \in Nat \ {0} /\ l \in Nat /\ l <= StacksNeeded(n, limit)
    BY <1>4, <1>5, <1>6
  <2>2. amount = Left(n, limit, l)
    BY <1>5
  <2> HIDE DEF l, n, limit
  <2>3. /\ Left(n, limit, l) \in Nat /\ (Left(n, limit, l) = 0 <=> l = StacksNeeded(n, limit))
        /\ l # StacksNeeded(n, limit) =>
              Left(n, limit, l) - Lesser(Left(n, limit, l), limit) = Left(n, limit, l + 1)
    BY ONLY <2>1, LeftSteps
  <2> QED
    BY <2>2, <2>3
<1> HIDE DEF B, F
\* A stack is made.
<1>8. ASSUME NewStack(n)
      PROVE  /\ Made(B, a0, g0, F, stacks', gen')
             /\ Len(stacks') - Len(a0) = l + 1
             /\ touched' = (g0 + 1)..gen'
  <2>1. F[l + 1] = n
    <3> DEFINE j == l + 1
    <3>1. j \in Nat
      BY <1>6
    <3> HIDE DEF j
    <3>2. F[j] = n
      BY <3>1 DEF F
    <3> QED
      BY <3>2 DEF j
  <2>2. gen' = gen + 1 /\ stacks' = Append(stacks, Stack(gen + 1, n)) /\ touched' = touched \cup {gen + 1}
    BY <1>8 DEF NewStack
  <2>3. /\ Made(B, a0, g0, F, Append(stacks, Stack(gen + 1, n)), gen + 1)
        /\ Len(Append(stacks, Stack(gen + 1, n))) = Len(stacks) + 1
    <3>1. n \in Int /\ n = F[Len(stacks) - Len(a0) + 1]
      BY <1>4, <2>1
    <3>2. g0 \in Int /\ IsArray(a0, g0) /\ Made(B, a0, g0, F, stacks, gen)
      BY <1>4, <1>5
    <3> HIDE DEF n, a0, g0
    <3> QED
      BY ONLY <3>1, <3>2, OneMoreMade
  <2>4. touched' = (g0 + 1)..(gen + 1)
    BY <1>4, <1>5, <1>6, <2>2, OneMoreKey
  <2>5. Len(stacks) + 1 - Len(a0) = l + 1
    BY <1>4, <1>6
  <2> QED
    BY <2>2, <2>3, <2>4, <2>5
\* The loop is done.
<1>9. ASSUME at' = "done", Made(B, a0, g0, F, stacks', gen'),
             Len(stacks') - Len(a0) = m, touched' = (g0 + 1)..gen'
      PROVE  Progress'
  <2>1. EntryOf(limit, stacks', gen') = AddToNewStacks(Basis, n)
    <3> DEFINE b == Basis
               a == stacks'
               g == gen'
    <3>1. /\ IsEntry(b) /\ b.item = "item" /\ b.limit = limit
          /\ IsArray(a0, b.gen) /\ DOMAIN b.stacks = KeysOf(a0, DOMAIN a0)
      BY <1>1, <1>4, BasisShows
    <3>2. Made(b.stacks, a0, b.gen, F, a, g) /\ n \in Nat \ {0}
      BY <1>1, <1>4, <1>9, BasisShows DEF B
    <3>3. Len(a) - Len(a0) = StacksNeeded(n, b.limit)
      BY <1>9, <3>1
    <3>4. \A j \in 1..(Len(a) - Len(a0)) : F[j] = n
      BY <1>6, <1>9 DEF F
    <3>5. Complete(b, a0, F, n, a, g)
      <4> HIDE DEF b, a, g, n, a0
      <4> QED
        BY <3>1, <3>2, <3>3, <3>4 DEF Complete
    <3> HIDE DEF b, a, g, n, a0
    <3>6. EntryOf(b.limit, a, g) = AddToNewStacks(b, n)
      BY <3>2, <3>5, AllMade
    <3> QED
      BY <3>1, <3>6 DEF b, a, g
  <2>2. NewKeys(EntryOf(limit, a0, g0), EntryOf(limit, stacks', gen')) = (g0 + 1)..gen'
    BY <1>4, <1>9, MadeIsNew
  <2>3. After' = AddToNewStacks(Basis, n) /\ touched' = DOMAIN After'.stacks \ DOMAIN Before'.stacks
    BY <1>3, <1>9, <2>1, <2>2 DEF NewKeys
  <2>4. After' = CASE call'.loop = "construct" -> NewEntry("item", call'.limit, call'.amount)
                   [] call'.loop = "fill"      -> AddToAnyStack(Before', call'.amount)
                   [] call'.loop = "make"      -> AddToNewStacks(Before', call'.amount)
                   [] call'.loop = "take"      -> RemoveFromAnyStack(Before', call'.amount)
    <3>1. CASE call.loop = "make"
      <4>1. Basis = Before /\ n = call.amount
        BY <1>1, <3>1 DEF Basis, Making
      <4> QED
        BY <1>2, <1>3, <2>3, <3>1, <4>1
    <3>2. CASE call.loop = "fill"
      <4>1. Basis = Filled(Before, call.amount)
        BY <3>2 DEF Basis
      <4>2. /\ n = call.amount - SumOver(Room(Before), DOMAIN Before.stacks)
            /\ ~(Unlimited /\ DOMAIN Before.stacks # {})
        BY <1>1, <3>2 DEF Making
      <4>3. ~(Before.limit = UnlimitedStack /\ DOMAIN Before.stacks # {})
        BY <1>1, <4>2, BeforeShows DEF Unlimited
      <4>4. n > 0
        BY <1>4
      <4>5. AddToAnyStack(Before, call.amount) = AddToNewStacks(Filled(Before, call.amount), n)
        BY <4>2, <4>3, <4>4 DEF AddToAnyStack
      <4> QED
        BY <1>2, <1>3, <2>3, <3>2, <4>1, <4>5
    <3> QED
      BY <1>1, <3>1, <3>2 DEF Making
  <2>5. call'.loop # "take"
    BY <1>1, <1>2 DEF Making
  <2>6. LoopsGiveClosedForms'
    BY <2>3, <2>4, <2>5 DEF LoopsGiveClosedForms
  <2> QED
    BY <1>3, <1>9, <2>6 DEF Progress
<1>10. CASE Unlimited
  <2>1. NewStack(n) /\ at' = "done"
    BY <1>1, <1>10 DEF MakeStack
  <2>2. m = 1 /\ l + 1 = 1
    BY <1>5, <1>10 DEF StacksNeeded, Unlimited
  <2> HIDE DEF m, l
  <2> QED
    BY <1>8, <1>9, <2>1, <2>2
<1>11. CASE ~Unlimited /\ amount > 0
  <2>1. NewStack(n) /\ at' = "make" /\ amount' = amount - Lesser(amount, limit)
    BY <1>1, <1>11 DEF MakeStack
  <2>2. /\ Made(B, a0, g0, F, stacks', gen')
        /\ Len(stacks') - Len(a0) = l + 1
        /\ touched' = (g0 + 1)..gen'
    BY <1>8, <2>1
  <2>3. l # m /\ l <= m
    BY <1>5, <1>7, <1>11
  <2>4. Len(stacks') - Len(a0) <= m /\ amount' = Left(n, limit, Len(stacks') - Len(a0))
    <3>1. l + 1 <= m
      <4> HIDE DEF l, m
      <4> QED
        BY <1>6, <2>3
    <3>2. amount' = Left(n, limit, l + 1)
      BY <1>7, <1>11, <2>1, <2>3
    <3> HIDE DEF l, m
    <3> QED
      BY <2>2, <3>1, <3>2
  <2>5. Making'
    <3>1. Made(Basis'.stacks, call'.stacks, call'.gen, [j \in Nat |-> captured'], stacks', gen')
      BY <1>2, <1>3, <2>2 DEF B, F
    <3>2. /\ call'.loop \in {"fill", "make"}
          /\ captured' \in Nat \ {0}
          /\ captured' = IF call'.loop = "make" THEN call'.amount
                         ELSE call'.amount - SumOver(Room(Before'), DOMAIN Before'.stacks)
          /\ call'.loop = "fill" => ~(Unlimited' /\ DOMAIN Before'.stacks # {})
      BY <1>1, <1>2, <1>3 DEF Making
    <3>3. touched' = (call'.gen + 1)..gen'
      BY <1>2, <2>2
    <3>4. IF Unlimited' THEN Len(stacks') = Len(call'.stacks)
          ELSE /\ Len(stacks') - Len(call'.stacks) <= StacksNeeded(captured', call'.limit)
               /\ amount' = Left(captured', call'.limit, Len(stacks') - Len(call'.stacks))
      BY <1>2, <1>3, <1>11, <2>4
    <3> QED
      BY <3>1, <3>2, <3>3, <3>4 DEF Making
  <2> QED
    BY <1>3, <2>1, <2>5 DEF Progress, LoopsGiveClosedForms
<1>12. CASE ~Unlimited /\ ~(amount > 0)
  <2>1. at' = "done" /\ UNCHANGED <<gen, stacks, touched>>
    BY <1>1, <1>12 DEF MakeStack
  <2>2. l = m
    BY <1>7, <1>12
  <2> QED
    BY <1>5, <1>9, <2>1, <2>2
<1> QED
  BY <1>10, <1>11, <1>12

\* AddToAnyStack's loop fills one stack more, or is done with the amount.
LEMMA FillKeeps == Progress /\ FillStack => Progress'
<1> SUFFICES ASSUME Progress, FillStack PROVE Progress'
  OBVIOUS
<1> DEFINE n == call.amount
           limit == call.limit
           a0 == call.stacks
           e == Before
           left == n - RoomTo(e, a0, index)
           space == IF Unlimited THEN amount
                    ELSE IF stacks[index].copies < limit THEN limit - stacks[index].copies ELSE 0
           adding == Lesser(amount, space)
           b == [stacks EXCEPT ![index].copies = stacks[index].copies + adding]
<1>1. CallTyped /\ Filling /\ at = "fill" /\ index <= Len(stacks)
  BY DEF Progress, FillStack
<1>2. /\ stacks' = b /\ amount' = amount - adding /\ index' = index + 1
      /\ call' = call /\ gen' = gen /\ touched' = touched
      /\ at' = IF amount' <= 0 THEN "done" ELSE at
  BY DEF FillStack
<1>3. at' \in Loops \cup {"done"}
  BY <1>1, <1>2 DEF Loops
<1>4. /\ CallTyped' /\ Before' = Before /\ (Unlimited' <=> Unlimited)
      /\ e = EntryOf(limit, a0, call.gen)
      /\ After' = EntryOf(limit, stacks', gen')
  BY <1>1, <1>2, <1>3, CallStays
<1>5. /\ Shows(a0, e) /\ e.limit = limit /\ e.gen = call.gen
      /\ Len(a0) \in Nat /\ DOMAIN a0 = 1..Len(a0)
      /\ n \in Nat \ {0} /\ limit \in Limits /\ limit \in Int
  BY <1>1, BeforeShows DEF CallTyped, Limits, UnlimitedStack
<1>6. /\ call.loop = "fill" /\ gen = call.gen /\ touched = {}
      /\ index \in 1..(Len(a0) + 1)
      /\ Poured(e, a0, n, index, stacks)
      /\ Unlimited => index = 1
      /\ amount = left /\ amount > 0
  BY <1>1 DEF Filling
<1>7. /\ IsArray(stacks, gen) /\ Len(stacks) = Len(a0)
      /\ \A j \in DOMAIN a0 : /\ stacks[j].key = a0[j].key
                              /\ stacks[j].copies = IF j < index THEN Filled(e, n).stacks[a0[j].key]
                                                    ELSE a0[j].copies
  BY <1>5, <1>6 DEF Poured
<1>8. index \in DOMAIN a0 /\ index \in DOMAIN stacks /\ stacks[index].copies \in Int
  BY <1>1, <1>5, <1>6, <1>7, RowsOfArray
<1>9. amount \in Int
  <2>1. RoomTo(e, a0, index) \in Nat
    BY <1>5, <1>6, RoomSteps
  <2> QED
    BY <1>5, <1>6, <2>1
<1>11. ASSUME at' = "done", After' = AddToAnyStack(e, n), DOMAIN After'.stacks = DOMAIN e.stacks
       PROVE  Progress'
  <2>1. touched' = {} /\ call'.loop = "fill" /\ call'.amount = n
    BY <1>2, <1>6
  <2>2. LoopsGiveClosedForms'
    BY <1>4, <1>11, <2>1 DEF LoopsGiveClosedForms
  <2> QED
    BY <1>4, <1>11, <2>2 DEF Progress
<1>12. CASE Unlimited
  <2> DEFINE k == a0[1].key
             c == stacks[index].copies + adding
             f == [e EXCEPT !.stacks[k] = @ + n]
  <2>1. index = 1 /\ RoomTo(e, a0, 1) = 0 /\ amount = n
    BY <1>5, <1>6, <1>12, RoomSteps
  <2>2. space = n /\ adding = n /\ amount' = 0 /\ at' = "done"
    BY <1>2, <1>5, <1>12, <2>1 DEF Lesser
  <2>3. stacks[1].copies = a0[1].copies /\ c = a0[1].copies + n /\ c \in Int
    BY <1>5, <1>7, <1>8, <2>1, <2>2
  <2>4. IsEntry(e) /\ e.item = "item" /\ k \in DOMAIN e.stacks /\ e.stacks[k] = a0[1].copies
    BY <1>5, <1>8, <2>1 DEF Shows
  <2>5. FirstStack(e) = k
    <3>1. FirstStack(e) \in DOMAIN e.stacks /\ FirstStack(e) <= k
      BY <2>4, FirstStackIsFirst
    <3>2. PICK i \in DOMAIN a0 : FirstStack(e) = a0[i].key
      BY <1>5, <3>1 DEF Shows, KeysOf
    <3>3. IsArray(a0, e.gen)
      BY <1>5 DEF Shows
    <3>4. /\ \A j \in DOMAIN a0 : a0[j].key \in Int
          /\ \A j, m \in DOMAIN a0 : a0[j].key < a0[m].key <=> j < m
      BY <3>3, RowsOfArray
    <3>5. ~(i > 1)
      BY <1>8, <2>1, <3>1, <3>2, <3>4
    <3>6. i = 1
      BY <1>5, <3>5
    <3> QED
      BY <3>2, <3>6
  <2>6. AddToAnyStack(e, n) = f
    <3>1. e.limit = UnlimitedStack /\ DOMAIN e.stacks # {}
      BY <1>5, <1>12, <2>4 DEF Unlimited
    <3> QED
      BY <2>5, <3>1 DEF AddToAnyStack
  <2>7. /\ IsArray(b, gen) /\ Len(b) = Len(stacks) /\ DOMAIN b = DOMAIN stacks
        /\ b[1].copies = c
        /\ \A j \in DOMAIN stacks : b[j].key = stacks[j].key /\ (j # 1 => b[j] = stacks[j])
    <3>1. IsArray(stacks, gen) /\ 1 \in DOMAIN stacks /\ c \in Int /\ index = 1
      BY <1>7, <1>8, <2>1, <2>3
    <3> DEFINE d == [stacks EXCEPT ![1].copies = c]
    <3>2. b = d
      BY <3>1
    <3> HIDE DEF b, c
    <3>3. /\ IsArray(d, gen) /\ Len(d) = Len(stacks) /\ DOMAIN d = DOMAIN stacks
          /\ d[1].copies = c
          /\ \A j \in DOMAIN stacks : d[j].key = stacks[j].key /\ (j # 1 => d[j] = stacks[j])
      BY ONLY <3>1, ArrayChanges
    <3> HIDE DEF d
    <3> QED
      BY <3>2, <3>3
  <2>8. /\ f.item = "item" /\ f.limit = limit /\ f.gen = call.gen
        /\ f.stacks = [e.stacks EXCEPT ![k] = c]
    BY <1>5, <2>3, <2>4 DEF IsEntry
  <2>9. IsEntry(f)
    <3>1. f = [e EXCEPT !.stacks[k] = c]
      BY <2>3, <2>4
    <3>2. IsEntry([e EXCEPT !.stacks[k] = c])
      <4> HIDE DEF c, k
      <4> QED
        BY <2>3, <2>4, CopiesChange
    <3> QED
      BY <3>1, <3>2
  <2> HIDE DEF f, b, c
  <2>10. /\ DOMAIN b = DOMAIN a0 /\ DOMAIN e.stacks = KeysOf(a0, DOMAIN a0) /\ DOMAIN stacks = DOMAIN a0
         /\ \A i \in DOMAIN a0 : b[i].key = a0[i].key
    <3>1. DOMAIN stacks = DOMAIN a0
      BY <1>5, <1>7, RowsOfArray
    <3> QED
      BY <1>5, <1>7, <2>7, <3>1 DEF Shows
  <2>11. KeysOf(b, DOMAIN b) = KeysOf(a0, DOMAIN a0)
    BY <2>10 DEF KeysOf
  <2>12. \A i \in DOMAIN b : f.stacks[b[i].key] = b[i].copies
    <3> SUFFICES ASSUME NEW i \in DOMAIN a0 PROVE f.stacks[a0[i].key] = b[i].copies
      BY <2>10
    <3>1. CASE i = 1
      BY <2>4, <2>7, <2>8, <3>1
    <3>2. CASE i # 1
      <4>1. b[i].copies = a0[i].copies
        <5>1. ~(i < index)
          BY <1>5, <2>1
        <5> QED
          BY <1>7, <2>7, <2>10, <3>2, <5>1
      <4>2. a0[i].key # k
        <5>1. IsArray(a0, e.gen)
          BY <1>5 DEF Shows
        <5> QED
          BY <1>8, <2>1, <3>2, <5>1, RowsOfArray
      <4>3. e.stacks[a0[i].key] = a0[i].copies /\ a0[i].key \in DOMAIN e.stacks
        BY <1>5 DEF Shows
      <4> HIDE DEF k
      <4> QED
        BY <2>8, <4>1, <4>2, <4>3
    <3> QED
      BY <3>1, <3>2
  <2>13. DOMAIN f.stacks = DOMAIN e.stacks
    BY <2>8
  <2>14. EntryOf(limit, b, gen) = f
    <3>1. limit \in Limits /\ f.gen = gen /\ f.limit = limit /\ f.item = "item" /\ IsArray(b, gen)
      BY <1>5, <1>6, <2>7, <2>8
    <3>2. DOMAIN f.stacks = KeysOf(b, DOMAIN b)
      BY <2>10, <2>11, <2>13
    <3> HIDE DEF limit
    <3> QED
      BY ONLY <2>9, <2>12, <3>1, <3>2, ArrayIsEntry
  <2>15. After' = AddToAnyStack(e, n) /\ DOMAIN After'.stacks = DOMAIN e.stacks
    BY <1>2, <1>4, <2>6, <2>13, <2>14
  <2> QED
    BY <1>11, <2>2, <2>15
<1>13. CASE ~Unlimited
  <2>1. /\ space = IF stacks[index].copies < e.limit THEN e.limit - stacks[index].copies ELSE 0
        /\ adding = Lesser(left, space)
    BY <1>5, <1>6, <1>13
  <2>2. /\ Poured(e, a0, n, index + 1, b)
        /\ left - adding > 0 => left - adding = n - RoomTo(e, a0, index + 1)
        /\ left - adding <= 0 => /\ EntryOf(e.limit, b, e.gen) = Filled(e, n)
                                 /\ n - SumOver(Room(e), DOMAIN e.stacks) <= 0
    <3>1. /\ Shows(a0, e) /\ n \in Nat \ {0} /\ index \in DOMAIN a0
          /\ Poured(e, a0, n, index, stacks) /\ n - RoomTo(e, a0, index) > 0
      BY <1>5, <1>6, <1>8
    <3> HIDE DEF n, a0, e, space
    <3> QED
      BY ONLY <2>1, <3>1, OneMorePoured
  <2>3. adding \in Int /\ left \in Int
    BY <1>5, <1>6, <1>8, <1>9, <2>1 DEF Lesser
  <2>4. CASE left - adding > 0
    <3>1. amount' = n - RoomTo(e, a0, index + 1) /\ amount' > 0 /\ at' = "fill"
      BY <1>1, <1>2, <1>6, <2>2, <2>3, <2>4
    <3>2. index' \in 1..(Len(a0) + 1)
      BY <1>2, <1>5, <1>8
    <3>3. Poured(Before', call'.stacks, call'.amount, index', stacks')
      <4> HIDE DEF b
      <4> QED
        BY <1>2, <1>4, <2>2
    <3>4. Filling'
      BY <1>2, <1>4, <1>6, <1>13, <3>1, <3>2, <3>3 DEF Filling
    <3> QED
      BY <1>4, <3>1, <3>4 DEF Progress, LoopsGiveClosedForms
  <2>5. CASE ~(left - adding > 0)
    <3>1. at' = "done" /\ left - adding <= 0
      BY <1>2, <1>6, <2>3, <2>5
    <3>2. EntryOf(limit, stacks', gen') = Filled(e, n) /\ n - SumOver(Room(e), DOMAIN e.stacks) <= 0
      <4> HIDE DEF b
      <4> QED
        BY <1>2, <1>5, <1>6, <2>2, <3>1
    <3>3. SumOver(Room(e), DOMAIN e.stacks) \in Nat
      <4>1. Len(a0) + 1 \in 1..(Len(a0) + 1)
        BY <1>5
      <4> QED
        BY <1>5, <4>1, RoomSteps
    <3>4. AddToAnyStack(e, n) = Filled(e, n)
      <4>1. ~(e.limit = UnlimitedStack /\ DOMAIN e.stacks # {})
        BY <1>5, <1>13 DEF Unlimited
      <4>2. ~(n - SumOver(Room(e), DOMAIN e.stacks) > 0)
        BY <1>5, <3>2, <3>3
      <4> QED
        BY <4>1, <4>2 DEF AddToAnyStack
    <3>5. DOMAIN Filled(e, n).stacks = DOMAIN e.stacks
      BY <1>5, FilledCopies
    <3> QED
      BY <1>4, <1>11, <3>1, <3>2, <3>4, <3>5
  <2> QED
    BY <2>4, <2>5
<1> QED
  BY <1>12, <1>13

\* What is left when the stacks are full goes to new ones.
LEMMA FillEndKeeps == Progress /\ FillEnds => Progress'
<1> SUFFICES ASSUME Progress, FillEnds PROVE Progress'
  OBVIOUS
<1> DEFINE n == call.amount
           limit == call.limit
           a0 == call.stacks
           e == Before
           F == [j \in Nat |-> captured']
<1>1. CallTyped /\ Filling /\ at = "fill" /\ index > Len(stacks) /\ at' = "make"
  BY DEF Progress, FillEnds
<1>2. /\ stacks' = stacks /\ amount' = amount /\ captured' = amount
      /\ call' = call /\ gen' = gen /\ touched' = touched
  BY DEF FillEnds
<1>3. at' \in Loops \cup {"done"}
  BY <1>1 DEF Loops
<1>4. /\ CallTyped' /\ Before' = Before /\ (Unlimited' <=> Unlimited) /\ Basis' = Basis
  BY <1>1, <1>2, <1>3, CallStays
<1>5. /\ Shows(a0, e) /\ e.limit = limit /\ e.gen = call.gen /\ call.gen \in Int
      /\ Len(a0) \in Nat /\ DOMAIN a0 = 1..Len(a0)
      /\ n \in Nat \ {0} /\ limit \in Limits /\ (~Unlimited => limit \in Nat \ {0})
  BY <1>1, BeforeShows DEF CallTyped, Limits, Unlimited
<1>6. /\ call.loop = "fill" /\ gen = call.gen /\ touched = {}
      /\ index \in 1..(Len(a0) + 1)
      /\ Poured(e, a0, n, index, stacks)
      /\ Unlimited => index = 1
      /\ amount = n - RoomTo(e, a0, index) /\ amount > 0
  BY <1>1 DEF Filling
<1>7. index = Len(a0) + 1
  <2>1. Len(stacks) = Len(a0)
    BY <1>6 DEF Poured
  <2> QED
    BY <1>1, <1>5, <1>6, <2>1
<1>8. Made(Filled(e, n).stacks, a0, e.gen, F, stacks, e.gen) /\ Len(stacks) = Len(a0)
  <2> HIDE DEF F, n, a0, e
  <2>1. Poured(e, a0, n, Len(a0) + 1, stacks)
    BY <1>6, <1>7
  <2> QED
    BY <1>5, <2>1, AllPoured
<1>9. RoomTo(e, a0, Len(a0) + 1) = SumOver(Room(e), DOMAIN e.stacks) /\ SumOver(Room(e), DOMAIN e.stacks) \in Nat
  <2>1. Len(a0) + 1 \in 1..(Len(a0) + 1)
    BY <1>5
  <2> QED
    BY <1>5, <2>1, RoomSteps
<1>10. amount = n - SumOver(Room(e), DOMAIN e.stacks) /\ amount \in Nat \ {0}
  BY <1>5, <1>6, <1>7, <1>9
<1>11. ~(Unlimited /\ DOMAIN e.stacks # {})
  <2>1. Unlimited => DOMAIN a0 = {}
    BY <1>5, <1>6, <1>7
  <2>2. DOMAIN e.stacks = KeysOf(a0, DOMAIN a0)
    BY <1>5 DEF Shows
  <2> QED
    BY <2>1, <2>2 DEF KeysOf
<1>12. ~Unlimited => 0 <= StacksNeeded(amount, limit) /\ Left(amount, limit, 0) = amount
  <2> HAVE ~Unlimited
  <2>1. StacksNeeded(amount, limit) \in Nat
    BY <1>5, <1>10, StacksNeededNat
  <2>2. limit \in Nat \ {0} /\ 0 <= StacksNeeded(amount, limit)
    BY <1>5, <2>1
  <2> QED
    BY <1>10, <2>2, LeftSteps
<1>13. Making'
  <2>1. /\ call'.loop = "fill" /\ captured' \in Nat \ {0}
        /\ captured' = call'.amount - SumOver(Room(Before'), DOMAIN Before'.stacks)
        /\ ~(Unlimited' /\ DOMAIN Before'.stacks # {})
    BY <1>2, <1>4, <1>6, <1>10, <1>11
  <2>2. Basis' = Filled(e, n)
    BY <1>4, <1>6 DEF Basis
  <2>3. Made(Basis'.stacks, call'.stacks, call'.gen, [j \in Nat |-> captured'], stacks', gen')
    BY <1>2, <1>5, <1>6, <1>8, <2>2
  <2>4. touched' = (call'.gen + 1)..gen'
    <3>1. (call.gen + 1)..call.gen = {}
      BY <1>5
    <3> QED
      BY <1>2, <1>6, <3>1
  <2>5. Len(stacks) - Len(a0) = 0
    BY <1>5, <1>8
  <2>6. IF Unlimited' THEN Len(stacks') = Len(call'.stacks)
        ELSE /\ Len(stacks') - Len(call'.stacks) <= StacksNeeded(captured', call'.limit)
             /\ amount' = Left(captured', call'.limit, Len(stacks') - Len(call'.stacks))
    BY <1>2, <1>4, <1>8, <1>12, <2>5
  <2> QED
    BY <2>1, <2>3, <2>4, <2>6 DEF Making
<1> QED
  BY <1>1, <1>4, <1>13 DEF Progress, LoopsGiveClosedForms

\* An array without its last stack.
LEMMA LastRemoved ==
    ASSUME NEW a \in Seq(Rows), NEW i \in Nat, Len(a) = i, i >= 1
    PROVE  /\ Seqs!RemoveAt(a, i) \in Seq(Rows)
           /\ Len(Seqs!RemoveAt(a, i)) = i - 1
           /\ \A j \in 1..(i - 1) : Seqs!RemoveAt(a, i)[j] = a[j]
<1> DEFINE b == SubSeq(a, 1, i - 1)
           c == SubSeq(a, i + 1, i)
<1>1. Seqs!RemoveAt(a, i) = b \o c
  BY DEF Seqs!RemoveAt
<1>2. b \in Seq(Rows) /\ Len(b) = i - 1 /\ \A j \in 1..(i - 1) : b[j] = a[j]
  BY SubSeqProperties
<1>3. c \in Seq(Rows) /\ Len(c) = 0
  BY SubSeqProperties
<1> HIDE DEF b, c
<1>4. b \o c \in Seq(Rows) /\ Len(b \o c) = i - 1 /\ \A j \in 1..(i - 1) : (b \o c)[j] = b[j]
  BY <1>2, <1>3, ConcatProperties
<1> QED
  BY <1>1, <1>2, <1>4

\* The first stacks of an array are an array.
LEMMA FirstOnes ==
    ASSUME NEW a0, NEW g, IsArray(a0, g), NEW i \in 0..Len(a0),
           NEW a \in Seq(Rows), Len(a) = i, \A j \in 1..i : a[j].key = a0[j].key
    PROVE  IsArray(a, g) /\ DOMAIN a = 1..i
<1>1. /\ Len(a0) \in Nat /\ DOMAIN a0 = 1..Len(a0)
      /\ \A j \in DOMAIN a0 : a0[j].key > KeyGenReset /\ a0[j].key <= g
      /\ \A j, m \in DOMAIN a0 : j < m => a0[j].key < a0[m].key
      /\ g \in Int /\ g >= KeyGenReset
  BY RowsOfArray DEF IsArray
<1>2. DOMAIN a = 1..i
  OBVIOUS
<1>3. \A j \in 1..i : j \in DOMAIN a0
  BY <1>1
<1> QED
  BY <1>1, <1>2, <1>3 DEF IsArray

\* RemoveFromAnyStack's loop takes a stack at the tail, or a part of it, which
\* is the end of it.
LEMMA TakeKeeps == Progress /\ TakeStack => Progress'
<1> SUFFICES ASSUME Progress, TakeStack PROVE Progress'
  OBVIOUS
<1> DEFINE n == call.amount
           limit == call.limit
           a0 == call.stacks
           e == Before
           i == index
           s == stacks[i]
           T(j) == TailFrom(e, a0, j)
           c == s.copies - amount
           b == [stacks EXCEPT ![i].copies = s.copies - amount]
           r == Seqs!RemoveAt(stacks, i)
<1>1. CallTyped /\ Taking /\ at = "take" /\ i >= 1
  BY DEF Progress, TakeStack
<1>2. /\ call' = call /\ gen' = gen /\ touched' = touched \cup {s.key} /\ index' = i - 1
      /\ IF amount >= s.copies
         THEN /\ stacks' = r /\ amount' = amount - s.copies
              /\ at' = IF amount' <= 0 THEN "done" ELSE at
         ELSE stacks' = b /\ at' = "done"
  BY DEF TakeStack
<1>3. at' \in Loops \cup {"done"}
  BY <1>1, <1>2 DEF Loops
<1>4. /\ CallTyped' /\ Before' = Before
      /\ After' = EntryOf(limit, stacks', gen')
  BY <1>1, <1>2, <1>3, CallStays
<1>5. /\ Shows(a0, e) /\ e.limit = limit /\ e.gen = call.gen
      /\ Len(a0) \in Nat /\ DOMAIN a0 = 1..Len(a0)
      /\ n \in Nat \ {0}
  BY <1>1, BeforeShows DEF CallTyped
<1>6. /\ call.loop = "take" /\ gen = call.gen
      /\ i \in 0..Len(a0)
      /\ stacks \in Seq(Rows) /\ Len(stacks) = i
      /\ \A j \in 1..i : stacks[j] = a0[j]
      /\ amount = n - T(i + 1)
      /\ amount > 0
      /\ \A j \in DOMAIN a0 : j > i => T(j) < n
      /\ touched = KeysOf(a0, (i + 1)..Len(a0))
  BY <1>1 DEF Taking
<1>7. IsArray(a0, gen) /\ \A j \in DOMAIN a0 : a0[j].key \in Int /\ a0[j].copies \in Int
  BY <1>5, <1>6, RowsOfArray DEF Shows
<1>8. i \in Nat /\ i \in DOMAIN a0 /\ i \in 1..i /\ s = a0[i] /\ i \in 1..(Len(a0) + 1) /\ i + 1 \in 1..(Len(a0) + 1)
  BY <1>1, <1>5, <1>6
<1>9. /\ \A j \in DOMAIN a0 : FromTail(e, a0[j].key) = T(j)
      /\ T(i) = T(i + 1) + s.copies /\ T(i) \in Int /\ T(i + 1) \in Int
      /\ s.copies \in Int /\ amount \in Int
  <2>1. T(i) \in Int /\ T(i + 1) \in Int
    BY <1>5, <1>8, TailSteps
  <2>2. /\ \A j \in DOMAIN a0 : FromTail(e, a0[j].key) = T(j)
        /\ T(i) = T(i + 1) + a0[i].copies
    BY <1>5, <1>8, TailSteps
  <2> QED
    BY <1>5, <1>6, <1>7, <1>8, <2>1, <2>2
<1>10. touched' = KeysOf(a0, i..Len(a0))
  BY <1>2, <1>6, <1>7, <1>8, KeysAround
\* What the removal reaches when there is enough from the i-th stack on.
<1>16. ASSUME T(i) >= n
       PROVE  /\ ReachedFromTail(e, n) = KeysOf(a0, i..Len(a0))
              /\ \A j \in DOMAIN a0 : a0[j].key \in PartlyRemoved(e, n) <=> j = i /\ T(i) > n
              /\ \A j \in DOMAIN a0 : a0[j].key \in ReachedFromTail(e, n) <=> j >= i
  <2>1. Shows(a0, e) /\ n \in Nat \ {0} /\ i \in DOMAIN a0
    BY <1>5, <1>8
  <2>2. TailFrom(e, a0, i) >= n /\ \A j \in DOMAIN a0 : j > i => TailFrom(e, a0, j) < n
    BY <1>6, <1>16
  <2> HIDE DEF n, a0, e
  <2> QED
    BY ONLY <2>1, <2>2, ReachesSome
<1> HIDE DEF T, c, b, r, s
\* The loop is done in the i-th stack.
<1>11. ASSUME at' = "done", T(i) >= n, EntryOf(limit, stacks', gen') = RemoveFromAnyStack(e, n)
       PROVE  Progress'
  <2>1. ReachedFromTail(e, n) = KeysOf(a0, i..Len(a0))
    BY <1>11, <1>16
  <2>2. call'.loop = "take" /\ call'.amount = n
    BY <1>2, <1>6
  <2>3. LoopsGiveClosedForms'
    BY <1>4, <1>10, <1>11, <2>1, <2>2 DEF LoopsGiveClosedForms
  <2> QED
    BY <1>4, <1>11, <2>3 DEF Progress
\* What that leaves of the entry.
<1>12. ASSUME T(i) >= n, NEW a, a \in Seq(Rows), \A j \in DOMAIN a : a[j].key = a0[j].key,
              \A j \in DOMAIN a : a[j].copies = IF j = i THEN T(i) - n ELSE a0[j].copies,
              Len(a) = IF T(i) > n THEN i ELSE i - 1
       PROVE  EntryOf(limit, a, gen) = RemoveFromAnyStack(e, n)
  <2>1. /\ \A j \in DOMAIN a0 : a0[j].key \in PartlyRemoved(e, n) <=> j = i /\ T(i) > n
        /\ \A j \in DOMAIN a0 : a0[j].key \in ReachedFromTail(e, n) <=> j >= i
    BY <1>12, <1>16
  <2>2. Len(a) \in 0..Len(a0) /\ DOMAIN a = 1..Len(a)
    BY <1>5, <1>6, <1>8, <1>9, <1>12
  <2>3. IsArray(a, gen)
    BY <1>7, <1>12, <2>2, FirstOnes
  <2>4. \A j \in DOMAIN a : j \in DOMAIN a0 /\ (j = i => T(i) > n)
    BY <1>5, <1>8, <1>9, <1>12, <2>2
  <2>5. \A j \in DOMAIN a :
           /\ a[j].key = a0[j].key
           /\ a[j].copies = IF a0[j].key \in PartlyRemoved(e, n) THEN FromTail(e, a0[j].key) - n
                            ELSE a0[j].copies
    BY <1>9, <1>12, <2>1, <2>4
  <2>6. \A j \in DOMAIN a0 : j <= Len(a) <=> a0[j].key \notin ReachedFromTail(e, n) \ PartlyRemoved(e, n)
    <3> SUFFICES ASSUME NEW j \in DOMAIN a0
                 PROVE  j <= Len(a) <=> ~(j >= i) \/ (j = i /\ T(i) > n)
      BY <2>1
    <3> QED
      BY <1>5, <1>8, <1>12
  <2> HIDE DEF n, a0, e, limit, i
  <2>7. EntryOf(e.limit, a, e.gen) = RemoveFromAnyStack(e, n)
    <3>1. IsArray(a, e.gen) /\ Len(a) <= Len(a0)
      BY <1>5, <1>6, <2>2, <2>3
    <3>2. Without(a, e, a0, n)
      BY ONLY <2>5, <2>6, <3>1 DEF Without
    <3>3. Shows(a0, e) /\ n \in Nat \ {0}
      BY <1>5
    <3> QED
      BY ONLY <3>2, <3>3, TakenAway
  <2> QED
    BY <1>5, <1>6, <2>7
<1>13. \A j \in 1..i : stacks[j].key = a0[j].key /\ stacks[j].copies = a0[j].copies
  BY <1>6
<1>14. CASE amount >= s.copies
  <2>1. stacks' = r /\ amount' = amount - s.copies /\ at' = IF amount' <= 0 THEN "done" ELSE at
    BY <1>2, <1>14
  <2>2. r \in Seq(Rows) /\ Len(r) = i - 1 /\ \A j \in 1..(i - 1) : r[j] = stacks[j]
    BY <1>1, <1>6, <1>8, LastRemoved DEF r
  <2>3. amount' = n - T(i) /\ amount' \in Int
    BY <1>5, <1>6, <1>9, <2>1
  <2>4. DOMAIN r = 1..(i - 1) /\ \A j \in DOMAIN r : r[j] = a0[j] /\ j \in 1..i /\ j # i
    BY <1>6, <1>8, <2>2
  <2>5. CASE amount' <= 0
    <3>1. T(i) = n
      BY <1>5, <1>6, <1>9, <1>14, <2>3, <2>5
    <3>2. EntryOf(limit, r, gen) = RemoveFromAnyStack(e, n)
      <4>1. T(i) >= n /\ ~(T(i) > n)
        BY <1>5, <3>1
      <4>2. \A j \in DOMAIN r : r[j].key = a0[j].key /\ r[j].copies = IF j = i THEN T(i) - n ELSE a0[j].copies
        BY <2>4
      <4> QED
        BY <1>12, <2>2, <4>1, <4>2
    <3> QED
      BY <1>2, <1>5, <1>11, <2>1, <2>5, <3>1, <3>2
  <2>6. CASE ~(amount' <= 0)
    <3>1. at' = "take" /\ amount' > 0 /\ T(i) < n
      BY <1>1, <1>5, <1>9, <2>1, <2>3, <2>6
    <3>2. index' + 1 = i /\ index' \in 0..Len(a0)
      BY <1>2, <1>5, <1>8
    <3>3. \A j \in DOMAIN a0 : j > i - 1 => T(j) < n
      <4> SUFFICES ASSUME NEW j \in DOMAIN a0, j > i - 1 PROVE T(j) < n
        OBVIOUS
      <4>1. j = i \/ j > i
        BY <1>5, <1>8
      <4> QED
        BY <1>6, <3>1, <4>1
    <3>4. /\ stacks' \in Seq(Rows) /\ Len(stacks') = index'
          /\ \A j \in 1..index' : stacks'[j] = a0[j]
      BY <1>2, <2>1, <2>2, <2>4
    <3>5. Taking'
      <4>1. amount' = n - TailFrom(e, a0, index' + 1)
        BY <2>3, <3>2 DEF T
      <4>2. \A j \in DOMAIN a0 : j > index' => TailFrom(e, a0, j) < n
        BY <1>2, <3>3 DEF T
      <4>3. touched' = KeysOf(a0, (index' + 1)..Len(a0))
        BY <1>10, <3>2
      <4> QED
        BY <1>2, <1>4, <1>6, <3>1, <3>2, <3>4, <4>1, <4>2, <4>3 DEF Taking
    <3> QED
      BY <1>4, <3>1, <3>5 DEF Progress, LoopsGiveClosedForms
  <2> QED
    BY <2>5, <2>6
<1>15. CASE ~(amount >= s.copies)
  <2>1. stacks' = b /\ at' = "done"
    BY <1>2, <1>15
  <2>2. c = T(i) - n /\ c \in Int /\ T(i) > n /\ T(i) >= n
    BY <1>5, <1>6, <1>9, <1>15 DEF c
  <2>3. /\ b \in Seq(Rows) /\ Len(b) = i /\ DOMAIN b = 1..i
        /\ b[i].copies = c
        /\ \A j \in 1..i : b[j].key = a0[j].key /\ (j # i => b[j] = stacks[j])
    <3> DEFINE d == [stacks EXCEPT ![i].copies = c]
    <3>1. b = d
      BY DEF b, c
    <3>2. IsArray(stacks, gen) /\ DOMAIN stacks = 1..i
      <4>1. IsArray(a0, gen) /\ i \in 0..Len(a0)
        BY <1>6, <1>7
      <4>2. stacks \in Seq(Rows) /\ Len(stacks) = i /\ \A j \in 1..i : stacks[j].key = a0[j].key
        BY <1>6, <1>13
      <4> QED
        BY <4>1, <4>2, FirstOnes
    <3>3. IsArray(stacks, gen) /\ i \in DOMAIN stacks /\ c \in Int
      BY <1>8, <2>2, <3>2
    <3> HIDE DEF i
    <3>4. /\ IsArray(d, gen) /\ Len(d) = Len(stacks) /\ DOMAIN d = DOMAIN stacks
          /\ d[i].copies = c
          /\ \A j \in DOMAIN stacks : d[j].key = stacks[j].key /\ (j # i => d[j] = stacks[j])
      BY ONLY <3>3, ArrayChanges
    <3> HIDE DEF d
    <3> QED
      BY <1>6, <1>13, <3>1, <3>2, <3>4 DEF IsArray
  <2>4. EntryOf(limit, b, gen) = RemoveFromAnyStack(e, n)
    <3>1. T(i) >= n
      BY <2>2
    <3>2. \A j \in DOMAIN b : b[j].key = a0[j].key /\ b[j].copies = IF j = i THEN T(i) - n ELSE a0[j].copies
      BY <1>13, <2>2, <2>3
    <3> QED
      BY <1>12, <2>2, <2>3, <3>1, <3>2
  <2> QED
    BY <1>2, <1>5, <1>11, <2>1, <2>2, <2>4
<1> QED
  BY <1>14, <1>15

\* When all stacks are gone there is nothing left to take.
LEMMA TakeEndKeeps == Progress /\ TakeEnds => Progress'
<1> SUFFICES ASSUME Progress, TakeEnds PROVE Progress'
  OBVIOUS
<1> DEFINE n == call.amount
           limit == call.limit
           a0 == call.stacks
           e == Before
<1>1. CallTyped /\ Taking /\ at = "take" /\ index < 1 /\ at' = "done"
  BY DEF Progress, TakeEnds
<1>2. call' = call /\ gen' = gen /\ touched' = touched /\ stacks' = stacks
  BY DEF TakeEnds
<1>3. CallTyped' /\ Before' = Before /\ After' = EntryOf(limit, stacks', gen')
  BY <1>1, <1>2, CallStays
<1>4. /\ Shows(a0, e) /\ e.limit = limit /\ e.gen = call.gen
      /\ Len(a0) \in Nat /\ DOMAIN a0 = 1..Len(a0)
      /\ n \in Nat \ {0}
  BY <1>1, BeforeShows DEF CallTyped
<1>5. /\ call.loop = "take" /\ gen = call.gen
      /\ index \in 0..Len(a0)
      /\ stacks \in Seq(Rows) /\ Len(stacks) = index
      /\ \A j \in DOMAIN a0 : j > index => TailFrom(e, a0, j) < n
      /\ touched = KeysOf(a0, (index + 1)..Len(a0))
  BY <1>1 DEF Taking
<1>6. index = 0 /\ \A j \in DOMAIN a0 : j > index
  BY <1>1, <1>4, <1>5
<1>7. ReachedFromTail(e, n) = KeysOf(a0, DOMAIN a0) /\ PartlyRemoved(e, n) = {}
  BY <1>4, <1>5, <1>6, ReachesAll
<1>8. touched = KeysOf(a0, DOMAIN a0)
  BY <1>4, <1>5, <1>6
<1>9. EntryOf(limit, stacks, gen) = RemoveFromAnyStack(e, n)
  <2>1. IsArray(a0, e.gen)
    BY <1>4 DEF Shows
  <2>2. index \in 0..Len(a0) /\ \A j \in 1..index : stacks[j].key = a0[j].key
    BY <1>4, <1>5, <1>6
  <2>3. IsArray(stacks, e.gen) /\ DOMAIN stacks = 1..index
    <3>1. stacks \in Seq(Rows) /\ Len(stacks) = index
      BY <1>5
    <3> HIDE DEF a0, e
    <3> QED
      BY ONLY <2>1, <2>2, <3>1, FirstOnes
  <2>4. \A j \in DOMAIN stacks :
           /\ stacks[j].key = a0[j].key
           /\ stacks[j].copies = IF a0[j].key \in PartlyRemoved(e, n) THEN FromTail(e, a0[j].key) - n
                                 ELSE a0[j].copies
    BY <1>6, <2>3
  <2>5. \A j \in DOMAIN a0 :
           j <= Len(stacks) <=> a0[j].key \notin ReachedFromTail(e, n) \ PartlyRemoved(e, n)
    BY <1>4, <1>5, <1>6, <1>7 DEF KeysOf
  <2>6. IsArray(stacks, e.gen) /\ Len(stacks) <= Len(a0)
    BY <1>4, <1>5, <1>6, <2>3
  <2> HIDE DEF n, a0, e, limit
  <2>7. EntryOf(e.limit, stacks, e.gen) = RemoveFromAnyStack(e, n)
    <3>1. Without(stacks, e, a0, n)
      BY ONLY <2>4, <2>5, <2>6 DEF Without
    <3>2. Shows(a0, e) /\ n \in Nat \ {0}
      BY <1>4
    <3> QED
      BY ONLY <3>1, <3>2, TakenAway
  <2> QED
    BY <1>4, <1>5, <2>7
<1>10. call'.loop = "take" /\ call'.amount = n
  BY <1>2, <1>5
<1>11. LoopsGiveClosedForms'
  BY <1>2, <1>3, <1>7, <1>8, <1>9, <1>10 DEF LoopsGiveClosedForms
<1> QED
  BY <1>1, <1>3, <1>11 DEF Progress

-----------------------------------------------------------------------------
\* For every stack limit, every entry and every amount: once a loop of
\* FInventoryEntry is done the entry is what the closed form says, and its out
\* parameter names the stacks that were made, or those the removal reached.
THEOREM LoopsAreClosedForms == Spec => []LoopsGiveClosedForms
<1>1. Init => Progress
  BY ProgressBegins
<1>2. Progress /\ [Next]_vars => Progress'
  <2> SUFFICES ASSUME Progress, [Next]_vars PROVE Progress'
    OBVIOUS
  <2>1. CASE ConstructStack
    BY <2>1, ConstructKeeps
  <2>2. CASE FillStack
    BY <2>2, FillKeeps
  <2>3. CASE FillEnds
    BY <2>3, FillEndKeeps
  <2>4. CASE MakeStack
    BY <2>4, MakeKeeps
  <2>5. CASE TakeStack
    BY <2>5, TakeKeeps
  <2>6. CASE TakeEnds
    BY <2>6, TakeEndKeeps
  <2>7. CASE Done \/ UNCHANGED vars
    <3>1. UNCHANGED <<call, stacks, gen, amount, captured, index, touched, at>>
      BY <2>7 DEF Done, vars
    <3>2. CallTyped'
      BY <3>1 DEF Progress, CallTyped
    <3>3. /\ Before' = Before /\ After' = After /\ Cut' = Cut /\ Basis' = Basis
          /\ Unlimited' <=> Unlimited
      BY <3>1 DEF Before, After, AsEntry, Cut, Basis, Unlimited
    <3>4. (Constructing' <=> Constructing) /\ (Filling' <=> Filling)
      BY <3>1, <3>3 DEF Constructing, Filling
    <3>5. (Making' <=> Making) /\ (Taking' <=> Taking)
      BY <3>1, <3>3 DEF Making, Taking
    <3>6. LoopsGiveClosedForms' <=> LoopsGiveClosedForms
      BY <3>1, <3>3 DEF LoopsGiveClosedForms
    <3> QED
      BY <3>1, <3>2, <3>4, <3>5, <3>6 DEF Progress
  <2> QED
    BY <2>1, <2>2, <2>3, <2>4, <2>5, <2>6, <2>7 DEF Next
<1>3. Progress => LoopsGiveClosedForms
  BY DEF Progress
<1> QED
  BY <1>1, <1>2, <1>3, PTL DEF Spec

-----------------------------------------------------------------------------
(* The rules of ItemFilters: what they answer, log and advise, level by level *)
(* of nesting.                                                               *)


\* What rules answer at each depth.
LEMMA AnswersAre ==
    ASSUME NEW below \in [Rules -> BOOLEAN], NEW rule \in Rules, NEW view
    PROVE  Answered(below, rule, view) \in BOOLEAN
<1>1. rule.kind \in DOMAIN LogicConfig \cup DOMAIN ItemConfig
  BY ItemFiltersAssumption DEF IsConfigured
<1>2. rule.kind \in {"Literal", "Or", "And", "Not", "Condition", "Ternary", "Mutability", "MatchTemplate",
                     "HasTokens", "Copies", "StackLimit", "TagAny", "TagAll"}
  BY <1>1 DEF LogicConfig, ItemConfig
<1>3. Compare(rule.op, view.copies, rule.amount) \in BOOLEAN
  BY DEF Compare
<1>4. CompareLimit(rule.op, StackLimitOf(view.item), rule.amount) \in BOOLEAN
  BY DEF CompareLimit
<1> QED
  BY <1>2, <1>3, <1>4 DEF Answered

\* The answers of rules, level by level.
LEMMA ExecsAre ==
    ASSUME NEW view PROVE
    /\ \A d \in 0 .. RuleDepth : Execs(view)[d] \in [Rules -> BOOLEAN]
    /\ Execs(view)[0] = [ rule \in Rules |-> FALSE ]
    /\ \A d \in 1 .. RuleDepth : Execs(view)[d] = [ rule \in Rules |-> Answered(Execs(view)[d - 1], rule, view) ]
<1> DEFINE N == RuleDepth
           All == [Rules -> BOOLEAN]
           start == [ rule \in Rules |-> FALSE ]
           step == [q \in (1 .. N) \X All |-> [ rule \in Rules |-> Answered(q[2], rule, view) ]]
           Are(f) == f = [d \in 0 .. RuleDepth |-> IF d = 0 THEN start ELSE [ rule \in Rules |-> Answered(f[d - 1], rule, view) ]]
<1>1. N \in Nat
  BY ItemFiltersAssumption
<1>2. start \in All /\ step \in [(1 .. N) \X All -> All]
  BY AnswersAre
<1>3. PICK f \in [0 .. N -> All] : LoopOf(f, N, start, step)
  <2> HIDE DEF N, step, start, All
  <2> QED
    BY <1>1, <1>2, LoopRuns
<1>4. Are(f)
  <2>1. \A k \in 1 .. N : step[<<k, f[k - 1]>>] = [ rule \in Rules |-> Answered(f[k - 1], rule, view) ]
    <3> TAKE k \in 1 .. N
    <3>1. k - 1 \in 0 .. N /\ f[k - 1] \in All
      BY <1>1, <1>3
    <3> HIDE DEF All
    <3> QED
      BY <3>1
  <2>2. ASSUME NEW k \in 0 .. N PROVE f[k] = IF k = 0 THEN start ELSE [ rule \in Rules |-> Answered(f[k - 1], rule, view) ]
    <3> HIDE DEF step, N, start
    <3>1. f[k] = IF k = 0 THEN start ELSE step[<<k, f[k - 1]>>]
      BY <1>3 DEF LoopOf
    <3>2. k # 0 => k \in 1 .. N
      BY <1>1
    <3> QED
      BY <2>1, <3>1, <3>2
  <2>3. f = [k \in 0 .. N |-> f[k]]
    BY <1>3
  <2> HIDE DEF step, start
  <2> QED
    BY <2>2, <2>3
<1>5. Execs(view) = CHOOSE g : Are(g)
  BY DEF Execs
<1> HIDE DEF step, start
<1>6. Are(Execs(view))
  BY <1>4, <1>5
<1>7. Execs(view)[0] = start /\ \A k \in 1 .. N : Execs(view)[k] = [ rule \in Rules |-> Answered(Execs(view)[k - 1], rule, view) ]
  <2>1. ASSUME NEW d \in 0 .. N PROVE Execs(view)[d] = IF d = 0 THEN start ELSE [ rule \in Rules |-> Answered(Execs(view)[d - 1], rule, view) ]
    BY <1>6, Zenon
  <2>2. 0 \in 0 .. N /\ \A k \in 1 .. N : k \in 0 .. N /\ k # 0
    BY <1>1
  <2> QED
    BY <2>1, <2>2, Zenon
<1>8. \A k \in 1 .. N : Execs(view)[k - 1] \in All => Execs(view)[k] \in All
  <2> SUFFICES ASSUME NEW k \in 1 .. N, Execs(view)[k - 1] \in All PROVE Execs(view)[k] \in All
    OBVIOUS
  <2>1. step[<<k, Execs(view)[k - 1]>>] = Execs(view)[k]
    <3> HIDE DEF All
    <3> QED
      BY <1>7 DEF step
  <2> HIDE DEF All
  <2> QED
    BY <1>2, <2>1
<1> DEFINE Kept == { d \in 0 .. N : Execs(view)[d] \in All }
<1>9. ASSUME NEW n \in 0 .. N PROVE n \in Kept
  <2> HIDE DEF All, N
  <2>1. 0 \in Kept
    BY <1>1, <1>2, <1>7
  <2>2. \A k \in 1 .. n : k - 1 \in Kept => k \in Kept
    BY <1>1, <1>8
  <2> HIDE DEF Kept
  <2> QED
    BY <1>1, <2>1, <2>2, LoopInduction
<1> QED
  BY <1>7, <1>9 DEF start

Verdicts == [passed : BOOLEAN, reason : BOOLEAN]
KnownStatuses == {"Unknown", "KnownMutable", "KnownImmutable"}
Reliance == [logs : BOOLEAN, advises : BOOLEAN]

\* What lies in rules.
LEMMA RulesInRules ==
    ASSUME NEW rule \in Rules
    PROVE  /\ rule.kind \in {"Or", "And"} =>
                 rule.rules \in Seq(Rules) /\ \A k \in DOMAIN rule.rules : rule.rules[k] \in Rules
           /\ rule.kind = "Not" => rule.rule \in Rules
           /\ rule.kind = "MatchTemplate" /\ rule.pattern # NoRule => rule.pattern \in Rules
<1>1. rule.kind \in {"Or", "And"} => rule.rules \in Seq(Rules)
  BY ItemFiltersAssumption
<1>2. rule.kind = "Not" => rule.rule \in Rules
  BY ItemFiltersAssumption
<1>3. rule.kind = "MatchTemplate" /\ rule.pattern # NoRule => rule.pattern \in ChildrenOf(rule)
  BY DEF ChildrenOf
<1>4. ChildrenOf(rule) \subseteq Rules
  BY ItemFiltersAssumption
<1>5. ASSUME NEW s \in Seq(Rules) PROVE \A k \in DOMAIN s : s[k] \in Rules
  OBVIOUS
<1> QED
  BY <1>1, <1>2, <1>3, <1>4, <1>5

\* What each kind of rule logs, advises and can be relied on for.
LEMMA LogsAreVerdicts ==
    ASSUME NEW below \in [Rules -> Verdicts], NEW exec \in [Rules -> BOOLEAN], NEW rule \in Rules
    PROVE  Logged(below, exec, rule) \in Verdicts
<1>1. ASSUME NEW log PROVE LogOfRules(log) \in Verdicts
  BY DEF LogOfRules, Verdicts
<1>2. ASSUME NEW log \in Verdicts PROVE LogOfPattern(log) \in Verdicts
  BY <1>2 DEF LogOfPattern, Verdicts
<1>3. LogOfAnswer(exec[rule]) \in Verdicts /\ [passed |-> FALSE, reason |-> FALSE] \in Verdicts
  BY DEF LogOfAnswer, Verdicts
<1> QED
  BY <1>1, <1>2, <1>3, RulesInRules DEF Logged

LEMMA StatusesAreKnown ==
    ASSUME NEW below \in [Rules -> KnownStatuses], NEW rule \in Rules
    PROVE  Advised(below, rule) \in KnownStatuses
<1>1. ASSUME NEW statuses PROVE AnyKnown(statuses) \in KnownStatuses
  BY DEF AnyKnown, KnownStatuses
<1>2. "Unknown" \in KnownStatuses /\ "KnownMutable" \in KnownStatuses /\ "KnownImmutable" \in KnownStatuses
  BY DEF KnownStatuses
<1> QED
  BY <1>1, <1>2, RulesInRules DEF Advised

LEMMA ReliablesAre ==
    ASSUME NEW below \in [Rules -> Reliance], NEW rule \in Rules
    PROVE  Reliable(below, rule) \in Reliance
<1> DEFINE logs == Reliable(below, rule).logs
           advises == Reliable(below, rule).advises
<1>1. \A r \in Rules : below[r].logs \in BOOLEAN /\ below[r].advises \in BOOLEAN
  BY DEF Reliance
<1>2. logs \in BOOLEAN
  BY <1>1, RulesInRules DEF Reliable
<1>3. advises \in BOOLEAN
  BY <1>1, RulesInRules DEF Reliable
<1>4. Reliable(below, rule) = [logs |-> logs, advises |-> advises]
  BY DEF Reliable
<1> HIDE DEF logs, advises
<1> QED
  BY <1>2, <1>3, <1>4 DEF Reliance

\* The logs of rules, level by level.
LEMMA LogsAre ==
    ASSUME NEW view PROVE
    /\ \A d \in 0 .. RuleDepth : Logs(view)[d] \in [Rules -> Verdicts]
    /\ Logs(view)[0] = [ rule \in Rules |-> LogOfAnswer(FALSE) ]
    /\ \A d \in 1 .. RuleDepth : Logs(view)[d] = [ rule \in Rules |-> Logged(Logs(view)[d - 1], Execs(view)[d], rule) ]
<1> DEFINE N == RuleDepth
           All == [Rules -> Verdicts]
           start == [ rule \in Rules |-> LogOfAnswer(FALSE) ]
           step == [q \in (1 .. N) \X All |-> [ rule \in Rules |-> Logged(q[2], Execs(view)[q[1]], rule) ]]
           Are(f) == f = [d \in 0 .. RuleDepth |-> IF d = 0 THEN start ELSE [ rule \in Rules |-> Logged(f[d - 1], Execs(view)[d], rule) ]]
<1>1. N \in Nat
  BY ItemFiltersAssumption
<1>2. start \in All /\ step \in [(1 .. N) \X All -> All]
  <2>1. \A d \in 1 .. N : Execs(view)[d] \in [Rules -> BOOLEAN]
    <3>1. \A d \in 1 .. N : d \in 0 .. N
      BY <1>1
    <3> QED
      BY <3>1, ExecsAre
  <2>2. start \in All
    BY DEF LogOfAnswer, Verdicts
  <2> QED
    BY <2>1, <2>2, LogsAreVerdicts
<1>3. PICK f \in [0 .. N -> All] : LoopOf(f, N, start, step)
  <2> HIDE DEF N, step, start, All
  <2> QED
    BY <1>1, <1>2, LoopRuns
<1>4. Are(f)
  <2>1. \A k \in 1 .. N : step[<<k, f[k - 1]>>] = [ rule \in Rules |-> Logged(f[k - 1], Execs(view)[k], rule) ]
    <3> TAKE k \in 1 .. N
    <3>1. k - 1 \in 0 .. N /\ f[k - 1] \in All
      BY <1>1, <1>3
    <3> HIDE DEF All
    <3> QED
      BY <3>1
  <2>2. ASSUME NEW k \in 0 .. N PROVE f[k] = IF k = 0 THEN start ELSE [ rule \in Rules |-> Logged(f[k - 1], Execs(view)[k], rule) ]
    <3> HIDE DEF step, N, start
    <3>1. f[k] = IF k = 0 THEN start ELSE step[<<k, f[k - 1]>>]
      BY <1>3 DEF LoopOf
    <3>2. k # 0 => k \in 1 .. N
      BY <1>1
    <3> QED
      BY <2>1, <3>1, <3>2
  <2>3. f = [k \in 0 .. N |-> f[k]]
    BY <1>3
  <2> HIDE DEF step, start
  <2> QED
    BY <2>2, <2>3
<1>5. Logs(view) = CHOOSE g : Are(g)
  BY DEF Logs
<1> HIDE DEF step, start
<1>6. Are(Logs(view))
  BY <1>4, <1>5
<1>7. Logs(view)[0] = start /\ \A k \in 1 .. N : Logs(view)[k] = [ rule \in Rules |-> Logged(Logs(view)[k - 1], Execs(view)[k], rule) ]
  <2>1. ASSUME NEW d \in 0 .. N PROVE Logs(view)[d] = IF d = 0 THEN start ELSE [ rule \in Rules |-> Logged(Logs(view)[d - 1], Execs(view)[d], rule) ]
    BY <1>6, Zenon
  <2>2. 0 \in 0 .. N /\ \A k \in 1 .. N : k \in 0 .. N /\ k # 0
    BY <1>1
  <2> QED
    BY <2>1, <2>2, Zenon
<1>8. \A k \in 1 .. N : Logs(view)[k - 1] \in All => Logs(view)[k] \in All
  <2> SUFFICES ASSUME NEW k \in 1 .. N, Logs(view)[k - 1] \in All PROVE Logs(view)[k] \in All
    OBVIOUS
  <2>1. step[<<k, Logs(view)[k - 1]>>] = Logs(view)[k]
    <3> HIDE DEF All
    <3> QED
      BY <1>7 DEF step
  <2> HIDE DEF All
  <2> QED
    BY <1>2, <2>1
<1> DEFINE Kept == { d \in 0 .. N : Logs(view)[d] \in All }
<1>9. ASSUME NEW n \in 0 .. N PROVE n \in Kept
  <2> HIDE DEF All, N
  <2>1. 0 \in Kept
    BY <1>1, <1>2, <1>7
  <2>2. \A k \in 1 .. n : k - 1 \in Kept => k \in Kept
    BY <1>1, <1>8
  <2> HIDE DEF Kept
  <2> QED
    BY <1>1, <2>1, <2>2, LoopInduction
<1> QED
  BY <1>7, <1>9 DEF start

\* The statuses of rules, level by level.
LEMMA StatusesAre ==
    /\ \A d \in 0 .. RuleDepth : Statuses[d] \in [Rules -> KnownStatuses]
    /\ Statuses[0] = [ rule \in Rules |-> "Unknown" ]
    /\ \A d \in 1 .. RuleDepth : Statuses[d] = [ rule \in Rules |-> Advised(Statuses[d - 1], rule) ]
<1> DEFINE N == RuleDepth
           All == [Rules -> KnownStatuses]
           start == [ rule \in Rules |-> "Unknown" ]
           step == [q \in (1 .. N) \X All |-> [ rule \in Rules |-> Advised(q[2], rule) ]]
           Are(f) == f = [d \in 0 .. RuleDepth |-> IF d = 0 THEN start ELSE [ rule \in Rules |-> Advised(f[d - 1], rule) ]]
<1>1. N \in Nat
  BY ItemFiltersAssumption
<1>2. start \in All /\ step \in [(1 .. N) \X All -> All]
  <2>1. start \in All
    BY DEF KnownStatuses
  <2> QED
    BY <2>1, StatusesAreKnown
<1>3. PICK f \in [0 .. N -> All] : LoopOf(f, N, start, step)
  <2> HIDE DEF N, step, start, All
  <2> QED
    BY <1>1, <1>2, LoopRuns
<1>4. Are(f)
  <2>1. \A k \in 1 .. N : step[<<k, f[k - 1]>>] = [ rule \in Rules |-> Advised(f[k - 1], rule) ]
    <3> TAKE k \in 1 .. N
    <3>1. k - 1 \in 0 .. N /\ f[k - 1] \in All
      BY <1>1, <1>3
    <3> HIDE DEF All
    <3> QED
      BY <3>1
  <2>2. ASSUME NEW k \in 0 .. N PROVE f[k] = IF k = 0 THEN start ELSE [ rule \in Rules |-> Advised(f[k - 1], rule) ]
    <3> HIDE DEF step, N, start
    <3>1. f[k] = IF k = 0 THEN start ELSE step[<<k, f[k - 1]>>]
      BY <1>3 DEF LoopOf
    <3>2. k # 0 => k \in 1 .. N
      BY <1>1
    <3> QED
      BY <2>1, <3>1, <3>2
  <2>3. f = [k \in 0 .. N |-> f[k]]
    BY <1>3
  <2> HIDE DEF step, start
  <2> QED
    BY <2>2, <2>3
<1>5. Statuses = CHOOSE g : Are(g)
  BY DEF Statuses
<1> HIDE DEF step, start
<1>6. Are(Statuses)
  BY <1>4, <1>5
<1>7. Statuses[0] = start /\ \A k \in 1 .. N : Statuses[k] = [ rule \in Rules |-> Advised(Statuses[k - 1], rule) ]
  <2>1. ASSUME NEW d \in 0 .. N PROVE Statuses[d] = IF d = 0 THEN start ELSE [ rule \in Rules |-> Advised(Statuses[d - 1], rule) ]
    BY <1>6, Zenon
  <2>2. 0 \in 0 .. N /\ \A k \in 1 .. N : k \in 0 .. N /\ k # 0
    BY <1>1
  <2> QED
    BY <2>1, <2>2, Zenon
<1>8. \A k \in 1 .. N : Statuses[k - 1] \in All => Statuses[k] \in All
  <2> SUFFICES ASSUME NEW k \in 1 .. N, Statuses[k - 1] \in All PROVE Statuses[k] \in All
    OBVIOUS
  <2>1. step[<<k, Statuses[k - 1]>>] = Statuses[k]
    <3> HIDE DEF All
    <3> QED
      BY <1>7 DEF step
  <2> HIDE DEF All
  <2> QED
    BY <1>2, <2>1
<1> DEFINE Kept == { d \in 0 .. N : Statuses[d] \in All }
<1>9. ASSUME NEW n \in 0 .. N PROVE n \in Kept
  <2> HIDE DEF All, N
  <2>1. 0 \in Kept
    BY <1>1, <1>2, <1>7
  <2>2. \A k \in 1 .. n : k - 1 \in Kept => k \in Kept
    BY <1>1, <1>8
  <2> HIDE DEF Kept
  <2> QED
    BY <1>1, <2>1, <2>2, LoopInduction
<1> QED
  BY <1>7, <1>9 DEF start

\* What rules can be relied on for, level by level.
LEMMA ReliancesAre ==
    /\ \A d \in 0 .. RuleDepth : Reliables[d] \in [Rules -> Reliance]
    /\ Reliables[0] = [ rule \in Rules |-> [logs |-> TRUE, advises |-> TRUE] ]
    /\ \A d \in 1 .. RuleDepth : Reliables[d] = [ rule \in Rules |-> Reliable(Reliables[d - 1], rule) ]
<1> DEFINE N == RuleDepth
           All == [Rules -> Reliance]
           start == [ rule \in Rules |-> [logs |-> TRUE, advises |-> TRUE] ]
           step == [q \in (1 .. N) \X All |-> [ rule \in Rules |-> Reliable(q[2], rule) ]]
           Are(f) == f = [d \in 0 .. RuleDepth |-> IF d = 0 THEN start ELSE [ rule \in Rules |-> Reliable(f[d - 1], rule) ]]
<1>1. N \in Nat
  BY ItemFiltersAssumption
<1>2. start \in All /\ step \in [(1 .. N) \X All -> All]
  <2>1. start \in All
    BY DEF Reliance
  <2> QED
    BY <2>1, ReliablesAre
<1>3. PICK f \in [0 .. N -> All] : LoopOf(f, N, start, step)
  <2> HIDE DEF N, step, start, All
  <2> QED
    BY <1>1, <1>2, LoopRuns
<1>4. Are(f)
  <2>1. \A k \in 1 .. N : step[<<k, f[k - 1]>>] = [ rule \in Rules |-> Reliable(f[k - 1], rule) ]
    <3> TAKE k \in 1 .. N
    <3>1. k - 1 \in 0 .. N /\ f[k - 1] \in All
      BY <1>1, <1>3
    <3> HIDE DEF All
    <3> QED
      BY <3>1
  <2>2. ASSUME NEW k \in 0 .. N PROVE f[k] = IF k = 0 THEN start ELSE [ rule \in Rules |-> Reliable(f[k - 1], rule) ]
    <3> HIDE DEF step, N, start
    <3>1. f[k] = IF k = 0 THEN start ELSE step[<<k, f[k - 1]>>]
      BY <1>3 DEF LoopOf
    <3>2. k # 0 => k \in 1 .. N
      BY <1>1
    <3> QED
      BY <2>1, <3>1, <3>2
  <2>3. f = [k \in 0 .. N |-> f[k]]
    BY <1>3
  <2> HIDE DEF step, start
  <2> QED
    BY <2>2, <2>3
<1>5. Reliables = CHOOSE g : Are(g)
  BY DEF Reliables
<1> HIDE DEF step, start
<1>6. Are(Reliables)
  BY <1>4, <1>5
<1>7. Reliables[0] = start /\ \A k \in 1 .. N : Reliables[k] = [ rule \in Rules |-> Reliable(Reliables[k - 1], rule) ]
  <2>1. ASSUME NEW d \in 0 .. N PROVE Reliables[d] = IF d = 0 THEN start ELSE [ rule \in Rules |-> Reliable(Reliables[d - 1], rule) ]
    BY <1>6, Zenon
  <2>2. 0 \in 0 .. N /\ \A k \in 1 .. N : k \in 0 .. N /\ k # 0
    BY <1>1
  <2> QED
    BY <2>1, <2>2, Zenon
<1>8. \A k \in 1 .. N : Reliables[k - 1] \in All => Reliables[k] \in All
  <2> SUFFICES ASSUME NEW k \in 1 .. N, Reliables[k - 1] \in All PROVE Reliables[k] \in All
    OBVIOUS
  <2>1. step[<<k, Reliables[k - 1]>>] = Reliables[k]
    <3> HIDE DEF All
    <3> QED
      BY <1>7 DEF step
  <2> HIDE DEF All
  <2> QED
    BY <1>2, <2>1
<1> DEFINE Kept == { d \in 0 .. N : Reliables[d] \in All }
<1>9. ASSUME NEW n \in 0 .. N PROVE n \in Kept
  <2> HIDE DEF All, N
  <2>1. 0 \in Kept
    BY <1>1, <1>2, <1>7
  <2>2. \A k \in 1 .. n : k - 1 \in Kept => k \in Kept
    BY <1>1, <1>8
  <2> HIDE DEF Kept
  <2> QED
    BY <1>1, <2>1, <2>2, LoopInduction
<1> QED
  BY <1>7, <1>9 DEF start

-----------------------------------------------------------------------------
(* A log agrees with the answer, a status is true of what passes.           *)

LogTells(log, answer) == log.passed = answer /\ (~answer => log.reason)

\* A log that is made of an answer.
LEMMA AnswerIsLogged ==
    ASSUME NEW answer \in BOOLEAN
    PROVE  LogTells(LogOfAnswer(answer), answer)
<1>1. LogOfAnswer(TRUE).passed = TRUE /\ LogOfAnswer(FALSE).passed = FALSE /\ LogOfAnswer(FALSE).reason
  BY DEF LogOfAnswer
<1>2. CASE answer = TRUE
  BY <1>1, <1>2 DEF LogTells
<1>3. CASE answer = FALSE
  BY <1>1, <1>3 DEF LogTells
<1> QED
  BY <1>2, <1>3

\* The first of the rules that fail has said why.
LEMMA LogOfAll ==
    ASSUME NEW rules \in Seq(Rules), NEW log \in [DOMAIN rules -> Verdicts],
           NEW exec \in [Rules -> BOOLEAN], \A k \in DOMAIN rules : LogTells(log[k], exec[rules[k]])
    PROVE  LogTells(LogOfRules(log), \A k \in DOMAIN rules : exec[rules[k]])
<1> DEFINE failed == { k \in DOMAIN log : ~log[k].passed }
<1>1. DOMAIN log = DOMAIN rules /\ DOMAIN rules = 1 .. Len(rules) /\ Len(rules) \in Nat
  OBVIOUS
<1>2. \A k \in DOMAIN rules : rules[k] \in Rules /\ exec[rules[k]] \in BOOLEAN
  OBVIOUS
<1>3. \A k \in DOMAIN rules : k \in failed <=> ~exec[rules[k]]
  BY <1>1, <1>2 DEF LogTells
<1>4. failed \subseteq DOMAIN rules
  BY <1>1
<1>5. LogOfRules(log) = [passed |-> failed = {}, reason |-> \E k \in failed : log[k].reason /\ \A j \in failed : k <= j]
  BY DEF LogOfRules
<1> HIDE DEF failed
<1>6. (failed = {}) <=> \A k \in DOMAIN rules : exec[rules[k]]
  BY <1>3, <1>4
<1>7. ASSUME failed # {} PROVE \E k \in failed : log[k].reason /\ \A j \in failed : k <= j
  <2>1. IsFiniteSet(failed) /\ failed \subseteq Int
    <3>1. IsFiniteSet(1 .. Len(rules))
      BY <1>1, FS_Interval
    <3>2. 1 .. Len(rules) \subseteq Int
      OBVIOUS
    <3> QED
      BY <1>1, <1>4, <3>1, <3>2, FS_Subset
  <2>2. PICK k \in failed : \A j \in failed : k <= j
    BY <1>7, <2>1, LeastInteger
  <2>3. log[k].reason
    BY <1>3, <1>4 DEF LogTells
  <2> QED
    BY <2>2, <2>3
<1> DEFINE verdict == LogOfRules(log)
           all == \A k \in DOMAIN rules : exec[rules[k]]
<1>8. (verdict.passed <=> failed = {}) /\ verdict.passed \in BOOLEAN
  <2>1. verdict.passed = (failed = {})
    BY <1>5
  <2> HIDE DEF verdict
  <2>2. (failed = {}) \in BOOLEAN
    OBVIOUS
  <2> QED
    BY <2>1, <2>2
<1>9. verdict.reason <=> \E k \in failed : log[k].reason /\ \A j \in failed : k <= j
  BY <1>5
<1> HIDE DEF verdict
<1>10. verdict.passed <=> all
  BY <1>6, <1>8
<1>11. ~all => verdict.reason
  BY <1>6, <1>7, <1>9
<1> HIDE DEF all
<1>12. all \in BOOLEAN
  BY DEF all
<1>13. verdict.passed = all
  BY <1>8, <1>10, <1>12
<1> QED
  BY <1>11, <1>13 DEF LogTells, verdict, all

LEMMA LoggedTells ==
    ASSUME NEW exec \in [Rules -> BOOLEAN], NEW log \in [Rules -> Verdicts], NEW well \in [Rules -> Reliance],
           NEW now \in [Rules -> BOOLEAN], NEW rule \in Rules, NEW view,
           \A r \in Rules : well[r].logs => LogTells(log[r], exec[r]),
           now[rule] = Answered(exec, rule, view), Reliable(well, rule).logs
    PROVE  LogTells(Logged(log, now, rule), now[rule])
<1>1. CASE rule.kind = "And"
  <2>1. rule.rules \in Seq(Rules) /\ \A k \in DOMAIN rule.rules : rule.rules[k] \in Rules
    BY <1>1, RulesInRules
  <2>2. \A k \in DOMAIN rule.rules : well[rule.rules[k]].logs
    BY <1>1 DEF Reliable
  <2> DEFINE given == [ k \in DOMAIN rule.rules |-> log[rule.rules[k]] ]
  <2>3. given \in [DOMAIN rule.rules -> Verdicts]
    BY <2>1
  <2>4. \A k \in DOMAIN rule.rules : LogTells(given[k], exec[rule.rules[k]])
    BY <2>1, <2>2
  <2>5. Logged(log, now, rule) = LogOfRules(given)
    BY <1>1 DEF Logged
  <2>6. now[rule] <=> \A k \in DOMAIN rule.rules : exec[rule.rules[k]]
    BY <1>1 DEF Answered
  <2> HIDE DEF given
  <2>7. LogTells(LogOfRules(given), \A k \in DOMAIN rule.rules : exec[rule.rules[k]])
    BY <2>1, <2>3, <2>4, LogOfAll
  <2>8. now[rule] \in BOOLEAN
    OBVIOUS
  <2> QED
    BY <2>5, <2>6, <2>7, <2>8 DEF LogTells
<1>2. CASE rule.kind = "MatchTemplate"
  <2>1. rule.pattern # NoRule /\ well[rule.pattern].logs
    BY <1>2 DEF Reliable
  <2>2. rule.pattern \in Rules
    BY <1>2, <2>1, RulesInRules
  <2>3. Logged(log, now, rule) = LogOfPattern(log[rule.pattern])
    BY <1>2, <2>1 DEF Logged
  <2>4. now[rule] <=> exec[rule.pattern]
    BY <1>2, <2>1 DEF Answered
  <2>5. log[rule.pattern].passed = exec[rule.pattern] /\ exec[rule.pattern] \in BOOLEAN /\ now[rule] \in BOOLEAN
    BY <2>1, <2>2 DEF LogTells
  <2>6. LogOfPattern(log[rule.pattern]) = LogOfAnswer(log[rule.pattern].passed)
    BY DEF LogOfPattern, LogOfAnswer
  <2>7. log[rule.pattern].passed = now[rule]
    BY <2>4, <2>5
  <2> QED
    BY <2>3, <2>5, <2>6, <2>7, AnswerIsLogged
<1>3. CASE rule.kind \notin {"And", "MatchTemplate"}
  <2>1. rule.kind # "Or"
    BY DEF Reliable
  <2>2. Logged(log, now, rule) = LogOfAnswer(now[rule])
    BY <1>3, <2>1 DEF Logged
  <2> QED
    BY <2>2, AnswerIsLogged
<1> QED
  BY <1>1, <1>2, <1>3

\* A mutable stack is one copy, and a class that is of a mutable kind is mutable.
MutablesAreSingle(view) ==
    /\ CanMutate(view.item) => view.copies = 1
    /\ \A k \in DOMAIN view.item.tokens :
         Ancestors[view.item.tokens[k]] \cap MutableClasses # {} => view.item.tokens[k] \in MutableClasses

AdviceHolds(advice, item) ==
    /\ advice = "KnownMutable" => CanMutate(item)
    /\ advice = "KnownImmutable" => ~CanMutate(item)

LEMMA AdvisedHolds ==
    ASSUME NEW exec \in [Rules -> BOOLEAN], NEW known \in [Rules -> KnownStatuses],
           NEW well \in [Rules -> Reliance], NEW rule \in Rules, NEW view, MutablesAreSingle(view),
           view.item.instance,
           \A r \in Rules : well[r].advises /\ exec[r] => AdviceHolds(known[r], view.item),
           Answered(exec, rule, view), Reliable(well, rule).advises
    PROVE  AdviceHolds(Advised(known, rule), view.item)
<1>1. rule.kind \notin {"Or", "And", "Not"}
  BY DEF Reliable
<1>2. CASE rule.kind = "Mutability"
  BY <1>2 DEF Answered, Advised, AdviceHolds
<1>3. CASE rule.kind = "MatchTemplate"
  <2>1. rule.pattern # NoRule /\ exec[rule.pattern]
    BY <1>3 DEF Answered
  <2>2. well[rule.pattern].advises
    BY <1>3, <2>1 DEF Reliable
  <2>3. rule.pattern \in Rules
    BY <1>3, <2>1, RulesInRules
  <2>4. Advised(known, rule) = known[rule.pattern]
    BY <1>3, <2>1 DEF Advised
  <2> QED
    BY <2>1, <2>2, <2>3, <2>4
<1>4. CASE rule.kind = "HasTokens"
  <2>1. ~rule.references /\ MissingClasses(rule, view.item) = {}
    BY <1>4 DEF Answered, Reliable
  <2>2. \A c \in rule.classes : \E k \in DOMAIN view.item.tokens : c \in Ancestors[view.item.tokens[k]]
    BY <2>1 DEF MissingClasses
  <2>3. rule.classes \cap MutableClasses # {} => CanMutate(view.item)
    BY <2>2 DEF MutablesAreSingle, CanMutate
  <2>4. Advised(known, rule) = IF rule.classes \cap MutableClasses # {} THEN "KnownMutable" ELSE "Unknown"
    BY <1>4 DEF Advised
  <2> QED
    BY <2>3, <2>4 DEF AdviceHolds
<1>5. CASE rule.kind = "Copies"
  <2>1. Compare(rule.op, view.copies, rule.amount)
    BY <1>5 DEF Answered
  <2>2. rule.amount \in Nat \ {0} /\ rule.op \in CompareOperators
    BY <1>5, ItemFiltersAssumption
  <2>3. OnlyStacks(rule.op, rule.amount) => ~Compare(rule.op, 1, rule.amount)
    BY <2>2 DEF OnlyStacks, Compare, CompareOperators
  <2>4. Advised(known, rule) = IF OnlyStacks(rule.op, rule.amount) THEN "KnownImmutable" ELSE "Unknown"
    BY <1>5 DEF Advised
  <2> QED
    BY <2>1, <2>3, <2>4 DEF AdviceHolds, MutablesAreSingle
<1>6. CASE rule.kind = "StackLimit"
  <2>1. CompareLimit(rule.op, StackLimitOf(view.item), rule.amount)
    BY <1>6 DEF Answered
  <2>2. rule.amount \in Nat \ {0} /\ rule.op \in LimitOperators
    BY <1>6, ItemFiltersAssumption
  <2>3. OnlyStacks(rule.op, rule.amount) \/ rule.op = "HasNoLimit" => ~CompareLimit(rule.op, 1, rule.amount)
    BY <2>2 DEF OnlyStacks, Compare, CompareLimit, CompareOperators, LimitOperators, NoLimit
  <2>4. Advised(known, rule) =
          IF OnlyStacks(rule.op, rule.amount) \/ rule.op = "HasNoLimit" THEN "KnownImmutable" ELSE "Unknown"
    BY <1>6 DEF Advised
  <2>5. CanMutate(view.item) => StackLimitOf(view.item) = 1
    BY DEF StackLimitOf
  <2> QED
    BY <2>1, <2>3, <2>4, <2>5 DEF AdviceHolds
<1>7. CASE rule.kind \notin {"Or", "And", "Not", "Mutability", "MatchTemplate", "HasTokens", "Copies", "StackLimit"}
  BY <1>7 DEF Advised, AdviceHolds
<1> QED
  BY <1>1, <1>2, <1>3, <1>4, <1>5, <1>6, <1>7

\* At every level.
LEMMA AdviceAtLevels ==
    ASSUME NEW view, NEW rule \in Rules
    PROVE  /\ LogsWell(rule) => LogTells(ExecWithLog(rule, view), Exec(rule, view))
           /\ MutablesAreSingle(view) /\ view.item.instance /\ AdvisesWell(rule) /\ Exec(rule, view)
              => AdviceHolds(MutabilityStatus(rule), view.item)
<1> DEFINE N == RuleDepth
           E == Execs(view)
           L == Logs(view)
           S == Statuses
           W == Reliables
           trusted == MutablesAreSingle(view) /\ view.item.instance
           Good(d) ==
             \A r \in Rules :
               /\ W[d][r].logs => LogTells(L[d][r], E[d][r])
               /\ trusted /\ W[d][r].advises /\ E[d][r] => AdviceHolds(S[d][r], view.item)
           Kept == { d \in 0 .. N : Good(d) }
<1>1. N \in Nat
  BY ItemFiltersAssumption
<1>2. \A d \in 0 .. N : /\ E[d] \in [Rules -> BOOLEAN] /\ L[d] \in [Rules -> Verdicts]
                        /\ S[d] \in [Rules -> KnownStatuses] /\ W[d] \in [Rules -> Reliance]
  BY ExecsAre, LogsAre, StatusesAre, ReliancesAre
<1>3. Good(0)
  <2> SUFFICES ASSUME NEW r \in Rules
               PROVE LogTells(L[0][r], E[0][r]) /\ ~E[0][r]
    OBVIOUS
  <2>1. E[0][r] = FALSE
    BY ExecsAre
  <2>2. L[0][r] = LogOfAnswer(FALSE)
    BY LogsAre
  <2> QED
    BY <2>1, <2>2, AnswerIsLogged
<1>4. ASSUME NEW d \in 1 .. N, Good(d - 1) PROVE Good(d)
  <2>1. d - 1 \in 0 .. N /\ d \in 0 .. N
    BY <1>1
  <2>2. E[d] = [ r \in Rules |-> Answered(E[d - 1], r, view) ]
    BY ExecsAre
  <2>3. L[d] = [ r \in Rules |-> Logged(L[d - 1], E[d], r) ]
    BY LogsAre
  <2>4. S[d] = [ r \in Rules |-> Advised(S[d - 1], r) ]
    BY StatusesAre
  <2>5. W[d] = [ r \in Rules |-> Reliable(W[d - 1], r) ]
    BY ReliancesAre
  <2> HIDE DEF E, L, S, W
  <2> SUFFICES ASSUME NEW r \in Rules
               PROVE /\ W[d][r].logs => LogTells(L[d][r], E[d][r])
                     /\ trusted /\ W[d][r].advises /\ E[d][r] => AdviceHolds(S[d][r], view.item)
    OBVIOUS
  <2>6. /\ E[d][r] = Answered(E[d - 1], r, view) /\ L[d][r] = Logged(L[d - 1], E[d], r)
        /\ S[d][r] = Advised(S[d - 1], r) /\ W[d][r] = Reliable(W[d - 1], r)
    BY <2>2, <2>3, <2>4, <2>5
  <2>7. W[d][r].logs => LogTells(L[d][r], E[d][r])
    <3> SUFFICES ASSUME W[d][r].logs PROVE LogTells(L[d][r], E[d][r])
      OBVIOUS
    <3>1. \A q \in Rules : W[d - 1][q].logs => LogTells(L[d - 1][q], E[d - 1][q])
      BY <1>4
    <3>2. Reliable(W[d - 1], r).logs
      BY <2>6
    <3>3. LogTells(Logged(L[d - 1], E[d], r), E[d][r])
      BY <1>2, <2>1, <2>6, <3>1, <3>2, LoggedTells
    <3> QED
      BY <2>6, <3>3
  <2>8. trusted /\ W[d][r].advises /\ E[d][r] => AdviceHolds(S[d][r], view.item)
    <3> SUFFICES ASSUME trusted, W[d][r].advises, E[d][r] PROVE AdviceHolds(S[d][r], view.item)
      OBVIOUS
    <3>1. \A q \in Rules : W[d - 1][q].advises /\ E[d - 1][q] => AdviceHolds(S[d - 1][q], view.item)
      BY <1>4
    <3>2. Answered(E[d - 1], r, view) /\ Reliable(W[d - 1], r).advises
      BY <2>6
    <3>3. AdviceHolds(Advised(S[d - 1], r), view.item)
      BY <1>2, <2>1, <3>1, <3>2, AdvisedHolds
    <3> QED
      BY <2>6, <3>3
  <2> QED
    BY <2>7, <2>8
<1>5. N \in Kept
  <2> HIDE DEF Good, N
  <2>1. 0 \in Kept
    BY <1>1, <1>3
  <2>2. \A k \in 1 .. N : k - 1 \in Kept => k \in Kept
    BY <1>1, <1>4
  <2> HIDE DEF Kept
  <2> QED
    BY <1>1, <2>1, <2>2, LoopInduction
<1> QED
  BY <1>5 DEF LogsWell, AdvisesWell, ExecWithLog, Exec, MutabilityStatus

-----------------------------------------------------------------------------
(* Whoever asks.                                                            *)

FilterViewsAreSingle ==
    /\ \A view \in SomeViews : MutablesAreSingle(view)
    /\ \A views \in SomeBatches : \A k \in DOMAIN views : MutablesAreSingle(views[k])

\* What is known of the last question.
FilterInv ==
    asked.rule # NoRule =>
      /\ asked.rule \in Rules /\ MutablesAreSingle(asked.view)
      /\ passed = Exec(asked.rule, asked.view)
      /\ logged = ExecWithLog(asked.rule, asked.view)
      /\ status = MutabilityStatus(asked.rule)

LEMMA AnswersToFilters ==
    ASSUME NEW rule \in Rules, NEW view PROVE Exec(rule, view) \in BOOLEAN
<1>1. RuleDepth \in 0 .. RuleDepth
  BY ItemFiltersAssumption
<1>2. Execs(view)[RuleDepth] \in [Rules -> BOOLEAN]
  BY <1>1, ExecsAre
<1> QED
  BY <1>2 DEF Exec

LEMMA BatchesAre ==
    ASSUME NEW views \in SomeBatches
    PROVE  /\ DOMAIN views = 1 .. Len(views) /\ Len(views) \in Nat /\ Len(views) \in DOMAIN views
           /\ DOMAIN views \subseteq Int /\ IsFiniteSet(DOMAIN views) /\ 0 \notin DOMAIN views
<1>1. views # <<>> /\ views \in Seq({ views[k] : k \in DOMAIN views })
  BY ItemFiltersAssumption
<1>2. DOMAIN views = 1 .. Len(views) /\ Len(views) \in Nat
  BY <1>1
<1>3. Len(views) # 0
  BY <1>1
<1>4. IsFiniteSet(1 .. Len(views))
  BY <1>2, FS_Interval
<1> QED
  BY <1>2, <1>3, <1>4

\* What is asked is a view of the batch; of an addition, the first that fails
\* or, if none does, the last.
LEMMA AdditionsAsk ==
    ASSUME NEW rule \in Rules, NEW views \in SomeBatches, AskAddition(rule, views)
    PROVE  \E k \in DOMAIN views : Answer(rule, views[k], Exec(rule, views[k]))
<1> DEFINE failing == { k \in DOMAIN views : ~Exec(rule, views[k]) }
           k == IF failing = {} THEN 0 ELSE CHOOSE i \in failing : \A j \in failing : i <= j
<1>1. First(views, LAMBDA view : ~Exec(rule, view)) = k
  BY DEF First
<1>2. rule # NoRule
  BY ItemFiltersAssumption
<1>3. CASE failing = {}
  <2>1. k = 0 /\ Exec(rule, views[Len(views)]) = TRUE
    BY <1>3, BatchesAre, AnswersToFilters
  <2>2. AllowsAddition(rule, views) = "Allowed"
    BY <1>2, <1>3 DEF AllowsAddition
  <2>3. Answer(rule, views[Len(views)], AllowsAddition(rule, views) = "Allowed")
    BY <1>1, <2>1 DEF AskAddition
  <2> QED
    BY <2>1, <2>2, <2>3, BatchesAre DEF Answer
<1>4. CASE failing # {}
  <2>1. k \in failing
    <3> HIDE DEF failing
    <3>1. failing \subseteq DOMAIN views
      BY DEF failing
    <3>2. IsFiniteSet(failing) /\ failing \subseteq Int
      BY <3>1, BatchesAre, FS_Subset
    <3>3. \E i \in failing : \A j \in failing : i <= j
      BY <1>4, <3>2, LeastInteger
    <3> QED
      BY <1>4, <3>3
  <2>2. k # 0 /\ k \in DOMAIN views
    BY <2>1, BatchesAre
  <2>3. Exec(rule, views[k]) = FALSE
    BY <2>1, AnswersToFilters
  <2>4. AllowsAddition(rule, views) # "Allowed"
    BY <1>2, <1>4 DEF AllowsAddition
  <2>5. Answer(rule, views[k], AllowsAddition(rule, views) = "Allowed")
    BY <1>1, <2>2 DEF AskAddition
  <2> HIDE DEF k
  <2> QED
    BY <2>2, <2>3, <2>4, <2>5 DEF Answer
<1> QED
  BY <1>3, <1>4

LEMMA QueriesAsk ==
    ASSUME NEW rule \in Rules, NEW slots \in SomeBatches, NEW inverted \in BOOLEAN,
           AskSlots(rule, slots, inverted)
    PROVE  \E k \in DOMAIN slots : Answer(rule, slots[k], Exec(rule, slots[k]))
<1> DEFINE passing == { k \in DOMAIN slots : slots[k] # NoRule /\ Exec(rule, slots[k]) # inverted }
           k == IF passing = {} THEN 0 ELSE CHOOSE i \in passing : \A j \in passing : i <= j
<1>1. EquipmentQuery(slots, rule, inverted) = k
  BY DEF First, EquipmentQuery
<1>2. k # 0 /\ Answer(rule, slots[k], ~inverted)
  BY <1>1 DEF AskSlots
<1>3. k \in passing
  <2> HIDE DEF passing
  <2>1. passing \subseteq DOMAIN slots
    BY DEF passing
  <2>2. IsFiniteSet(passing) /\ passing \subseteq Int
    BY <2>1, BatchesAre, FS_Subset
  <2>3. passing # {}
    BY <1>2
  <2>4. \E i \in passing : \A j \in passing : i <= j
    BY <2>2, <2>3, LeastInteger
  <2> QED
    BY <2>3, <2>4
<1> HIDE DEF k
<1>4. Exec(rule, slots[k]) = ~inverted
  BY <1>3, AnswersToFilters
<1> QED
  BY <1>2, <1>3, <1>4 DEF Answer

LEMMA AnswersKeep ==
    ASSUME NEW rule \in Rules, NEW view, MutablesAreSingle(view), Answer(rule, view, Exec(rule, view))
    PROVE  FilterInv'
<1>1. asked' = [rule |-> rule, view |-> view]
  BY DEF Answer
<1>2. asked'.rule = rule /\ asked'.view = view
  BY <1>1
<1> QED
  BY <1>2 DEF Answer, FilterInv

\* For any rules, however they nest, and whoever asks: the log of a rule agrees
\* with its answer and names a reason for a refusal, and what it advises of
\* mutability is true of the items that pass, of all rules but those that are
\* known to be wrong.  (As long as a mutable stack is one copy, and no class
\* is less mutable than one it descends from.)
THEOREM AdviceAlwaysTrue == FilterViewsAreSingle => (FilterSpec => []AdviceIsTrue)
<1> SUFFICES ASSUME FilterViewsAreSingle PROVE FilterSpec => []AdviceIsTrue
  OBVIOUS
<1>1. FilterInit => FilterInv
  BY DEF FilterInit, FilterInv
<1>2. FilterInv /\ [FilterNext]_filterVars => FilterInv'
  <2> SUFFICES ASSUME FilterInv, [FilterNext]_filterVars PROVE FilterInv'
    OBVIOUS
  <2>1. ASSUME NEW rule \in Rules, NEW view \in SomeViews, Ask(rule, view) PROVE FilterInv'
    BY <2>1, AnswersKeep DEF Ask, FilterViewsAreSingle
  <2>2. ASSUME NEW rule \in Rules, NEW views \in SomeBatches, NEW k \in DOMAIN views,
               Answer(rule, views[k], Exec(rule, views[k]))
        PROVE  FilterInv'
    BY <2>2, AnswersKeep DEF FilterViewsAreSingle
  <2>3. ASSUME NEW rule \in Rules, NEW views \in SomeBatches, AskAddition(rule, views) PROVE FilterInv'
    BY <2>2, <2>3, AdditionsAsk
  <2>4. ASSUME NEW rule \in Rules, NEW views \in SomeBatches, NEW inverted \in BOOLEAN,
               AskSlots(rule, views, inverted)
        PROVE  FilterInv'
    BY <2>2, <2>4, QueriesAsk
  <2>5. CASE UNCHANGED filterVars
    BY <2>5 DEF filterVars, FilterInv
  <2> QED
    BY <2>1, <2>3, <2>4, <2>5 DEF FilterNext
<1>3. FilterInv => AdviceIsTrue
  <2> SUFFICES ASSUME FilterInv, asked.rule # NoRule PROVE AdviceIsTrue
    BY DEF AdviceIsTrue
  <2>1. /\ asked.rule \in Rules /\ MutablesAreSingle(asked.view)
        /\ passed = Exec(asked.rule, asked.view)
        /\ logged = ExecWithLog(asked.rule, asked.view)
        /\ status = MutabilityStatus(asked.rule)
    BY DEF FilterInv
  <2>2. LogsWell(asked.rule) => LogTells(logged, passed)
    BY <2>1, AdviceAtLevels
  <2>3. asked.view.item.instance /\ AdvisesWell(asked.rule) /\ passed => AdviceHolds(status, asked.view.item)
    BY <2>1, AdviceAtLevels
  <2> QED
    BY <2>2, <2>3 DEF AdviceIsTrue, LogTells, AdviceHolds
<1> QED
  BY <1>1, <1>2, <1>3, PTL DEF FilterSpec
=============================================================================
