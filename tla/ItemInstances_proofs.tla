------------------------ MODULE ItemInstances_proofs ------------------------
(***************************************************************************)
(* Proofs about items and their tokens: items that cannot mutate never      *)
(* change, owners keep track of what they own, and the comparison by hashes *)
(* is one of equality.  Then about the actors that own an item, which show   *)
(* it as it is, about the queue of ejected stacks, and about containers in   *)
(* items in containers, which form trees.                                   *)
(***************************************************************************)
EXTENDS ItemInstances, ItemPickups, EjectionQueue, NestedContainers, FiniteSetTheorems, WellFoundedInduction, TLAPS

-----------------------------------------------------------------------------
(* Counting the members of a set of numbers from below and from above.      *)

UpTo(S, k) == {j \in S : j <= k}
From(S, k) == {j \in S : j >= k}

\* Finitely many numbers, each of them positive.
IsPlaces(S) == IsFiniteSet(S) /\ S \subseteq Nat \ {0}

\* The numbers up to k are finitely many, and k is one more than those below.
LEMMA UpToSteps ==
    ASSUME NEW S, IsPlaces(S), NEW k \in Nat
    PROVE  /\ IsFiniteSet(UpTo(S, k)) /\ Cardinality(UpTo(S, k)) \in 0..Cardinality(S)
           /\ Cardinality(UpTo(S, k + 1)) =
                 Cardinality(UpTo(S, k)) + (IF k + 1 \in S THEN 1 ELSE 0)
<1> DEFINE below == UpTo(S, k)
           more == UpTo(S, k + 1)
<1>1. S \subseteq Nat \ {0} /\ IsFiniteSet(S)
  BY DEF IsPlaces
<1>2. below \subseteq S /\ more \subseteq S
  BY DEF UpTo
<1>3. IsFiniteSet(below) /\ Cardinality(below) <= Cardinality(S)
  BY <1>1, <1>2, FS_Subset
<1>4. Cardinality(below) \in Nat /\ Cardinality(S) \in Nat
  BY <1>1, <1>3, FS_CardinalityType
<1>5. CASE k + 1 \in S
  <2>1. more = below \cup {k + 1}
    <3>1. ASSUME NEW j \in S PROVE j <= k + 1 <=> j <= k \/ j = k + 1
      BY <1>1
    <3>2. ASSUME NEW j PROVE j \in more <=> j \in below \/ j = k + 1
      <4>1. (j \in more <=> j \in S /\ j <= k + 1) /\ (j \in below <=> j \in S /\ j <= k)
        BY DEF UpTo
      <4> HIDE DEF more, below
      <4> QED
        BY <1>5, <3>1, <4>1
    <3> HIDE DEF more, below
    <3> QED
      BY <3>2
  <2>3. k + 1 \notin below
    BY DEF UpTo
  <2> HIDE DEF more, below
  <2>2. Cardinality(more) = Cardinality(below) + 1
    BY <1>3, <2>1, <2>3, FS_AddElement
  <2> QED
    BY <1>3, <1>4, <1>5, <2>2 DEF more, below
<1>6. CASE k + 1 \notin S
  <2>1. more = below
    <3>1. ASSUME NEW j \in S PROVE j <= k + 1 <=> j <= k
      BY <1>1, <1>6
    <3>2. ASSUME NEW j PROVE j \in more <=> j \in below
      <4>1. (j \in more <=> j \in S /\ j <= k + 1) /\ (j \in below <=> j \in S /\ j <= k)
        BY DEF UpTo
      <4> HIDE DEF more, below
      <4> QED
        BY <3>1, <4>1
    <3> HIDE DEF more, below
    <3> QED
      BY <3>2
  <2> QED
    BY <1>3, <1>4, <1>6, <2>1
<1> QED
  BY <1>5, <1>6

\* The more the further.
LEMMA UpToGrows ==
    ASSUME NEW S, IsPlaces(S), NEW k \in S, NEW l \in Nat, l < k
    PROVE  Cardinality(UpTo(S, l)) < Cardinality(UpTo(S, k))
<1> DEFINE below == UpTo(S, l)
           more == UpTo(S, k)
<1>1. S \subseteq Nat \ {0} /\ IsFiniteSet(S)
  BY DEF IsPlaces
<1>2. below \subseteq more /\ more \subseteq S /\ k \in more \ below
  <2>1. ASSUME NEW j \in S, j <= l PROVE j <= k
    BY <1>1, <2>1
  <2>2. below \subseteq more
    BY <2>1 DEF UpTo
  <2>3. k \in Nat /\ k <= k /\ ~(k <= l)
    BY <1>1
  <2> QED
    BY <2>2, <2>3 DEF UpTo
<1>3. IsFiniteSet(more)
  BY <1>1, <1>2, FS_Subset
<1> HIDE DEF below, more
<1>4. below \subseteq more \ {k} /\ IsFiniteSet(more \ {k})
  BY <1>2, <1>3, FS_RemoveElement
<1>5. Cardinality(more \ {k}) = Cardinality(more) - 1
  BY <1>2, <1>3, FS_RemoveElement
<1>6. IsFiniteSet(below) /\ Cardinality(below) <= Cardinality(more \ {k})
  BY <1>4, FS_Subset
<1>7. Cardinality(below) \in Nat /\ Cardinality(more) \in Nat
  BY <1>3, <1>6, FS_CardinalityType
<1> QED
  BY <1>5, <1>6, <1>7 DEF below, more

\* Counts never shrink.
LEMMA UpToMonotone ==
    ASSUME NEW S, IsPlaces(S), NEW k \in Nat, NEW l \in Nat, k <= l
    PROVE  Cardinality(UpTo(S, k)) <= Cardinality(UpTo(S, l))
<1>1. S \subseteq Nat \ {0} /\ IsFiniteSet(S)
  BY DEF IsPlaces
<1>2. UpTo(S, k) \subseteq UpTo(S, l) /\ UpTo(S, l) \subseteq S
  <2>1. ASSUME NEW j \in S, j <= k PROVE j <= l
    BY <1>1, <2>1
  <2> QED
    BY <2>1 DEF UpTo
<1>3. IsFiniteSet(UpTo(S, l))
  BY <1>1, <1>2, FS_Subset
<1> QED
  BY <1>2, <1>3, FS_Subset

\* Each place in the count is that of one of the numbers, and of one only.
LEMMA UpToReaches ==
    ASSUME NEW S, IsPlaces(S)
    PROVE  /\ \A k \in S : Cardinality(UpTo(S, k)) \in 1..Cardinality(S)
           /\ \A k, l \in S : Cardinality(UpTo(S, k)) = Cardinality(UpTo(S, l)) => k = l
           /\ \A n \in 1..Cardinality(S) : \E k \in S : Cardinality(UpTo(S, k)) = n
<1> DEFINE C(k) == Cardinality(UpTo(S, k))
           N == Cardinality(S)
           f == [k \in S |-> C(k)]
<1>1. S \subseteq Nat \ {0} /\ IsFiniteSet(S) /\ N \in Nat
  BY FS_CardinalityType DEF IsPlaces
<1>2. ASSUME NEW k \in S PROVE C(k) \in 1..N
  <2>1. k \in Nat /\ k - 1 \in Nat /\ k - 1 < k /\ k \in Nat
    BY <1>1
  <2>2. C(k) \in 0..N /\ C(k - 1) \in 0..N
    BY <2>1, UpToSteps
  <2>3. C(k - 1) < C(k)
    BY <2>1, UpToGrows
  <2> HIDE DEF C
  <2> QED
    BY <1>1, <2>2, <2>3
<1>3. ASSUME NEW k \in S, NEW l \in S, C(k) = C(l) PROVE k = l
  <2>1. k \in Nat /\ l \in Nat /\ C(k) \in Nat
    BY <1>1, <1>2
  <2>2. ~(l < k) /\ ~(k < l)
    <3>1. l < k => C(l) < C(k)
      BY <2>1, UpToGrows
    <3>2. k < l => C(k) < C(l)
      BY <2>1, UpToGrows
    <3> HIDE DEF C
    <3> QED
      BY <1>3, <2>1, <3>1, <3>2
  <2> QED
    BY <2>1, <2>2
<1> HIDE DEF C, N
<1>4. f \in Injection(S, 1..N)
  <2>1. f \in [S -> 1..N]
    BY <1>2
  <2>2. \A k, l \in S : f[k] = f[l] => k = l
    BY <1>3
  <2> HIDE DEF f
  <2> QED
    BY <2>1, <2>2 DEF Injection, IsInjective
<1>5. IsFiniteSet(1..N) /\ Cardinality(1..N) = N
  BY <1>1, FS_Interval
<1>6. f \in Surjection(S, 1..N)
  BY <1>4, <1>5, FS_Injection DEF N
<1>7. \A n \in 1..N : \E k \in S : f[k] = n
  <2> HIDE DEF f
  <2> QED
    BY <1>6 DEF Surjection
<1>8. ASSUME NEW n \in 1..N PROVE \E k \in S : C(k) = n
  BY <1>7
<1> QED
  BY <1>2, <1>3, <1>8 DEF C, N

\* So it is from above: there the last comes first.
LEMMA FromReaches ==
    ASSUME NEW S, IsPlaces(S)
    PROVE  /\ \A k \in S : Cardinality(From(S, k)) = Cardinality(S) + 1 - Cardinality(UpTo(S, k))
           /\ \A k, l \in S : Cardinality(From(S, k)) = Cardinality(From(S, l)) => k = l
           /\ \A n \in 1..Cardinality(S) : \E k \in S : Cardinality(From(S, k)) = n
<1> DEFINE C(k) == Cardinality(UpTo(S, k))
           D(k) == Cardinality(From(S, k))
           N == Cardinality(S)
<1>1. S \subseteq Nat \ {0} /\ IsFiniteSet(S) /\ N \in Nat
  BY FS_CardinalityType DEF IsPlaces
<1>2. ASSUME NEW k \in S PROVE D(k) = N + 1 - C(k)
  <2> DEFINE below == UpTo(S, k)
             above == From(S, k)
  <2>1. S = (below \ {k}) \cup above /\ (below \ {k}) \cap above = {} /\ k \in below
    <3>1. \A j \in S : (j <= k \/ j >= k) /\ (j <= k /\ j >= k <=> j = k)
      BY <1>1
    <3>2. ASSUME NEW j
          PROVE  (j \in below <=> j \in S /\ j <= k) /\ (j \in above <=> j \in S /\ j >= k)
      BY DEF UpTo, From
    <3> HIDE DEF below, above
    <3>3. \A j : j \in S <=> j \in (below \ {k}) \cup above
      BY <3>1, <3>2
    <3>4. \A j : j \notin (below \ {k}) \cap above
      BY <3>1, <3>2
    <3>5. k \in below
      BY <3>1, <3>2
    <3> QED
      BY <3>3, <3>4, <3>5
  <2>2. IsFiniteSet(below) /\ IsFiniteSet(above)
    <3>1. below \subseteq S /\ above \subseteq S
      BY DEF UpTo, From
    <3> HIDE DEF below, above
    <3> QED
      BY <1>1, <3>1, FS_Subset
  <2> HIDE DEF below, above
  <2>3. IsFiniteSet(below \ {k}) /\ Cardinality(below \ {k}) = Cardinality(below) - 1
    BY <2>1, <2>2, FS_RemoveElement
  <2>4. Cardinality(S) = Cardinality(below \ {k}) + Cardinality(above) - Cardinality((below \ {k}) \cap above)
    BY <2>1, <2>2, <2>3, FS_Union
  <2>5. Cardinality((below \ {k}) \cap above) = 0
    BY <2>1, FS_EmptySet
  <2>6. Cardinality(below) \in Nat /\ Cardinality(above) \in Nat
    BY <2>2, FS_CardinalityType
  <2> QED
    BY <1>1, <2>3, <2>4, <2>5, <2>6 DEF below, above
<1>3. /\ \A k \in S : C(k) \in 1..N
      /\ \A k, l \in S : C(k) = C(l) => k = l
      /\ \A n \in 1..N : \E k \in S : C(k) = n
  BY UpToReaches
<1> HIDE DEF C, D, N
<1>4. \A k \in S : D(k) \in 1..N
  BY <1>1, <1>2, <1>3
<1>5. \A k, l \in S : D(k) = D(l) => k = l
  BY <1>1, <1>2, <1>3
<1>6. ASSUME NEW n \in 1..N PROVE \E k \in S : D(k) = n
  <2>1. N + 1 - n \in 1..N
    BY <1>1
  <2>2. PICK k \in S : C(k) = N + 1 - n
    BY <1>3, <2>1
  <2> QED
    BY <1>1, <1>2, <2>2
<1> QED
  BY <1>2, <1>5, <1>6 DEF C, D, N

-----------------------------------------------------------------------------
(* The inductive invariant.                                                 *)

Token == [class : Classes, data : Data, outer : Nat]
SomeItem == [flags : SUBSET Flags, tokens : Seq(Nat)]
Shown == Seq([class : Classes, data : Data])

Typed ==
    /\ token \in Seq(Token) /\ item \in Seq(SomeItem)
    /\ seen \in Seq(Shown) /\ Len(seen) = Len(item)
    /\ registered \subseteq DOMAIN token

\* A list of tokens that exist, each there once.
IsListed(list, toks) ==
    /\ list \in Seq(DOMAIN toks)
    /\ \A k, l \in DOMAIN list : list[k] = list[l] => k = l
Listed == \A i \in DOMAIN item : IsListed(item[i].tokens, token)

OutersExist == \A t \in DOMAIN token : token[t].outer <= Len(item)

\* The item that holds a mutable token is its outer.
HoldersOwn ==
    \A i \in DOMAIN item, t \in DOMAIN token :
       Holds(item[i], t) /\ IsMutable(t) => token[t].outer = i

OwnedCanMutate == owned \subseteq Editable

\* ReplicatesOwnedTokens, one token at a time.
Replicates ==
    \A t \in DOMAIN token :
       IsMutable(t) => (t \in registered <=> \E i \in owned : Holds(item[i], t))

Sound ==
    /\ Typed /\ Listed /\ OutersExist /\ HoldersOwn /\ OwnedCanMutate
    /\ OwnerSeesEveryChange
    /\ ~halted => Replicates

\* A step changes nothing of what cannot mutate.
Frozen ==
    \A i \in DOMAIN item :
       ~CanMutate(item[i]) => /\ item'[i] = item[i]
                              /\ Content(token', item'[i]) = Content(token, item[i])

\* A step changes of what cannot mutate at most a mutable token of its own.
OwnEdits ==
    \A i \in DOMAIN item : ~CanMutate(item[i]) =>
       /\ item'[i] = item[i]
       /\ \A t \in DOMAIN token : Holds(item[i], t) /\ Tells(token'[t]) # Tells(token[t]) =>
            /\ IsDataMutable(item[i]) /\ IsMutable(t)
            /\ \A j \in DOMAIN item : Holds(item[j], t) => j = i

LEMMA FrozenIsOwn == Frozen => OwnEdits
<1> SUFFICES ASSUME Frozen, NEW i \in DOMAIN item, ~CanMutate(item[i]),
                    NEW t \in DOMAIN token, Holds(item[i], t)
             PROVE  item'[i] = item[i] /\ Tells(token'[t]) = Tells(token[t])
  BY DEF OwnEdits, Frozen
<1>1. item'[i] = item[i] /\ Content(token', item[i]) = Content(token, item[i])
  BY DEF Frozen
<1>2. PICK k \in DOMAIN item[i].tokens : item[i].tokens[k] = t
  BY DEF Holds
<1>3. Content(token', item[i])[k] = Tells(token'[t]) /\ Content(token, item[i])[k] = Tells(token[t])
  BY <1>2 DEF Content
<1> QED
  BY <1>1, <1>3

LEMMA SoundOwnersKeepTrack ==
    Sound => OwnersKeepTrack
<1> SUFFICES ASSUME Sound PROVE OwnersKeepTrack
  OBVIOUS
<1>1. registered \subseteq DOMAIN token
  BY DEF Sound, Typed
<1>2. ASSUME ~halted
      PROVE  { t \in registered : IsMutable(t) } =
             { t \in DOMAIN token : IsMutable(t) /\ \E i \in owned : Holds(item[i], t) }
  <2>1. Replicates
    BY <1>2 DEF Sound
  <2> QED
    BY <1>1, <2>1 DEF Replicates
<1> QED
  BY <1>2 DEF Sound, OwnersKeepTrack, ReplicatesOwnedTokens

-----------------------------------------------------------------------------
(* What steps do to tokens and to what is shown of them.                    *)

\* No token says another thing, and a mutable one changes its outer only if it
\* had none; the outer of others becomes item i.
Follows(toks, i) ==
    /\ toks \in Seq(Token) /\ Len(token) <= Len(toks)
    /\ \A t \in DOMAIN token :
          /\ toks[t].class = token[t].class /\ toks[t].data = token[t].data
          /\ \/ toks[t].outer = token[t].outer
             \/ toks[t].outer = i /\ (IsMutable(t) => token[t].outer = Transient)

\* Tokens that say the same show the same.
LEMMA SameContent ==
    ASSUME NEW toks, NEW others, NEW it, NEW that, that.tokens = it.tokens,
           \A k \in DOMAIN it.tokens :
              /\ others[it.tokens[k]].class = toks[it.tokens[k]].class
              /\ others[it.tokens[k]].data = toks[it.tokens[k]].data
    PROVE  Content(others, that) = Content(toks, it)
BY DEF Content, Tells

\* What is shown has the type of what is shown.
LEMMA ContentType ==
    ASSUME NEW toks \in Seq(Token), NEW it, IsListed(it.tokens, toks)
    PROVE  Content(toks, it) \in Shown
<1>1. it.tokens \in Seq(DOMAIN toks)
  BY DEF IsListed
<1>2. PICK n \in Nat : DOMAIN it.tokens = 1..n
  BY <1>1
<1>3. ASSUME NEW k \in DOMAIN it.tokens
      PROVE  Tells(toks[it.tokens[k]]) \in [class : Classes, data : Data]
  <2>1. it.tokens[k] \in DOMAIN toks
    BY <1>1
  <2>2. toks[it.tokens[k]] \in Token
    BY <2>1
  <2> QED
    BY <2>2 DEF Token, Tells
<1> QED
  BY <1>2, <1>3 DEF Content, Shown

LEMMA FollowingContent ==
    ASSUME Sound, NEW toks, NEW i, Follows(toks, i), NEW j \in DOMAIN item,
           NEW that, that.tokens = item[j].tokens
    PROVE  Content(toks, that) = Content(token, item[j])
<1>1. \A k \in DOMAIN item[j].tokens : item[j].tokens[k] \in DOMAIN token
  BY DEF Sound, Listed, IsListed
<1> QED
  BY <1>1, SameContent DEF Follows

\* A mutable token that an item holds keeps its outer.
LEMMA FollowingOuters ==
    ASSUME Sound, NEW toks, NEW i, Follows(toks, i), NEW j \in DOMAIN item,
           NEW t \in DOMAIN token, Holds(item[j], t), IsMutable(t)
    PROVE  toks[t].outer = j
<1>1. token[t].outer = j
  BY DEF Sound, HoldersOwn
<1>2. j # Transient
  BY DEF Transient, Sound, Typed
<1> QED
  BY <1>1, <1>2 DEF Follows

\* Lists of existing tokens stay so when tokens are added.
LEMMA ListedStays ==
    ASSUME NEW toks, NEW more, NEW list, IsListed(list, toks), DOMAIN toks \subseteq DOMAIN more
    PROVE  IsListed(list, more)
BY DEF IsListed

LEMMA AppendIs ==
    ASSUME NEW S, NEW s \in Seq(S), NEW e \in S
    PROVE  /\ Append(s, e) \in Seq(S) /\ Len(Append(s, e)) = Len(s) + 1
           /\ DOMAIN Append(s, e) = DOMAIN s \cup {Len(s) + 1}
           /\ \A k \in DOMAIN s : Append(s, e)[k] = s[k]
           /\ Append(s, e)[Len(s) + 1] = e
OBVIOUS

\* A new item keeps the tokens it is given.
LEMMA CachedIs ==
    ASSUME NEW toks, NEW it \in SomeItem
    PROVE  /\ CacheTokenMutability(toks, it) \in SomeItem
           /\ CacheTokenMutability(toks, it).tokens = it.tokens
BY DEF CacheTokenMutability, SomeItem, Flags

-----------------------------------------------------------------------------
(* Items that are made.                                                     *)

\* Tokens follow so that an item can be made of them.
Makes(toks, it) ==
    /\ Follows(toks, Len(item) + 1)
    /\ \A t \in DOMAIN toks : toks[t].outer <= Len(item) + 1
    /\ it \in SomeItem /\ IsListed(it.tokens, toks)
    /\ \A t \in DOMAIN toks :
          Holds(it, t) /\ toks[t].class \in MutableClasses => toks[t].outer = Len(item) + 1

LEMMA CreateKeeps ==
    ASSUME Sound, ~halted, NEW toks, NEW it, Makes(toks, it), Create(toks, it)
    PROVE  Sound' /\ Frozen
<1> DEFINE new == CacheTokenMutability(toks, it)
           n == Len(item) + 1
<1>1. token' = toks /\ item' = Append(item, new) /\ seen' = Append(seen, <<>>)
      /\ UNCHANGED <<owned, registered, halted>>
  BY DEF Create
<1>2. new \in SomeItem /\ new.tokens = it.tokens
  BY CachedIs DEF Makes
<1> HIDE DEF new
<1>3. token \in Seq(Token) /\ item \in Seq(SomeItem) /\ Len(seen) = Len(item)
      /\ seen \in Seq(Shown) /\ registered \subseteq DOMAIN token
  BY DEF Sound, Typed
<1>4. toks \in Seq(Token) /\ Len(token) <= Len(toks) /\ DOMAIN token \subseteq DOMAIN toks
  BY <1>3 DEF Makes, Follows
<1>5. /\ item' \in Seq(SomeItem) /\ Len(item') = n /\ DOMAIN item' = DOMAIN item \cup {n}
      /\ \A i \in DOMAIN item : item'[i] = item[i]
      /\ item'[n] = new
  BY <1>1, <1>2, <1>3, AppendIs
<1>6. /\ seen' \in Seq(Shown) /\ Len(seen') = n
      /\ \A i \in DOMAIN item : seen'[i] = seen[i]
  <2>1. <<>> \in Shown
    BY DEF Shown
  <2>2. DOMAIN seen = DOMAIN item
    BY <1>3
  <2> QED
    BY <1>1, <1>3, <2>1, <2>2, AppendIs
<1>7. owned \subseteq DOMAIN item /\ n \notin DOMAIN item
  BY <1>3 DEF Sound, OwnedCanMutate, Editable
<1>8. \A t \in DOMAIN token : IsMutable(t)' = IsMutable(t)
  BY <1>1, <1>4 DEF IsMutable, Makes, Follows
<1>9. Typed'
  BY <1>1, <1>3, <1>4, <1>5, <1>6 DEF Typed
<1>10. Listed'
  <2>1. ASSUME NEW i \in DOMAIN item PROVE IsListed(item'[i].tokens, token')
    BY <1>1, <1>4, <1>5, ListedStays DEF Sound, Listed
  <2>2. IsListed(item'[n].tokens, token')
    BY <1>1, <1>2, <1>5 DEF Makes
  <2> QED
    BY <1>5, <2>1, <2>2 DEF Listed
<1>11. OutersExist'
  BY <1>1, <1>5 DEF OutersExist, Makes
<1>12. HoldersOwn'
  <2> SUFFICES ASSUME NEW i \in DOMAIN item', NEW t \in DOMAIN token',
                      Holds(item'[i], t), IsMutable(t)'
               PROVE  token'[t].outer = i
    BY DEF HoldersOwn
  <2>1. CASE i \in DOMAIN item
    <3>1. Holds(item[i], t) /\ t \in DOMAIN token
      BY <1>5, <2>1 DEF Holds, Sound, Listed, IsListed
    <3> QED
      BY <1>1, <1>8, <2>1, <3>1, FollowingOuters DEF Makes
  <2>2. CASE i = n
    <3>1. Holds(it, t)
      BY <1>2, <1>5, <2>2 DEF Holds
    <3> QED
      BY <1>1, <2>2, <3>1 DEF Makes, IsMutable
  <2> QED
    BY <1>5, <2>1, <2>2
<1>13. OwnedCanMutate'
  BY <1>1, <1>5, <1>7 DEF OwnedCanMutate, Editable, Sound
<1>14. \A i \in DOMAIN item : Content(token', item'[i]) = Content(token, item[i])
  BY <1>1, <1>5, FollowingContent DEF Makes
<1>15. OwnerSeesEveryChange'
  BY <1>1, <1>6, <1>7, <1>14 DEF OwnerSeesEveryChange, Sound
<1>16. Replicates'
  <2> SUFFICES ASSUME NEW t \in DOMAIN token', IsMutable(t)'
               PROVE  t \in registered <=> \E i \in owned : Holds(item[i], t)
    BY <1>1, <1>5, <1>7 DEF Replicates
  <2>1. CASE t \in DOMAIN token
    BY <1>8, <2>1 DEF Sound, Replicates
  <2>2. CASE t \notin DOMAIN token
    <3>1. \A i \in owned : ~Holds(item[i], t)
      BY <1>7, <2>2 DEF Holds, Sound, Listed, IsListed
    <3> QED
      BY <1>3, <2>2, <3>1
  <2> QED
    BY <2>1, <2>2
<1> QED
  BY <1>5, <1>9, <1>10, <1>11, <1>12, <1>13, <1>14, <1>15, <1>16 DEF Sound, Frozen

-----------------------------------------------------------------------------
(* Items whose list is another.                                             *)

\* Tokens follow so that item i can have a list: that is without the gone and
\* with the come.
MayBecome(i, toks, list, gone, come) ==
    /\ i \in Editable
    /\ Follows(toks, i) /\ Len(toks) = Len(token)
    /\ IsListed(list, token)
    /\ gone \subseteq DOMAIN token /\ come \subseteq DOMAIN token
    /\ \A t \in DOMAIN token :
          (\E k \in DOMAIN list : list[k] = t) <=> (Holds(item[i], t) /\ t \notin gone) \/ t \in come
    /\ \A t \in gone : Holds(item[i], t)
    /\ \A t \in come : IsMutable(t) => toks[t].outer = i

LEMMA BecomeKeeps ==
    ASSUME Sound, ~halted, NEW i, NEW toks, NEW list, NEW gone, NEW come,
           MayBecome(i, toks, list, gone, come), Become(i, toks, list, gone, come)
    PROVE  Sound' /\ Frozen
<1> DEFINE it == [flags |-> item[i].flags, tokens |-> list]
<1>1. /\ token' = toks /\ item' = [item EXCEPT ![i] = it]
      /\ NotifyOwner(i, toks, it, gone, come)
      /\ UNCHANGED <<owned, halted>>
  BY DEF Become
<1>2. it.flags = item[i].flags /\ it.tokens = list
  OBVIOUS
<1>3. token \in Seq(Token) /\ item \in Seq(SomeItem) /\ Len(seen) = Len(item)
      /\ seen \in Seq(Shown) /\ registered \subseteq DOMAIN token
  BY DEF Sound, Typed
<1>4. toks \in Seq(Token) /\ Len(toks) = Len(token) /\ DOMAIN toks = DOMAIN token
  BY <1>3 DEF MayBecome, Follows
<1>5. i \in DOMAIN item /\ CanMutate(item[i]) /\ item[i] \in SomeItem
  BY <1>3 DEF MayBecome, Editable
<1>6. it \in SomeItem
  <2>1. list \in Seq(Nat)
    BY <1>3 DEF MayBecome, IsListed
  <2> QED
    BY <1>5, <2>1 DEF SomeItem
<1> HIDE DEF it
<1>7. /\ item' \in Seq(SomeItem) /\ Len(item') = Len(item) /\ DOMAIN item' = DOMAIN item
      /\ \A j \in DOMAIN item : item'[j] = IF j = i THEN it ELSE item[j]
  BY <1>1, <1>3, <1>5, <1>6
<1>8. owned \subseteq DOMAIN item
  BY DEF Sound, OwnedCanMutate, Editable
<1>9. \A t \in DOMAIN token : IsMutable(t)' = IsMutable(t)
  BY <1>1 DEF IsMutable, MayBecome, Follows
<1>10. Content(toks, it) \in Shown
  BY <1>2, <1>4, ListedStays, ContentType DEF MayBecome
<1>11. /\ seen' \in Seq(Shown) /\ Len(seen') = Len(item)
       /\ \A j \in owned : seen'[j] = IF j = i THEN Content(toks, it) ELSE seen[j]
  <2>1. CASE i \in owned
    <3>1. seen' = [seen EXCEPT ![i] = Content(toks, it)]
      BY <1>1, <2>1 DEF NotifyOwner
    <3> QED
      BY <1>3, <1>5, <1>8, <1>10, <3>1
  <2>2. CASE i \notin owned
    <3>1. seen' = seen
      BY <1>1, <2>2 DEF NotifyOwner
    <3> QED
      BY <1>3, <2>2, <3>1
  <2> QED
    BY <2>1, <2>2
<1>12. registered' = IF i \in owned THEN Registered(registered, gone, come) ELSE registered
  BY <1>1 DEF NotifyOwner
<1>13. Typed'
  <2>1. registered' \subseteq DOMAIN token
    BY <1>3, <1>12 DEF Registered, MayBecome
  <2> QED
    BY <1>1, <1>4, <1>7, <1>11, <2>1 DEF Typed
<1>14. Listed'
  <2>1. IsListed(list, token')
    BY <1>1, <1>4, ListedStays DEF MayBecome
  <2>2. ASSUME NEW j \in DOMAIN item PROVE IsListed(item[j].tokens, token')
    BY <1>1, <1>4, ListedStays DEF Sound, Listed
  <2> QED
    BY <1>2, <1>7, <2>1, <2>2 DEF Listed
<1>15. OutersExist'
  <2>1. \A t \in DOMAIN token : toks[t].outer = token[t].outer \/ toks[t].outer = i
    BY DEF MayBecome, Follows
  <2>2. i <= Len(item)
    BY <1>3, <1>5
  <2> QED
    BY <1>1, <1>4, <1>7, <2>1, <2>2 DEF OutersExist, Sound
<1>16. HoldersOwn'
  <2> SUFFICES ASSUME NEW j \in DOMAIN item', NEW t \in DOMAIN token',
                      Holds(item'[j], t), IsMutable(t)'
               PROVE  token'[t].outer = j
    BY DEF HoldersOwn
  <2>1. t \in DOMAIN token /\ j \in DOMAIN item /\ IsMutable(t)
    BY <1>1, <1>4, <1>7, <1>9
  <2>2. CASE Holds(item[j], t)
    BY <1>1, <2>1, <2>2, FollowingOuters DEF MayBecome
  <2>3. CASE ~Holds(item[j], t)
    <3>1. j = i /\ t \in come
      BY <1>2, <1>7, <2>1, <2>3 DEF MayBecome, Holds
    <3> QED
      BY <1>1, <2>1, <3>1 DEF MayBecome
  <2> QED
    BY <2>2, <2>3
<1>17. OwnedCanMutate'
  <2>1. \A j \in DOMAIN item : CanMutate(item'[j]) <=> CanMutate(item[j])
    BY <1>2, <1>7 DEF CanMutate
  <2> QED
    BY <1>1, <1>7, <2>1 DEF OwnedCanMutate, Editable, Sound
<1>18. \A j \in DOMAIN item : j # i => Content(token', item'[j]) = Content(token, item[j])
  BY <1>1, <1>7, FollowingContent DEF MayBecome
<1>19. OwnerSeesEveryChange'
  <2> SUFFICES ASSUME NEW j \in owned PROVE seen'[j] = Content(token', item'[j])
    BY <1>1 DEF OwnerSeesEveryChange
  <2>1. CASE j = i
    BY <1>1, <1>7, <1>8, <1>11, <2>1
  <2>2. CASE j # i
    BY <1>8, <1>11, <1>18, <2>2 DEF Sound, OwnerSeesEveryChange
  <2> QED
    BY <2>1, <2>2
<1>20. Replicates'
  <2> SUFFICES ASSUME NEW t \in DOMAIN token, IsMutable(t)
               PROVE  t \in registered' <=> \E j \in owned : Holds(item'[j], t)
    BY <1>1, <1>4, <1>9 DEF Replicates
  <2>1. t \in registered <=> \E j \in owned : Holds(item[j], t)
    BY DEF Sound, Replicates
  <2>2. \A j \in owned : j # i => (Holds(item'[j], t) <=> Holds(item[j], t))
    BY <1>7, <1>8
  <2>3. CASE i \notin owned
    BY <1>12, <2>1, <2>2, <2>3
  <2>4. CASE i \in owned
    <3>1. Holds(item'[i], t) <=> (Holds(item[i], t) /\ t \notin gone) \/ t \in come
      BY <1>2, <1>5, <1>7 DEF MayBecome, Holds
    <3>2. t \in registered' <=> (t \in registered /\ t \notin gone) \/ t \in come
      BY <1>12, <2>4 DEF Registered
    <3>3. ASSUME NEW j \in owned, j # i, Holds(item[j], t) PROVE t \notin gone
      <4>1. token[t].outer = j
        BY <1>8, <3>3 DEF Sound, HoldersOwn
      <4>2. Holds(item[i], t) => token[t].outer = i
        BY <1>5 DEF Sound, HoldersOwn
      <4> QED
        BY <3>3, <4>1, <4>2 DEF MayBecome
    <3> QED
      BY <2>1, <2>2, <2>4, <3>1, <3>2, <3>3
  <2> QED
    BY <2>3, <2>4
<1>21. Frozen
  BY <1>5, <1>7, <1>18 DEF Frozen
<1> QED
  BY <1>13, <1>14, <1>15, <1>16, <1>17, <1>19, <1>20, <1>21 DEF Sound

-----------------------------------------------------------------------------
(* The steps.                                                               *)

LEMMA InitSound == Init => Sound
<1> SUFFICES ASSUME Init PROVE Sound
  OBVIOUS
<1>1. PICK d \in Designs, x \in Data :
        /\ token = [ k \in DOMAIN d.classes |-> [class |-> d.classes[k], data |-> x, outer |-> 1] ]
        /\ item = <<CacheTokenMutability(token, [flags |-> d.flags, tokens |-> [ k \in DOMAIN d.classes |-> k ]])>>
        /\ owned = {} /\ registered = {} /\ halted = FALSE
        /\ seen = <<<<>>>>
  BY DEF Init
<1> DEFINE list == [ k \in DOMAIN d.classes |-> k ]
           it == [flags |-> d.flags, tokens |-> list]
           new == CacheTokenMutability(token, it)
<1>2. d.classes \in Seq(Classes) /\ d.flags \in SUBSET Flags
  BY ItemInstancesAssumption
<1>3. PICK n \in Nat : DOMAIN d.classes = 1..n
  BY <1>2
<1>4. /\ token \in Seq(Token) /\ DOMAIN token = 1..n
      /\ \A t \in DOMAIN token : token[t].outer = 1
  <2>1. \A k \in 1..n : [class |-> d.classes[k], data |-> x, outer |-> 1] \in Token
    BY <1>2, <1>3 DEF Token
  <2> QED
    BY <1>1, <1>3, <2>1
<1>5. list \in Seq(1..n) /\ list \in Seq(Nat) /\ IsListed(list, token)
  BY <1>3, <1>4 DEF IsListed
<1>6. it \in SomeItem
  BY <1>2, <1>5 DEF SomeItem
<1> HIDE DEF list
<1>7. it.tokens = list
  OBVIOUS
<1> HIDE DEF it
<1>8. new \in SomeItem /\ new.tokens = list
  BY <1>6, <1>7, CachedIs
<1> HIDE DEF new
<1>9. item = <<new>>
  BY <1>1 DEF new, it, list
<1>10. item \in Seq(SomeItem) /\ DOMAIN item = {1} /\ Len(item) = 1 /\ item[1] = new
  BY <1>8, <1>9
<1>11. Typed
  BY <1>1, <1>4, <1>10 DEF Typed, Shown
<1>12. Listed
  BY <1>5, <1>8, <1>10 DEF Listed
<1>13. OutersExist /\ HoldersOwn
  BY <1>4, <1>10 DEF OutersExist, HoldersOwn
<1>14. OwnedCanMutate /\ OwnerSeesEveryChange /\ Replicates
  BY <1>1 DEF OwnedCanMutate, OwnerSeesEveryChange, Replicates
<1> QED
  BY <1>11, <1>12, <1>13, <1>14 DEF Sound

\* A check that fails stops everything.
LEMMA HaltKeeps ==
    ASSUME Sound, halted' = TRUE, UNCHANGED <<token, item, owned, registered, seen>>
    PROVE  Sound' /\ Frozen
BY DEF Sound, Frozen, Typed, Listed, OutersExist, HoldersOwn, OwnedCanMutate, Editable,
       OwnerSeesEveryChange, IsMutable, CanMutate, Holds, IsListed, Content

LEMMA StutterKeeps ==
    ASSUME Sound, UNCHANGED vars
    PROVE  Sound' /\ Frozen
BY DEF vars, Sound, Frozen, Typed, Listed, OutersExist, HoldersOwn, OwnedCanMutate, Editable,
       OwnerSeesEveryChange, Replicates, IsMutable, CanMutate, Holds, IsListed, Content

LEMMA NewTokenKeeps ==
    ASSUME Sound, ~halted, NEW c \in Classes, NEW x \in Data, NewToken(c, x)
    PROVE  Sound' /\ Frozen
<1> DEFINE tok == [class |-> c, data |-> x, outer |-> Transient]
           new == Len(token) + 1
<1>1. token' = Append(token, tok) /\ UNCHANGED <<item, owned, registered, seen, halted>>
  BY DEF NewToken
<1>2. tok \in Token /\ tok.outer = Transient
  BY DEF Token, Transient
<1> HIDE DEF tok
<1>3. token \in Seq(Token) /\ item \in Seq(SomeItem) /\ Len(seen) = Len(item)
      /\ seen \in Seq(Shown) /\ registered \subseteq DOMAIN token
  BY DEF Sound, Typed
<1>4. /\ token' \in Seq(Token) /\ Len(token') = new /\ DOMAIN token' = DOMAIN token \cup {new}
      /\ \A t \in DOMAIN token : token'[t] = token[t]
      /\ token'[new] = tok
  BY <1>1, <1>2, <1>3, AppendIs
<1>5. \A i \in DOMAIN item : IsListed(item[i].tokens, token')
  BY <1>4, ListedStays DEF Sound, Listed
<1>6. \A i \in DOMAIN item : ~Holds(item[i], new)
  BY <1>3 DEF Sound, Listed, IsListed, Holds
<1>7. \A t \in DOMAIN token : IsMutable(t)' = IsMutable(t)
  BY <1>4 DEF IsMutable
<1>8. owned \subseteq DOMAIN item /\ new \notin DOMAIN token
  BY <1>3 DEF Sound, OwnedCanMutate, Editable
<1>9. \A i \in DOMAIN item : Content(token', item[i]) = Content(token, item[i])
  <2>1. \A i \in DOMAIN item : \A k \in DOMAIN item[i].tokens : item[i].tokens[k] \in DOMAIN token
    BY DEF Sound, Listed, IsListed
  <2> QED
    BY <1>4, <2>1, SameContent
<1>10. Typed'
  BY <1>1, <1>3, <1>4 DEF Typed
<1>11. Listed'
  BY <1>1, <1>5 DEF Listed
<1>12. OutersExist'
  <2>1. tok.outer <= Len(item)
    BY <1>2, <1>3 DEF Transient
  <2> QED
    BY <1>1, <1>4, <2>1 DEF OutersExist, Sound
<1>13. HoldersOwn'
  BY <1>1, <1>4, <1>6, <1>7 DEF HoldersOwn, Sound
<1>14. OwnedCanMutate' /\ OwnerSeesEveryChange' /\ Frozen
  BY <1>1, <1>8, <1>9 DEF OwnedCanMutate, Editable, OwnerSeesEveryChange, Sound, Frozen
<1>15. Replicates'
  <2>1. new \notin registered /\ \A i \in owned : ~Holds(item[i], new)
    BY <1>3, <1>6, <1>8
  <2> QED
    BY <1>1, <1>4, <1>7, <2>1 DEF Replicates, Sound
<1> QED
  BY <1>10, <1>11, <1>12, <1>13, <1>14, <1>15 DEF Sound

\* Tokens that may be adopted follow.
LEMMA AdoptedFollows ==
    ASSUME Sound, NEW ts \in SUBSET DOMAIN token, NEW i \in Nat,
           \A t \in ts : MayBeAdopted(t, i)
    PROVE  /\ Follows(Adopted(token, ts, i), i) /\ Len(Adopted(token, ts, i)) = Len(token)
           /\ \A t \in DOMAIN token : /\ Adopted(token, ts, i)[t].outer \in {token[t].outer, i}
                                      /\ t \in ts /\ IsMutable(t) => Adopted(token, ts, i)[t].outer = i
<1> DEFINE toks == Adopted(token, ts, i)
<1>1. token \in Seq(Token) /\ DOMAIN token = 1..Len(token) /\ Len(token) \in Nat
  BY DEF Sound, Typed
<1>2. \A t \in DOMAIN token :
         toks[t] = IF t \in ts /\ (token[t].class \in MutableClasses \/ token[t].outer = Transient)
                   THEN Renamed(token[t], i) ELSE token[t]
  BY DEF Adopted
<1>3. \A t \in DOMAIN token : token[t] \in Token
  BY <1>1
<1>4. \A t \in DOMAIN token :
         /\ Renamed(token[t], i).class = token[t].class /\ Renamed(token[t], i).data = token[t].data
         /\ Renamed(token[t], i).outer = i /\ Renamed(token[t], i) \in Token
  BY <1>3 DEF Renamed, Token
<1>5. \A t \in DOMAIN token : toks[t] \in Token
  BY <1>2, <1>3, <1>4
<1>6. toks = [t \in 1..Len(token) |-> toks[t]]
  BY <1>1 DEF Adopted
<1> HIDE DEF toks
<1>7. toks \in Seq(Token) /\ Len(toks) = Len(token)
  BY <1>1, <1>5, <1>6
<1>8. ASSUME NEW t \in DOMAIN token
      PROVE  /\ toks[t].class = token[t].class /\ toks[t].data = token[t].data
             /\ \/ toks[t].outer = token[t].outer
                \/ toks[t].outer = i /\ (IsMutable(t) => token[t].outer = Transient)
             /\ toks[t].outer \in {token[t].outer, i}
             /\ t \in ts /\ IsMutable(t) => toks[t].outer = i
  <2>1. CASE t \in ts /\ (token[t].class \in MutableClasses \/ token[t].outer = Transient)
    <3>1. toks[t] = Renamed(token[t], i)
      BY <1>2, <2>1
    <3>2. IsMutable(t) => token[t].outer \in {Transient, i}
      BY <2>1 DEF MayBeAdopted
    <3> QED
      BY <1>4, <3>1, <3>2
  <2>2. CASE ~(t \in ts /\ (token[t].class \in MutableClasses \/ token[t].outer = Transient))
    <3>1. toks[t] = token[t]
      BY <1>2, <2>2
    <3> QED
      BY <2>2, <3>1 DEF IsMutable
  <2> QED
    BY <2>1, <2>2
<1>9. Follows(toks, i)
  BY <1>1, <1>7, <1>8 DEF Follows
<1> QED
  BY <1>7, <1>8, <1>9 DEF toks

LEMMA NewInstanceKeeps ==
    ASSUME Sound, ~halted, NEW n \in Nat, NEW list \in [1..n -> DOMAIN token], NEW m \in Mutability,
           \A j, k \in 1..n : j < k => list[j] < list[k],
           CreateNewInstance(list, m)
    PROVE  Sound' /\ Frozen
<1> DEFINE i == Len(item) + 1
           ts == { list[k] : k \in DOMAIN list }
           toks == Adopted(token, ts, i)
           it == [flags |-> ToFlags(m) \cup {"InstanceMutability"}, tokens |-> list]
<1>1. \/ (\A k \in DOMAIN list : MayBeAdopted(list[k], i)) /\ Create(toks, it)
      \/ halted' = TRUE /\ UNCHANGED <<token, item, owned, registered, seen>>
  BY DEF CreateNewInstance
<1>2. CASE halted' = TRUE /\ UNCHANGED <<token, item, owned, registered, seen>>
  BY <1>2, HaltKeeps
<1>3. CASE (\A k \in DOMAIN list : MayBeAdopted(list[k], i)) /\ Create(toks, it)
  <2>1. token \in Seq(Token) /\ item \in Seq(SomeItem) /\ i \in Nat
    BY DEF Sound, Typed
  <2>2. ts \in SUBSET DOMAIN token /\ \A t \in ts : MayBeAdopted(t, i)
    BY <1>3
  <2>3. \A t : t \in ts <=> \E k \in DOMAIN list : list[k] = t
    OBVIOUS
  <2> HIDE DEF ts
  <2>4. /\ Follows(toks, i) /\ Len(toks) = Len(token)
        /\ \A t \in DOMAIN token : /\ toks[t].outer \in {token[t].outer, i}
                                   /\ t \in ts /\ IsMutable(t) => toks[t].outer = i
    BY <2>1, <2>2, AdoptedFollows
  <2>5. toks \in Seq(Token) /\ DOMAIN toks = DOMAIN token
        /\ \A t \in DOMAIN token : toks[t].class = token[t].class
    BY <2>1, <2>4 DEF Follows
  <2> HIDE DEF toks
  <2>6. \A t \in DOMAIN toks : toks[t].outer <= i
    <3>1. ASSUME NEW t \in DOMAIN token
          PROVE  token[t].outer \in Nat /\ Len(item) \in Nat /\ token[t].outer <= Len(item)
      <4>1. token[t] \in Token /\ Len(item) \in Nat
        BY <2>1
      <4>2. token[t].outer \in Nat
        BY ONLY <4>1 DEF Token
      <4> QED
        BY <4>1, <4>2 DEF Sound, OutersExist
    <3>2. ASSUME NEW t \in DOMAIN token PROVE toks[t].outer <= i
      <4>1. toks[t].outer \in {token[t].outer, i}
        BY <2>4
      <4> QED
        BY <3>1, <4>1
    <3> QED
      BY <2>5, <3>2
  <2>7. list \in Seq(DOMAIN token) /\ list \in Seq(Nat)
    BY <2>1
  <2>8. IsListed(list, toks)
    <3>1. ASSUME NEW j \in 1..n, NEW k \in 1..n, list[j] = list[k] PROVE j = k
      <4>1. ~(j < k) /\ ~(k < j)
        BY <3>1, <2>1
      <4> QED
        BY <4>1
    <3> QED
      BY <2>5, <2>7, <3>1 DEF IsListed
  <2>9. it \in SomeItem /\ it.tokens = list
    <3>1. ToFlags(m) \cup {"InstanceMutability"} \in SUBSET Flags
      BY DEF ToFlags, Flags
    <3> QED
      BY <2>7, <3>1 DEF SomeItem
  <2> HIDE DEF it
  <2>10. \A t \in DOMAIN toks : Holds(it, t) /\ toks[t].class \in MutableClasses => toks[t].outer = i
    BY <2>3, <2>4, <2>5, <2>9 DEF Holds, IsMutable
  <2>11. Makes(toks, it)
    BY <2>4, <2>6, <2>8, <2>9, <2>10 DEF Makes
  <2> QED
    BY <1>3, <2>11, CreateKeeps
<1> QED
  BY <1>1, <1>2, <1>3

\* The copies that a duplicate makes come after all tokens, each once.
LEMMA DuplicateKeeps ==
    ASSUME Sound, ~halted, NEW i \in DOMAIN item, NEW m \in Mutability, CreateDuplicate(i, m)
    PROVE  Sound' /\ Frozen
<1> DEFINE list == item[i].tokens
           own == { k \in DOMAIN list : IsMutable(list[k]) }
           Copied(k) == Len(token) + Cardinality({ j \in own : j <= k })
           Original(t) == list[CHOOSE k \in own : Copied(k) = t]
           n == Cardinality(own)
           o == Len(item) + 1
           toks == [ t \in 1..(Len(token) + n) |->
                       IF t \in DOMAIN token THEN token[t] ELSE Renamed(token[Original(t)], o) ]
           copies == [ k \in DOMAIN list |-> IF k \in own THEN Copied(k) ELSE list[k] ]
           it == [flags |-> ToFlags(m) \cup {"InstanceMutability"}, tokens |-> copies]
<1>1. Create(toks, it)
  BY DEF CreateDuplicate
<1>2. token \in Seq(Token) /\ item \in Seq(SomeItem) /\ o \in Nat /\ Len(token) \in Nat
      /\ DOMAIN token = 1..Len(token)
  BY DEF Sound, Typed
<1>3. list \in Seq(DOMAIN token) /\ \A k, l \in DOMAIN list : list[k] = list[l] => k = l
  BY DEF Sound, Listed, IsListed
<1>4. PICK h \in Nat : DOMAIN list = 1..h
  BY <1>3
<1>5. IsPlaces(own)
  <2>1. IsFiniteSet(1..h)
    BY <1>4, FS_Interval
  <2>2. own \subseteq 1..h
    BY <1>4
  <2> HIDE DEF own
  <2>3. IsFiniteSet(own)
    BY <2>1, <2>2, FS_Subset
  <2> QED
    BY <1>4, <2>2, <2>3 DEF IsPlaces
<1>6. n \in Nat
  BY <1>5, FS_CardinalityType DEF IsPlaces
<1>7. \A k : Copied(k) = Len(token) + Cardinality(UpTo(own, k))
  BY DEF UpTo
<1>8. /\ \A k \in own : Copied(k) \in (Len(token) + 1)..(Len(token) + n)
      /\ \A k, l \in own : Copied(k) = Copied(l) => k = l
      /\ \A t \in (Len(token) + 1)..(Len(token) + n) : \E k \in own : Copied(k) = t
  <2> HIDE DEF own, Copied, n
  <2>1. /\ \A k \in own : Cardinality(UpTo(own, k)) \in 1..n
        /\ \A k, l \in own : Cardinality(UpTo(own, k)) = Cardinality(UpTo(own, l)) => k = l
        /\ \A c \in 1..n : \E k \in own : Cardinality(UpTo(own, k)) = c
    BY <1>5, UpToReaches DEF n
  <2>2. ASSUME NEW t \in (Len(token) + 1)..(Len(token) + n)
        PROVE  \E k \in own : Copied(k) = t
    <3>1. t - Len(token) \in 1..n
      BY <1>2, <1>6
    <3>2. PICK k \in own : Cardinality(UpTo(own, k)) = t - Len(token)
      BY <2>1, <3>1
    <3> QED
      BY <1>2, <1>7, <3>2
  <2>3. ASSUME NEW k \in own, NEW l \in own, Copied(k) = Copied(l) PROVE k = l
    BY <1>2, <1>6, <1>7, <2>1, <2>3
  <2>4. ASSUME NEW k \in own PROVE Copied(k) \in (Len(token) + 1)..(Len(token) + n)
    BY <1>2, <1>6, <1>7, <2>1
  <2> QED
    BY <2>2, <2>3, <2>4
<1>9. \A k \in DOMAIN list : k \in own <=> IsMutable(list[k])
  OBVIOUS
<1>10. own \subseteq DOMAIN list
  OBVIOUS
<1> HIDE DEF own, Copied
<1>11. ASSUME NEW t \in (Len(token) + 1)..(Len(token) + n)
       PROVE  Original(t) \in DOMAIN token
  <2> DEFINE k == CHOOSE k \in own : Copied(k) = t
  <2>1. k \in own
    BY <1>8
  <2> HIDE DEF k
  <2> QED
    BY <1>3, <1>10, <2>1 DEF k
<1> HIDE DEF Original, n
<1>12. \A t \in 1..(Len(token) + n) :
          t \notin DOMAIN token => t \in (Len(token) + 1)..(Len(token) + n)
  BY <1>2, <1>6
<1>13. \A t \in 1..(Len(token) + n) :
          /\ t \in DOMAIN token => toks[t] = token[t]
          /\ t \notin DOMAIN token => toks[t] = Renamed(token[Original(t)], o)
  OBVIOUS
<1>14. \A t \in 1..(Len(token) + n) :
          /\ toks[t] \in Token
          /\ t \notin DOMAIN token => toks[t].outer = o
  <2>1. ASSUME NEW t \in 1..(Len(token) + n), t \notin DOMAIN token
        PROVE  Renamed(token[Original(t)], o) \in Token /\ Renamed(token[Original(t)], o).outer = o
    <3>1. token[Original(t)] \in Token
      BY <1>2, <1>11, <1>12, <2>1
    <3> QED
      BY <1>2, <3>1 DEF Renamed, Token
  <2>2. ASSUME NEW t \in DOMAIN token PROVE token[t] \in Token
    BY <1>2
  <2> HIDE DEF toks
  <2> QED
    BY <1>13, <2>1, <2>2
<1>15. toks \in Seq(Token) /\ Len(toks) = Len(token) + n /\ DOMAIN toks = 1..(Len(token) + n)
  <2>1. toks = [t \in 1..(Len(token) + n) |-> toks[t]]
    OBVIOUS
  <2> HIDE DEF toks
  <2> QED
    <3>1. Len(token) + n \in Nat
      BY <1>2, <1>6
    <3>2. toks \in [1..(Len(token) + n) -> Token]
      BY <1>14, <2>1
    <3> QED
      BY <3>1, <3>2
<1> HIDE DEF toks
<1>16. DOMAIN token \subseteq DOMAIN toks
  BY <1>2, <1>6, <1>15
<1>17. Follows(toks, o)
  BY <1>2, <1>6, <1>13, <1>15, <1>16 DEF Follows
<1>18. \A t \in DOMAIN toks : toks[t].outer <= o
  <2>1. ASSUME NEW t \in DOMAIN token PROVE token[t].outer <= o
    <3>1. token[t].outer \in Nat /\ Len(item) \in Nat
      <4>1. token[t] \in Token /\ Len(item) \in Nat
        BY <1>2
      <4> QED
        BY ONLY <4>1 DEF Token
    <3>2. token[t].outer <= Len(item)
      BY DEF Sound, OutersExist
    <3> QED
      BY <3>1, <3>2
  <2> QED
    BY <1>2, <1>13, <1>14, <1>15, <1>16, <2>1
<1>19. /\ DOMAIN copies = 1..h
       /\ \A k \in 1..h : /\ k \in own => copies[k] = Copied(k)
                          /\ k \notin own => copies[k] = list[k]
  BY <1>4
<1>20. \A k \in 1..h : copies[k] \in DOMAIN toks
  BY <1>2, <1>3, <1>4, <1>6, <1>8, <1>15, <1>16, <1>19, SMTT(30)
<1>21. copies \in Seq(DOMAIN toks) /\ copies \in Seq(Nat)
  <2>1. copies = [k \in 1..h |-> copies[k]]
    BY <1>4
  <2>2. DOMAIN toks \subseteq Nat
    BY <1>15
  <2> HIDE DEF copies
  <2> QED
    BY <1>20, <2>1, <2>2
<1> HIDE DEF copies
<1>22. ASSUME NEW k \in 1..h, NEW l \in 1..h, copies[k] = copies[l] PROVE k = l
  <2>1. ASSUME NEW g \in own, NEW f \in 1..h, f \notin own PROVE Copied(g) # list[f]
    <3>1. list[f] \in DOMAIN token
      BY <1>3, <1>4
    <3> QED
      BY <1>2, <1>6, <1>8, <3>1
  <2>2. CASE k \in own /\ l \in own
    BY <1>8, <1>19, <1>22, <2>2
  <2>3. CASE k \notin own /\ l \notin own
    BY <1>3, <1>4, <1>19, <1>22, <2>3
  <2> QED
    BY <1>19, <1>22, <2>1, <2>2, <2>3
<1>23. IsListed(copies, toks)
  BY <1>19, <1>21, <1>22 DEF IsListed
<1>24. it \in SomeItem /\ it.tokens = copies
  <2>1. ToFlags(m) \cup {"InstanceMutability"} \in SUBSET Flags
    BY DEF ToFlags, Flags
  <2> QED
    BY <1>21, <2>1 DEF SomeItem
<1> HIDE DEF it
<1>25. ASSUME NEW t \in DOMAIN toks, Holds(it, t), toks[t].class \in MutableClasses
       PROVE  toks[t].outer = o
  <2>1. PICK k \in 1..h : copies[k] = t
    BY <1>19, <1>24, <1>25 DEF Holds
  <2>2. CASE k \in own
    <3>1. t \notin DOMAIN token
      BY <1>2, <1>6, <1>8, <1>19, <2>1, <2>2
    <3> QED
      BY <1>14, <1>15, <3>1
  <2>3. CASE k \notin own
    <3>1. list[k] = t /\ t \in DOMAIN token /\ ~IsMutable(t)
      BY <1>3, <1>4, <1>9, <1>19, <2>1, <2>3
    <3> QED
      BY <1>13, <1>15, <1>25, <3>1 DEF IsMutable
  <2> QED
    BY <2>2, <2>3
<1>26. Makes(toks, it)
  BY <1>17, <1>18, <1>23, <1>24, <1>25 DEF Makes
<1> QED
  BY <1>1, <1>26, CreateKeeps

LEMMA TakeKeeps ==
    ASSUME Sound, ~halted, NEW i \in DOMAIN item, TakeOwnership(i)
    PROVE  Sound' /\ Frozen
<1>1. /\ i \in Editable /\ owned' = owned \cup {i}
      /\ registered' = registered \cup OwnTokens(i)
      /\ seen' = [seen EXCEPT ![i] = Content(token, item[i])]
      /\ UNCHANGED <<token, item, halted>>
  BY DEF TakeOwnership
<1>2. token \in Seq(Token) /\ item \in Seq(SomeItem) /\ Len(seen) = Len(item)
      /\ seen \in Seq(Shown) /\ registered \subseteq DOMAIN token
  BY DEF Sound, Typed
<1>3. Content(token, item[i]) \in Shown
  BY <1>2, ContentType DEF Sound, Listed
<1>4. owned \subseteq DOMAIN item
  BY DEF Sound, OwnedCanMutate, Editable
<1>5. /\ seen' \in Seq(Shown) /\ Len(seen') = Len(item)
      /\ seen'[i] = Content(token, item[i])
      /\ \A j \in owned : j # i => seen'[j] = seen[j]
  BY <1>1, <1>2, <1>3, <1>4
<1>6. Typed' /\ Listed' /\ OutersExist'
  BY <1>1, <1>2, <1>5 DEF Typed, Listed, OutersExist, Sound, OwnTokens
<1>7. HoldersOwn' /\ OwnedCanMutate' /\ Frozen
  BY <1>1 DEF HoldersOwn, OwnedCanMutate, Editable, Frozen, Sound, IsMutable
<1>8. OwnerSeesEveryChange'
  BY <1>1, <1>5 DEF OwnerSeesEveryChange, Sound
<1>9. Replicates'
  <2>1. ASSUME NEW t \in DOMAIN token, IsMutable(t)
        PROVE  t \in OwnTokens(i) <=> Holds(item[i], t)
    BY <2>1 DEF OwnTokens, Sound, HoldersOwn
  <2> QED
    BY <1>1, <2>1 DEF Replicates, Sound, IsMutable
<1> QED
  BY <1>6, <1>7, <1>8, <1>9 DEF Sound

LEMMA ReleaseKeeps ==
    ASSUME Sound, ~halted, NEW i \in DOMAIN item, ReleaseOwnership(i)
    PROVE  Sound' /\ Frozen
<1>1. /\ owned' = owned \ {i}
      /\ registered' = registered \ OwnTokens(i)
      /\ seen' = [seen EXCEPT ![i] = <<>>]
      /\ UNCHANGED <<token, item, halted>>
  BY DEF ReleaseOwnership
<1>2. token \in Seq(Token) /\ item \in Seq(SomeItem) /\ Len(seen) = Len(item)
      /\ seen \in Seq(Shown) /\ registered \subseteq DOMAIN token
  BY DEF Sound, Typed
<1>3. <<>> \in Shown
  BY DEF Shown
<1>4. owned \subseteq DOMAIN item
  BY DEF Sound, OwnedCanMutate, Editable
<1>5. /\ seen' \in Seq(Shown) /\ Len(seen') = Len(item)
      /\ \A j \in owned' : seen'[j] = seen[j]
  BY <1>1, <1>2, <1>3, <1>4
<1>6. Typed' /\ Listed' /\ OutersExist'
  BY <1>1, <1>2, <1>5 DEF Typed, Listed, OutersExist, Sound
<1>7. HoldersOwn' /\ OwnedCanMutate' /\ Frozen
  BY <1>1 DEF HoldersOwn, OwnedCanMutate, Editable, Frozen, Sound, IsMutable
<1>8. OwnerSeesEveryChange'
  BY <1>1, <1>5 DEF OwnerSeesEveryChange, Sound
<1>9. Replicates'
  <2> SUFFICES ASSUME NEW t \in DOMAIN token, IsMutable(t)
               PROVE  t \in registered' <=> \E j \in owned' : Holds(item[j], t)
    BY <1>1 DEF Replicates, IsMutable
  <2>1. t \in OwnTokens(i) <=> Holds(item[i], t)
    BY DEF OwnTokens, Sound, HoldersOwn
  <2>2. t \in registered <=> \E j \in owned : Holds(item[j], t)
    BY DEF Sound, Replicates
  <2>3. ASSUME NEW j \in owned, j # i, Holds(item[j], t) PROVE ~Holds(item[i], t)
    <3>1. token[t].outer = j
      BY <1>4, <2>3 DEF Sound, HoldersOwn
    <3>2. Holds(item[i], t) => token[t].outer = i
      BY DEF Sound, HoldersOwn
    <3> QED
      BY <2>3, <3>1, <3>2
  <2> QED
    BY <1>1, <2>1, <2>2, <2>3
<1> QED
  BY <1>6, <1>7, <1>8, <1>9 DEF Sound

-----------------------------------------------------------------------------
(* Edits of an item.                                                        *)

\* A change of list after an adoption.
LEMMA AdoptingKeeps ==
    ASSUME Sound, ~halted, NEW i \in Editable, NEW t \in DOMAIN token, MayBeAdopted(t, i),
           NEW list, IsListed(list, token), NEW gone \in SUBSET DOMAIN token,
           \A u \in gone : Holds(item[i], u),
           \A u \in DOMAIN token :
              (\E k \in DOMAIN list : list[k] = u) <=> (Holds(item[i], u) /\ u \notin gone) \/ u = t,
           Become(i, Adopted(token, {t}, i), list, gone, {t})
    PROVE  Sound' /\ Frozen
<1> DEFINE toks == Adopted(token, {t}, i)
<1>1. i \in DOMAIN item /\ i \in Nat
  BY DEF Editable, Sound, Typed
<1>2. /\ Follows(toks, i) /\ Len(toks) = Len(token)
      /\ IsMutable(t) => toks[t].outer = i
  BY <1>1, AdoptedFollows
<1> HIDE DEF toks
<1>3. MayBecome(i, toks, list, gone, {t})
  BY <1>2 DEF MayBecome
<1> QED
  BY <1>3, BecomeKeeps DEF toks

\* Tokens that stay what they are follow.
LEMMA SameFollows ==
    ASSUME Sound, NEW i
    PROVE  Follows(token, i)
BY DEF Follows, Sound, Typed

\* The place of a held token.
LEMMA IndexIs ==
    ASSUME NEW i, NEW t, Holds(item[i], t)
    PROVE  IndexOf(i, t) \in DOMAIN item[i].tokens /\ item[i].tokens[IndexOf(i, t)] = t
BY DEF Holds, IndexOf

LEMMA AddTokenKeeps ==
    ASSUME Sound, ~halted, NEW i \in DOMAIN item, NEW t \in DOMAIN token,
           ~Holds(item[i], t), AddToken(i, t)
    PROVE  Sound' /\ Frozen
<1> DEFINE old == item[i].tokens
           list == Append(old, t)
<1>1. i \in Editable
  BY DEF AddToken
<1>2. \/ MayBeAdopted(t, i) /\ Become(i, Adopted(token, {t}, i), list, {}, {t})
      \/ halted' = TRUE /\ UNCHANGED <<token, item, owned, registered, seen>>
  BY DEF AddToken, Halt
<1>3. CASE halted' = TRUE /\ UNCHANGED <<token, item, owned, registered, seen>>
  BY <1>3, HaltKeeps
<1>4. CASE MayBeAdopted(t, i) /\ Become(i, Adopted(token, {t}, i), list, {}, {t})
  <2>1. old \in Seq(DOMAIN token) /\ \A k, l \in DOMAIN old : old[k] = old[l] => k = l
    BY DEF Sound, Listed, IsListed
  <2>2. \A u : Holds(item[i], u) <=> \E k \in DOMAIN old : old[k] = u
    BY DEF Holds
  <2> HIDE DEF old
  <2>3. /\ list \in Seq(DOMAIN token)
        /\ DOMAIN list = DOMAIN old \cup {Len(old) + 1}
        /\ \A k \in DOMAIN old : list[k] = old[k]
        /\ list[Len(old) + 1] = t
    BY <2>1, AppendIs
  <2> HIDE DEF list
  <2>4. \A k \in DOMAIN old : old[k] # t
    BY <2>2
  <2>5. IsListed(list, token)
    BY <2>1, <2>3, <2>4 DEF IsListed
  <2>6. \A u \in DOMAIN token :
           (\E k \in DOMAIN list : list[k] = u) <=> (Holds(item[i], u) /\ u \notin {}) \/ u = t
    BY <2>2, <2>3
  <2> QED
    BY <1>1, <1>4, <2>5, <2>6, AdoptingKeeps
<1> QED
  BY <1>2, <1>3, <1>4

LEMMA ReplaceTokenKeeps ==
    ASSUME Sound, ~halted, NEW i \in DOMAIN item, NEW old \in DOMAIN token, NEW new \in DOMAIN token,
           new = old \/ ~Holds(item[i], new), ReplaceToken(i, old, new)
    PROVE  Sound' /\ Frozen
<1> DEFINE was == item[i].tokens
           x == IndexOf(i, old)
           list == [was EXCEPT ![x] = new]
<1>1. i \in Editable /\ Holds(item[i], old)
  BY DEF ReplaceToken
<1>2. \/ MayBeAdopted(new, i) /\ Become(i, Adopted(token, {new}, i), list, {old}, {new})
      \/ halted' = TRUE /\ UNCHANGED <<token, item, owned, registered, seen>>
  BY DEF ReplaceToken, Halt
<1>3. CASE halted' = TRUE /\ UNCHANGED <<token, item, owned, registered, seen>>
  BY <1>3, HaltKeeps
<1>4. CASE MayBeAdopted(new, i) /\ Become(i, Adopted(token, {new}, i), list, {old}, {new})
  <2>1. was \in Seq(DOMAIN token) /\ \A k, l \in DOMAIN was : was[k] = was[l] => k = l
    BY DEF Sound, Listed, IsListed
  <2>2. x \in DOMAIN was /\ was[x] = old
    BY <1>1, IndexIs
  <2>3. \A u : Holds(item[i], u) <=> \E k \in DOMAIN was : was[k] = u
    BY DEF Holds
  <2> HIDE DEF was, x
  <2>4. /\ list \in Seq(DOMAIN token) /\ DOMAIN list = DOMAIN was
        /\ \A k \in DOMAIN was : list[k] = IF k = x THEN new ELSE was[k]
    BY <2>1, <2>2
  <2> HIDE DEF list
  <2>5. \A k \in DOMAIN was : k # x => was[k] # new
    BY <2>1, <2>2, <2>3
  <2>6. IsListed(list, token)
    BY <2>1, <2>4, <2>5 DEF IsListed
  <2>7. \A u \in DOMAIN token :
           (\E k \in DOMAIN list : list[k] = u) <=> (Holds(item[i], u) /\ u \notin {old}) \/ u = new
    BY <2>1, <2>2, <2>3, <2>4
  <2> QED
    BY <1>1, <1>4, <2>6, <2>7, AdoptingKeeps
<1> QED
  BY <1>2, <1>3, <1>4

\* What a list is without one of its places.
LEMMA RemoveAtIs ==
    ASSUME NEW S, NEW s \in Seq(S), NEW x \in DOMAIN s
    PROVE  /\ Seqs!RemoveAt(s, x) \in Seq(S)
           /\ DOMAIN Seqs!RemoveAt(s, x) = 1..(Len(s) - 1)
           /\ \A k \in 1..(Len(s) - 1) : Seqs!RemoveAt(s, x)[k] = IF k < x THEN s[k] ELSE s[k + 1]
<1>1. x \in 1..Len(s) /\ Len(s) \in Nat
  OBVIOUS
<1>2. /\ SubSeq(s, 1, x - 1) \in Seq(S) /\ Len(SubSeq(s, 1, x - 1)) = x - 1
      /\ \A k \in 1..(x - 1) : SubSeq(s, 1, x - 1)[k] = s[k]
  BY <1>1
<1>3. /\ SubSeq(s, x + 1, Len(s)) \in Seq(S) /\ Len(SubSeq(s, x + 1, Len(s))) = Len(s) - x
      /\ \A k \in 1..(Len(s) - x) : SubSeq(s, x + 1, Len(s))[k] = s[x + k]
  BY <1>1
<1> DEFINE front == SubSeq(s, 1, x - 1)
           back == SubSeq(s, x + 1, Len(s))
<1>4. Seqs!RemoveAt(s, x) = front \o back
  BY DEF Seqs!RemoveAt
<1>5. front \in Seq(S) /\ back \in Seq(S) /\ Len(front) = x - 1 /\ Len(back) = Len(s) - x
  BY <1>2, <1>3
<1>6. /\ \A k \in 1..(x - 1) : front[k] = s[k]
      /\ \A k \in 1..(Len(s) - x) : back[k] = s[x + k]
  BY <1>2, <1>3
<1> HIDE DEF front, back
<1>7. /\ front \o back \in Seq(S) /\ Len(front \o back) = Len(s) - 1
      /\ DOMAIN (front \o back) = 1..(Len(s) - 1)
  BY <1>1, <1>5
<1>8. ASSUME NEW k \in 1..(Len(s) - 1)
      PROVE  (front \o back)[k] = IF k < x THEN s[k] ELSE s[k + 1]
  <2>1. CASE k < x
    <3>1. (front \o back)[k] = front[k] /\ k \in 1..(x - 1)
      BY <1>1, <1>5, <2>1
    <3> QED
      BY <1>6, <2>1, <3>1
  <2>2. CASE ~(k < x)
    <3>1. (front \o back)[k] = back[k - (x - 1)] /\ k - (x - 1) \in 1..(Len(s) - x)
      BY <1>1, <1>5, <2>2, SMTT(60)
    <3>2. x + (k - (x - 1)) = k + 1
      BY <1>1
    <3>3. back[k - (x - 1)] = s[x + (k - (x - 1))]
      BY <1>6, <3>1
    <3> QED
      BY <2>2, <3>1, <3>2, <3>3
  <2> QED
    BY <2>1, <2>2
<1> QED
  BY <1>4, <1>7, <1>8

LEMMA RemoveTokenKeeps ==
    ASSUME Sound, ~halted, NEW i \in DOMAIN item, NEW t \in DOMAIN token, RemoveToken(i, t)
    PROVE  Sound' /\ Frozen
<1> DEFINE was == item[i].tokens
           x == IndexOf(i, t)
           list == Seqs!RemoveAt(was, x)
           n == Len(was) - 1
<1>1. i \in Editable /\ Holds(item[i], t) /\ Become(i, token, list, {t}, {})
  BY DEF RemoveToken
<1>2. was \in Seq(DOMAIN token) /\ \A k, l \in DOMAIN was : was[k] = was[l] => k = l
  BY DEF Sound, Listed, IsListed
<1>3. x \in DOMAIN was /\ was[x] = t
  BY <1>1, IndexIs
<1>4. \A u : Holds(item[i], u) <=> \E k \in DOMAIN was : was[k] = u
  BY DEF Holds
<1> HIDE DEF was, x
<1>5. /\ list \in Seq(DOMAIN token) /\ DOMAIN list = 1..n
      /\ \A k \in 1..n : list[k] = IF k < x THEN was[k] ELSE was[k + 1]
  BY <1>2, <1>3, RemoveAtIs
<1> HIDE DEF list
<1>6. n \in Int /\ n + 1 \in Nat /\ DOMAIN was = 1..(n + 1) /\ x \in 1..(n + 1)
  BY <1>2, <1>3
<1> HIDE DEF n
<1>7. \A k \in 1..n : (k < x => k \in DOMAIN was) /\ (~(k < x) => k + 1 \in DOMAIN was)
  BY <1>6
<1>8. ASSUME NEW k \in 1..n, NEW l \in 1..n, list[k] = list[l] PROVE k = l
  <2>1. (IF k < x THEN k ELSE k + 1) = (IF l < x THEN l ELSE l + 1)
    BY <1>2, <1>5, <1>7, <1>8
  <2> QED
    BY <1>6, <2>1
<1>9. IsListed(list, token)
  BY <1>5, <1>8 DEF IsListed
<1>10. ASSUME NEW u, NEW k \in 1..n, list[k] = u
       PROVE  Holds(item[i], u) /\ u # t
  <2>0. k \in Int /\ x \in Int /\ (k < x => k # x) /\ (~(k < x) => k + 1 # x)
    BY <1>6, <1>10
  <2>a. \E l \in DOMAIN was : l # x /\ was[l] = u
    <3>1. CASE k < x
      <4>1. k \in DOMAIN was /\ k # x /\ was[k] = u
        BY ONLY <1>5, <1>7, <1>10, <2>0, <3>1
      <4> QED
        BY ONLY <4>1
    <3>2. CASE ~(k < x)
      <4>1. k + 1 \in DOMAIN was /\ k + 1 # x /\ was[k + 1] = u
        BY ONLY <1>5, <1>7, <1>10, <2>0, <3>2
      <4> QED
        BY ONLY <4>1
    <3> QED
      BY ONLY <3>1, <3>2
  <2>1. PICK l \in DOMAIN was : l # x /\ was[l] = u
    BY ONLY <2>a
  <2> QED
    BY <1>2, <1>3, <1>4, <2>1
<1>11. ASSUME NEW u, Holds(item[i], u), u # t
       PROVE  \E k \in DOMAIN list : list[k] = u
  <2>1. PICK l \in DOMAIN was : was[l] = u
    BY <1>4, <1>11
  <2>2. l # x
    BY <1>3, <1>11, <2>1
  <2>3. CASE l < x
    <3>1. l \in 1..n
      BY <1>6, <2>3
    <3> QED
      BY <1>5, <2>1, <2>3, <3>1
  <2>4. CASE x < l
    <3>1. l - 1 \in 1..n /\ ~(l - 1 < x) /\ (l - 1) + 1 = l
      BY <1>6, <2>4
    <3> QED
      BY <1>5, <2>1, <3>1
  <2> QED
    BY <1>6, <2>2, <2>3, <2>4
<1>12. MayBecome(i, token, list, {t}, {})
  <2>1. \A u \in DOMAIN token :
           (\E k \in DOMAIN list : list[k] = u) <=> (Holds(item[i], u) /\ u \notin {t}) \/ u \in {}
    BY <1>5, <1>10, <1>11
  <2> QED
    BY <1>1, <1>9, <2>1, SameFollows DEF MayBecome
<1> QED
  BY <1>1, <1>12, BecomeKeeps

-----------------------------------------------------------------------------
(* The removal of all tokens of a class.                                    *)

\* Two parts of 1..n.
AreParts(n, goes, stays) == goes \cup stays = 1..n /\ goes \cap stays = {}

\* Their counts from below add up.
LEMMA UpToParts ==
    ASSUME NEW n \in Nat, NEW goes, NEW stays, AreParts(n, goes, stays)
    PROVE  /\ IsPlaces(goes) /\ IsPlaces(stays)
           /\ Cardinality(goes) + Cardinality(stays) = n
           /\ \A k \in 0..n : /\ Cardinality(UpTo(goes, k)) \in 0..k
                              /\ Cardinality(UpTo(stays, k)) \in 0..k
                              /\ Cardinality(UpTo(goes, k)) + Cardinality(UpTo(stays, k)) = k
<1> USE DEF AreParts
<1>1. ASSUME NEW S \in SUBSET (1..n) PROVE IsPlaces(S)
  <2>1. IsFiniteSet(1..n) /\ S \subseteq 1..n
    BY FS_Interval
  <2>2. IsFiniteSet(S)
    BY <2>1, FS_Subset
  <2> QED
    BY <2>2 DEF IsPlaces
<1>2. ASSUME NEW m \in Nat, NEW A, NEW B, A \cup B = 1..m, A \cap B = {}
      PROVE  Cardinality(A) \in 0..m /\ Cardinality(B) \in 0..m /\ Cardinality(A) + Cardinality(B) = m
  <2>1. IsFiniteSet(1..m) /\ Cardinality(1..m) = m
    BY FS_Interval
  <2>2. A \subseteq 1..m /\ B \subseteq 1..m
    BY <1>2
  <2>3. IsFiniteSet(A) /\ IsFiniteSet(B)
    BY <2>1, <2>2, FS_Subset
  <2>4. Cardinality(A) \in Nat /\ Cardinality(B) \in Nat /\ Cardinality(A \cap B) = 0
    BY <1>2, <2>3, FS_CardinalityType, FS_EmptySet
  <2>5. Cardinality(A \cup B) = Cardinality(A) + Cardinality(B) - Cardinality(A \cap B)
    BY <2>3, FS_Union
  <2>6. Cardinality(A) + Cardinality(B) = m
    <3>1. Cardinality(A \cup B) = m
      BY <1>2, <2>1
    <3> QED
      BY ONLY <2>4, <2>5, <3>1
  <2> QED
    BY <2>4, <2>6
<1>3. ASSUME NEW k \in 0..n
      PROVE  /\ Cardinality(UpTo(goes, k)) \in 0..k
             /\ Cardinality(UpTo(stays, k)) \in 0..k
             /\ Cardinality(UpTo(goes, k)) + Cardinality(UpTo(stays, k)) = k
  <2>1. UpTo(goes, k) \cap UpTo(stays, k) = {}
    BY DEF UpTo
  <2>2. ASSUME NEW j PROVE j \in UpTo(goes, k) \cup UpTo(stays, k) <=> j \in 1..k
    <3>1. j \in 1..k => j \in 1..n /\ j <= k
      OBVIOUS
    <3>2. j \in 1..n /\ j <= k => j \in 1..k
      OBVIOUS
    <3>3. j \in 1..n <=> j \in goes \/ j \in stays
      OBVIOUS
    <3> QED
      BY <3>1, <3>2, <3>3 DEF UpTo
  <2>3. UpTo(goes, k) \cup UpTo(stays, k) = 1..k
    BY <2>2
  <2>4. k \in Nat
    OBVIOUS
  <2> QED
    BY <1>2, <2>1, <2>3, <2>4
<1>4. Cardinality(goes) + Cardinality(stays) = n
  BY <1>2
<1> QED
  BY <1>1, <1>3, <1>4

\* Where RemoveAllSwap takes what lies at a place.
Place(goes, stays, k) ==
    IF k \in stays THEN k
    ELSE CHOOSE l \in stays : Cardinality(From(stays, l)) = Cardinality(UpTo(goes, k))

\* It takes each that stays, once.
LEMMA PlacesAre ==
    ASSUME NEW n \in Nat, NEW goes, NEW stays, AreParts(n, goes, stays)
    PROVE  LET s == Cardinality(stays) IN
           /\ s \in 0..n
           /\ \A k \in 1..s : Place(goes, stays, k) \in stays
           /\ \A k, l \in 1..s : Place(goes, stays, k) = Place(goes, stays, l) => k = l
           /\ \A l \in stays : \E k \in 1..s : Place(goes, stays, k) = l
<1> DEFINE s == Cardinality(stays)
           P(k) == Place(goes, stays, k)
           Below(k) == Cardinality(UpTo(goes, k))
           Stay(k) == Cardinality(UpTo(stays, k))
           After(k) == Cardinality(From(stays, k))
<1>1. /\ IsPlaces(goes) /\ IsPlaces(stays)
      /\ Cardinality(goes) + s = n
      /\ \A k \in 0..n : Below(k) \in 0..k /\ Stay(k) \in 0..k /\ Below(k) + Stay(k) = k
  <2>1. /\ IsPlaces(goes) /\ IsPlaces(stays)
        /\ Cardinality(goes) + Cardinality(stays) = n
        /\ \A k \in 0..n : /\ Cardinality(UpTo(goes, k)) \in 0..k
                           /\ Cardinality(UpTo(stays, k)) \in 0..k
                           /\ Cardinality(UpTo(goes, k)) + Cardinality(UpTo(stays, k)) = k
    BY UpToParts
  <2> QED
    BY <2>1
<1>2. Cardinality(goes) \in Nat /\ s \in 0..n
  <2>1. Cardinality(goes) \in Nat /\ s \in Nat
    BY <1>1, FS_CardinalityType DEF IsPlaces
  <2> QED
    BY <1>1, <2>1
<1>3. /\ \A l \in stays : After(l) = s + 1 - Stay(l)
      /\ \A k, l \in stays : After(k) = After(l) => k = l
      /\ \A m \in 1..s : \E l \in stays : After(l) = m
  BY <1>1, FromReaches
<1>4. /\ \A k \in goes : Below(k) >= 1
      /\ \A k, l \in goes : Below(k) = Below(l) => k = l
  <2>1. /\ \A k \in goes : Below(k) \in 1..Cardinality(goes)
        /\ \A k, l \in goes : Below(k) = Below(l) => k = l
    BY <1>1, UpToReaches
  <2> HIDE DEF Below
  <2> QED
    BY <1>2, <2>1
<1>5. ASSUME NEW k \in 0..n, NEW l \in 0..n, k <= l
      PROVE  Below(k) <= Below(l) /\ Stay(k) <= Stay(l)
  BY <1>1, <1>5, UpToMonotone
<1>6. stays \subseteq 1..n /\ goes \subseteq 1..n /\ goes \cup stays = 1..n
  BY DEF AreParts
<1>7. \A k : P(k) = IF k \in stays THEN k ELSE CHOOSE l \in stays : After(l) = Below(k)
  BY DEF Place
<1> HIDE DEF s, P, Below, Stay, After
<1>8. ASSUME NEW k \in 1..s, k \notin stays
      PROVE  k \in goes /\ P(k) \in stays /\ After(P(k)) = Below(k) /\ P(k) > s
  <2>1. k \in 1..n /\ k \in 0..n /\ k <= s /\ s \in 0..n
    BY <1>2
  <2>2. k \in goes
    BY <1>6, <1>8, <2>1
  <2>3. Below(k) \in 1..s
    BY <1>1, <1>2, <1>4, <2>1, <2>2
  <2>4. \E l \in stays : After(l) = Below(k)
    BY <1>3, <2>3
  <2>5. P(k) = CHOOSE l \in stays : After(l) = Below(k)
    BY <1>7, <1>8
  <2>6. P(k) \in stays /\ After(P(k)) = Below(k)
    BY <2>4, <2>5
  <2>7. ASSUME P(k) <= s PROVE FALSE
    <3>1. P(k) \in 0..n
      BY <1>6, <2>6
    <3>2. Stay(P(k)) <= Stay(s) /\ Below(k) <= Below(s)
      BY <1>5, <2>1, <2>7, <3>1
    <3>3. Below(s) + Stay(s) = s /\ Below(s) \in Nat /\ Stay(s) \in Nat /\ Stay(P(k)) \in Nat /\ Below(k) \in Nat
      BY <1>1, <2>1, <3>1
    <3>4. After(P(k)) = s + 1 - Stay(P(k))
      BY <1>3, <2>6
    <3> QED
      BY <2>1, <2>6, <3>2, <3>3, <3>4
  <2>8. P(k) \in Int /\ s \in Int
    BY <1>2, <1>6, <2>6
  <2> QED
    BY <2>2, <2>6, <2>7, <2>8
<1>9. ASSUME NEW k \in 1..s PROVE P(k) \in stays
  BY <1>7, <1>8
<1>10. ASSUME NEW k \in 1..s, NEW l \in 1..s, P(k) = P(l) PROVE k = l
  <2>1. CASE k \in stays /\ l \in stays
    BY <1>7, <1>10, <2>1
  <2>2. CASE k \notin stays /\ l \notin stays
    BY <1>4, <1>8, <1>10, <2>2
  <2>3. CASE k \in stays /\ l \notin stays
    BY <1>2, <1>7, <1>8, <1>10, <2>3
  <2>4. CASE k \notin stays /\ l \in stays
    BY <1>2, <1>7, <1>8, <1>10, <2>4
  <2> QED
    BY <2>1, <2>2, <2>3, <2>4
<1>11. ASSUME NEW l \in stays PROVE \E k \in 1..s : P(k) = l
  <2> DEFINE f == [k \in 1..s |-> P(k)]
  <2>1. f \in [1..s -> stays]
    BY <1>9
  <2>2. \A j, k \in 1..s : f[j] = f[k] => j = k
    BY <1>10
  <2>3. \A k \in 1..s : f[k] = P(k)
    OBVIOUS
  <2> HIDE DEF f
  <2>4. f \in Injection(1..s, stays)
    BY <2>1, <2>2 DEF Injection, IsInjective
  <2>5. IsFiniteSet(1..s) /\ Cardinality(1..s) = s /\ IsFiniteSet(stays)
    BY <1>1, <1>2, FS_Interval DEF IsPlaces
  <2>6. f \in Surjection(1..s, stays)
    BY <2>4, <2>5, FS_Injection DEF s
  <2> QED
    BY <2>3, <2>6 DEF Surjection
<1> QED
  BY <1>2, <1>9, <1>10, <1>11 DEF s, P

LEMMA RemoveAllSwapIs ==
    ASSUME NEW S, NEW list \in Seq(S), NEW goes \in SUBSET DOMAIN list,
           NEW stays, stays = DOMAIN list \ goes
    PROVE  RemoveAllSwap(list, goes) = [k \in 1..Cardinality(stays) |-> list[Place(goes, stays, k)]]
<1>1. \A k : /\ { j \in stays : j >= k } = From(stays, k)
             /\ { j \in goes : j <= k } = UpTo(goes, k)
  BY DEF From, UpTo
<1> DEFINE Last(n) == CHOOSE k \in stays : Cardinality(From(stays, k)) = n
<1>2. RemoveAllSwap(list, goes) =
         [k \in 1..Cardinality(stays) |-> IF k \in stays THEN list[k] ELSE list[Last(Cardinality(UpTo(goes, k)))]]
  BY DEF RemoveAllSwap, From, UpTo
<1>3. \A k : Place(goes, stays, k) = IF k \in stays THEN k ELSE Last(Cardinality(UpTo(goes, k)))
  BY DEF Place
<1> HIDE DEF Last
<1>4. \A k \in 1..Cardinality(stays) :
         (IF k \in stays THEN list[k] ELSE list[Last(Cardinality(UpTo(goes, k)))]) = list[Place(goes, stays, k)]
  BY <1>3
<1> QED
  BY <1>2, <1>4

LEMMA RemoveTokensKeeps ==
    ASSUME Sound, ~halted, NEW i \in DOMAIN item, NEW c, RemoveTokensByClass(i, c)
    PROVE  Sound' /\ Frozen
<1> DEFINE was == item[i].tokens
           goes == { k \in DOMAIN was : token[was[k]].class = c }
           stays == DOMAIN was \ goes
           list == RemoveAllSwap(was, goes)
           gone == { was[k] : k \in goes }
           s == Cardinality(stays)
           P(k) == Place(goes, stays, k)
<1>1. i \in Editable /\ Become(i, token, list, gone, {})
  BY DEF RemoveTokensByClass
<1>2. was \in Seq(DOMAIN token) /\ \A k, l \in DOMAIN was : was[k] = was[l] => k = l
  BY DEF Sound, Listed, IsListed
<1>3. \A u : Holds(item[i], u) <=> \E k \in DOMAIN was : was[k] = u
  BY DEF Holds
<1>4. \A u : u \in gone <=> \E k \in goes : was[k] = u
  OBVIOUS
<1>5. goes \in SUBSET DOMAIN was
  OBVIOUS
<1> HIDE DEF was, goes, gone
<1>6. PICK n \in Nat : DOMAIN was = 1..n
  BY <1>2
<1>7. /\ goes \cup stays = 1..n /\ goes \cap stays = {} /\ stays \subseteq DOMAIN was
      /\ AreParts(n, goes, stays)
  BY <1>5, <1>6 DEF AreParts
<1>8. list = [k \in 1..s |-> was[P(k)]]
  BY <1>2, <1>5, RemoveAllSwapIs
<1> HIDE DEF stays
<1>9. /\ s \in 0..n
      /\ \A k \in 1..s : P(k) \in stays
      /\ \A k, l \in 1..s : P(k) = P(l) => k = l
      /\ \A l \in stays : \E k \in 1..s : P(k) = l
  BY <1>7, PlacesAre
<1> HIDE DEF P, list, s
<1>10. DOMAIN list = 1..s /\ \A k \in 1..s : list[k] = was[P(k)]
  BY <1>8
<1>11. IsListed(list, token)
  <2>1. \A k \in 1..s : was[P(k)] \in DOMAIN token
    BY <1>2, <1>7, <1>9
  <2>2. list \in Seq(DOMAIN token)
    BY <1>8, <1>9, <2>1
  <2>3. \A k, l \in 1..s : list[k] = list[l] => k = l
    BY <1>2, <1>7, <1>9, <1>10
  <2> QED
    BY <1>10, <2>2, <2>3 DEF IsListed
<1>12. ASSUME NEW u
       PROVE  (\E k \in DOMAIN list : list[k] = u) <=> (Holds(item[i], u) /\ u \notin gone)
  <2>1. (\E k \in DOMAIN list : list[k] = u) <=> \E l \in stays : was[l] = u
    BY <1>9, <1>10
  <2>2. (\E l \in stays : was[l] = u) <=> (Holds(item[i], u) /\ u \notin gone)
    <3>1. \A l \in DOMAIN was : (l \in goes \/ l \in stays) /\ ~(l \in goes /\ l \in stays)
      BY <1>6, <1>7
    <3> QED
      BY <1>2, <1>3, <1>4, <1>5, <1>7, <3>1
  <2> QED
    BY <2>1, <2>2
<1>13. gone \subseteq DOMAIN token /\ \A u \in gone : Holds(item[i], u)
  BY <1>2, <1>3, <1>4, <1>5
<1>14. MayBecome(i, token, list, gone, {})
  BY <1>1, <1>11, <1>12, <1>13, SameFollows DEF MayBecome
<1> QED
  BY <1>1, <1>14, BecomeKeeps

-----------------------------------------------------------------------------
(* Edits of a token.                                                        *)

LEMMA EditTokenKeeps ==
    ASSUME Sound, ~halted, NEW t \in DOMAIN token, NEW x \in Data, EditToken(t, x)
    PROVE  Sound' /\ OwnEdits
<1> DEFINE i == token[t].outer
<1>1. /\ IsMutable(t) /\ Obtainable(t)
      /\ token' = [token EXCEPT ![t].data = x]
      /\ UNCHANGED <<item, owned>>
  BY DEF EditToken
<1>2. token \in Seq(Token) /\ item \in Seq(SomeItem) /\ Len(seen) = Len(item)
      /\ seen \in Seq(Shown) /\ registered \subseteq DOMAIN token
  BY DEF Sound, Typed
<1>3. /\ token' \in Seq(Token) /\ Len(token') = Len(token) /\ DOMAIN token' = DOMAIN token
      /\ \A u \in DOMAIN token : /\ token'[u].class = token[u].class
                                 /\ token'[u].outer = token[u].outer
                                 /\ u # t => token'[u] = token[u]
  <2> DEFINE old == token[t]
             new == [old EXCEPT !.data = x]
  <2>1. token' = [token EXCEPT ![t] = new]
    BY <1>1
  <2>2. old \in Token
    BY <1>2
  <2> HIDE DEF old
  <2>3. new \in Token /\ new.class = old.class /\ new.outer = old.outer
    BY <2>2 DEF Token
  <2> HIDE DEF new
  <2>4. /\ token' \in Seq(Token) /\ Len(token') = Len(token) /\ DOMAIN token' = DOMAIN token
        /\ token'[t] = new
        /\ \A u \in DOMAIN token : u # t => token'[u] = token[u]
    BY <1>2, <2>1, <2>3
  <2> QED
    BY <2>3, <2>4 DEF old
<1>4. \A u \in DOMAIN token : IsMutable(u)' = IsMutable(u)
  BY <1>3 DEF IsMutable
<1>5. owned \subseteq DOMAIN item /\ \A j \in owned : CanMutate(item[j])
  BY DEF Sound, OwnedCanMutate, Editable
<1>6. \A j \in DOMAIN item : Holds(item[j], t) => i = j /\ i # Transient
  BY <1>1, <1>2 DEF Sound, HoldersOwn, Transient
<1>7. ASSUME NEW j \in DOMAIN item, ~Holds(item[j], t)
      PROVE  Content(token', item[j]) = Content(token, item[j])
  <2>1. \A k \in DOMAIN item[j].tokens : item[j].tokens[k] \in DOMAIN token /\ item[j].tokens[k] # t
    BY <1>7 DEF Holds, Sound, Listed, IsListed
  <2>2. \A k \in DOMAIN item[j].tokens : token'[item[j].tokens[k]] = token[item[j].tokens[k]]
    BY <1>3, <2>1
  <2> QED
    BY <2>2, SameContent
<1>8. \A j \in DOMAIN item : IsListed(item[j].tokens, token')
  BY <1>3, ListedStays DEF Sound, Listed
<1>9. /\ registered' = registered
      /\ seen' \in Seq(Shown) /\ Len(seen') = Len(item)
      /\ \A j \in owned : seen'[j] = IF j = i THEN Content(token', item[j]) ELSE seen[j]
  <2>1. CASE i = Transient
    <3>1. seen' = seen /\ registered' = registered
      BY <2>1 DEF EditToken
    <3>2. \A j \in owned : j # i
      BY <1>2, <1>5, <2>1 DEF Transient
    <3> QED
      BY <1>2, <3>1, <3>2
  <2>2. CASE i # Transient /\ i \in owned
    <3>1. NotifyOwner(i, token', item[i], {}, {})
      BY <1>5, <2>2 DEF EditToken, NotifyOuterOfChange
    <3>2. seen' = [seen EXCEPT ![i] = Content(token', item[i])] /\ registered' = Registered(registered, {}, {})
      BY <2>2, <3>1 DEF NotifyOwner
    <3>3. registered' = registered
      BY <3>2 DEF Registered
    <3>4. Content(token', item[i]) \in Shown
      BY <1>3, <1>5, <1>8, <2>2, ContentType
    <3> QED
      BY <1>2, <1>5, <2>2, <3>2, <3>3, <3>4
  <2>3. CASE i # Transient /\ i \notin owned
    <3>1. seen' = seen /\ registered' = registered
      BY <2>3 DEF EditToken, NotifyOuterOfChange, NotifyOwner
    <3> QED
      BY <1>2, <2>3, <3>1
  <2> QED
    BY <2>1, <2>2, <2>3
<1>10. Typed'
  BY <1>1, <1>2, <1>3, <1>9 DEF Typed
<1>11. Listed' /\ OutersExist' /\ HoldersOwn' /\ OwnedCanMutate'
  <2>1. Listed'
    BY <1>1, <1>8 DEF Listed
  <2>2. OutersExist'
    BY <1>1, <1>3 DEF OutersExist, Sound
  <2>3. HoldersOwn'
    BY <1>1, <1>3, <1>4 DEF HoldersOwn, Sound
  <2>4. OwnedCanMutate'
    BY <1>1 DEF OwnedCanMutate, Editable, Sound
  <2> QED
    BY <2>1, <2>2, <2>3, <2>4
<1>12. OwnerSeesEveryChange'
  <2> SUFFICES ASSUME NEW j \in owned PROVE seen'[j] = Content(token', item[j])
    BY <1>1 DEF OwnerSeesEveryChange
  <2>1. CASE j = i
    BY <1>9, <2>1
  <2>2. CASE j # i
    <3>1. Content(token', item[j]) = Content(token, item[j])
      BY <1>5, <1>6, <1>7, <2>2
    <3> QED
      BY <1>9, <2>2, <3>1 DEF Sound, OwnerSeesEveryChange
  <2> QED
    BY <2>1, <2>2
<1>13. Replicates'
  BY <1>1, <1>3, <1>4, <1>9 DEF Replicates, Sound
<1>14. OwnEdits
  <2> SUFFICES ASSUME NEW j \in DOMAIN item, ~CanMutate(item[j]),
                      NEW u \in DOMAIN token, Holds(item[j], u), Tells(token'[u]) # Tells(token[u])
               PROVE  /\ IsDataMutable(item[j]) /\ IsMutable(u)
                      /\ \A l \in DOMAIN item : Holds(item[l], u) => l = j
    BY <1>1 DEF OwnEdits
  <2>1. u = t
    BY <1>3
  <2>2. i = j /\ i # Transient /\ j \notin Editable
    BY <1>6, <2>1 DEF Editable
  <2>3. \E l \in DOMAIN item : IsDataMutable(item[l]) /\ Holds(item[l], t)
    BY <1>1, <2>2 DEF Obtainable, Holds
  <2> QED
    BY <1>1, <1>6, <2>1, <2>2, <2>3
<1> QED
  BY <1>10, <1>11, <1>12, <1>13, <1>14 DEF Sound

-----------------------------------------------------------------------------
(* What is always so.                                                       *)

LEMMA StepsKeep == Sound /\ [Next]_vars => Sound' /\ OwnEdits
<1> SUFFICES ASSUME Sound, [Next]_vars PROVE Sound' /\ OwnEdits
  OBVIOUS
<1>1. CASE UNCHANGED vars
  BY <1>1, StutterKeeps, FrozenIsOwn
<1>2. CASE Next
  <2>1. ~halted
    BY <1>2 DEF Next
  <2>2. ASSUME NEW c \in Classes, NEW x \in Data, NewToken(c, x) PROVE Sound' /\ OwnEdits
    BY <2>1, <2>2, NewTokenKeeps, FrozenIsOwn
  <2>3. ASSUME NEW n \in 0..MaxHeld, NEW list \in [1..n -> DOMAIN token], NEW m \in Mutability,
               \A j, k \in 1..n : j < k => list[j] < list[k], CreateNewInstance(list, m)
        PROVE  Sound' /\ OwnEdits
    <3>1. n \in Nat
      BY ItemInstancesAssumption
    <3> QED
      BY <2>1, <2>3, <3>1, NewInstanceKeeps, FrozenIsOwn
  <2>4. ASSUME NEW i \in DOMAIN item, NEW m \in Mutability, CreateInstance(i, m) PROVE Sound' /\ OwnEdits
    BY <2>1, <2>4, DuplicateKeeps, FrozenIsOwn DEF CreateInstance
  <2>5. ASSUME NEW i \in DOMAIN item, DuplicateForMutation(i) PROVE Sound' /\ OwnEdits
    BY <2>1, <2>5, DuplicateKeeps, FrozenIsOwn DEF DuplicateForMutation, Mutability
  <2>6. ASSUME NEW i \in DOMAIN item, TakeOwnership(i) PROVE Sound' /\ OwnEdits
    BY <2>1, <2>6, TakeKeeps, FrozenIsOwn
  <2>7. ASSUME NEW i \in DOMAIN item, ReleaseOwnership(i) PROVE Sound' /\ OwnEdits
    BY <2>1, <2>7, ReleaseKeeps, FrozenIsOwn
  <2>8. ASSUME NEW i \in DOMAIN item, NEW t \in DOMAIN token, ~Holds(item[i], t), AddToken(i, t)
        PROVE  Sound' /\ OwnEdits
    BY <2>1, <2>8, AddTokenKeeps, FrozenIsOwn
  <2>9. ASSUME NEW i \in DOMAIN item, NEW t \in DOMAIN token, RemoveToken(i, t) PROVE Sound' /\ OwnEdits
    BY <2>1, <2>9, RemoveTokenKeeps, FrozenIsOwn
  <2>10. ASSUME NEW i \in DOMAIN item, NEW t \in DOMAIN token, NEW u \in DOMAIN token,
                u = t \/ ~Holds(item[i], u), ReplaceToken(i, t, u)
         PROVE  Sound' /\ OwnEdits
    BY <2>1, <2>10, ReplaceTokenKeeps, FrozenIsOwn
  <2>11. ASSUME NEW i \in DOMAIN item, NEW c \in Classes, RemoveTokensByClass(i, c)
         PROVE  Sound' /\ OwnEdits
    BY <2>1, <2>11, RemoveTokensKeeps, FrozenIsOwn
  <2>12. ASSUME NEW t \in DOMAIN token, NEW x \in Data, EditToken(t, x) PROVE Sound' /\ OwnEdits
    BY <2>1, <2>12, EditTokenKeeps
  <2> QED
    BY <1>2, <2>2, <2>3, <2>4, <2>5, <2>6, <2>7, <2>8, <2>9, <2>10, <2>11, <2>12 DEF Next
<1> QED
  BY <1>1, <1>2

\* The invariant holds of every run.
THEOREM ItemsStaySound == Spec => []Sound
BY InitSound, StepsKeep, PTL DEF Spec

\* The container that owns an item has seen every change of it, and of mutable
\* tokens its actor replicates those in items it owns and no others, whatever
\* was done to items and to tokens in whatever order (TakeOwnership,
\* OnItemMutated and OnTokenEdited).
THEOREM OwnersAlwaysKeepTrack == Spec => []OwnersKeepTrack
BY ItemsStaySound, SoundOwnersKeepTrack, PTL

\* An item that cannot mutate keeps its tokens, and what these tell is changed
\* by nothing that is done to its duplicates, to instances made from it, and to
\* tokens that were elsewhere: only by an edit of a mutable token that it alone
\* holds, which GetMutableToken gives of such an item too (CreateDuplicate,
\* CreateInstance, EditToken).
THEOREM ImmutablesChangeByOwnEdits == Spec => OnlyOwnEditsChangeImmutables
<1>1. Sound /\ [Next]_vars =>
         [\A i \in DOMAIN item : ~CanMutate(item[i]) =>
            /\ item'[i] = item[i]
            /\ \A t \in DOMAIN token : Holds(item[i], t) /\ Tells(token'[t]) # Tells(token[t]) =>
                 /\ IsDataMutable(item[i]) /\ IsMutable(t)
                 /\ \A j \in DOMAIN item : Holds(item[j], t) => j = i]_vars
  BY StepsKeep DEF OwnEdits
<1> QED
  BY <1>1, ItemsStaySound, PTL DEF Spec, OnlyOwnEditsChangeImmutables

-----------------------------------------------------------------------------
(* The comparison of items by the hashes of their tokens.                   *)

\* Each place of b has one of a, of its own and with the same hash: that of the
\* same token if there is one.
IsPairing(a, b, g) ==
    /\ g \in [DOMAIN b.tokens -> DOMAIN a.tokens]
    /\ \A k, l \in DOMAIN b.tokens : g[k] = g[l] => k = l
    /\ \A k \in DOMAIN b.tokens :
          /\ HashAt(a, g[k]) = HashAt(b, k)
          /\ Holds(a, b.tokens[k]) => a.tokens[g[k]] = b.tokens[k]

LEMMA MatchPairs ==
    ASSUME NEW a, NEW b, HashesMatch(a, b),
           \A k, l \in DOMAIN b.tokens : b.tokens[k] = b.tokens[l] => k = l
    PROVE  \E g : IsPairing(a, b, g)
<1> DEFINE Same(k) == CHOOSE l \in DOMAIN a.tokens : a.tokens[l] = b.tokens[k]
           Like(k) == CHOOSE l \in Besides(a, b) : HashAt(a, l) = HashAt(b, k)
           g == [k \in DOMAIN b.tokens |-> IF Holds(a, b.tokens[k]) THEN Same(k) ELSE Like(k)]
<1>1. ASSUME NEW k \in DOMAIN b.tokens, Holds(a, b.tokens[k])
      PROVE  /\ g[k] \in DOMAIN a.tokens /\ a.tokens[g[k]] = b.tokens[k]
             /\ HashAt(a, g[k]) = HashAt(b, k)
             /\ Holds(b, a.tokens[g[k]])
  <2>1. Same(k) \in DOMAIN a.tokens /\ a.tokens[Same(k)] = b.tokens[k]
    BY <1>1 DEF Holds
  <2>2. g[k] = Same(k)
    BY <1>1
  <2> HIDE DEF g, Same
  <2> QED
    BY <2>1, <2>2 DEF HashAt, Holds
<1>2. ASSUME NEW k \in DOMAIN b.tokens, ~Holds(a, b.tokens[k])
      PROVE  /\ g[k] \in DOMAIN a.tokens /\ HashAt(a, g[k]) = HashAt(b, k)
             /\ ~Holds(b, a.tokens[g[k]])
             /\ \A l \in DOMAIN b.tokens : l # k /\ ~Holds(a, b.tokens[l]) => HashAt(b, l) # HashAt(b, k)
  <2>1. k \in Besides(b, a)
    BY <1>2 DEF Besides
  <2>2. Like(k) \in Besides(a, b) /\ HashAt(a, Like(k)) = HashAt(b, k)
    BY <2>1 DEF HashesMatch
  <2>3. g[k] = Like(k)
    BY <1>2
  <2> HIDE DEF g, Like
  <2>4. \A l \in Besides(b, a) : l # k => HashAt(b, l) # HashAt(b, k)
    BY <2>1 DEF HashesMatch
  <2> QED
    BY <2>2, <2>3, <2>4 DEF Besides
<1> HIDE DEF Same, Like
<1>3. g = [k \in DOMAIN b.tokens |-> g[k]]
  OBVIOUS
<1> HIDE DEF g
<1>4. g \in [DOMAIN b.tokens -> DOMAIN a.tokens]
  BY <1>1, <1>2, <1>3
<1>5. ASSUME NEW k \in DOMAIN b.tokens, NEW l \in DOMAIN b.tokens, g[k] = g[l]
      PROVE  k = l
  <2>1. CASE Holds(a, b.tokens[k]) /\ Holds(a, b.tokens[l])
    BY <1>1, <1>5, <2>1
  <2>2. CASE ~Holds(a, b.tokens[k]) /\ ~Holds(a, b.tokens[l])
    BY <1>2, <1>5, <2>2
  <2> QED
    BY <1>1, <1>2, <1>5, <2>1, <2>2
<1>6. IsPairing(a, b, g)
  BY <1>1, <1>2, <1>4, <1>5 DEF IsPairing
<1> QED
  BY <1>6

\* A hash is as often in what is paired with it.
LEMMA PairedCounts ==
    ASSUME NEW a, NEW b, NEW n \in Nat, NEW m \in Nat,
           DOMAIN a.tokens = 1..n, DOMAIN b.tokens = 1..m,
           NEW g, IsPairing(a, b, g), NEW h
    PROVE  /\ HashCount(a, h) \in Nat /\ HashCount(b, h) \in Nat
           /\ HashCount(b, h) <= HashCount(a, h)
<1> DEFINE A == { k \in DOMAIN a.tokens : GetTokenHash(a.tokens[k]) = h }
           B == { k \in DOMAIN b.tokens : GetTokenHash(b.tokens[k]) = h }
           f == [k \in B |-> g[k]]
<1>1. HashCount(a, h) = Cardinality(A) /\ HashCount(b, h) = Cardinality(B)
  BY DEF HashCount
<1>2. A \subseteq 1..n /\ B \subseteq 1..m
  OBVIOUS
<1>3. \A k \in B : g[k] \in A
  BY DEF IsPairing, HashAt
<1>4. \A k, l \in B : g[k] = g[l] => k = l
  BY DEF IsPairing
<1> HIDE DEF A, B
<1>5. IsFiniteSet(A) /\ IsFiniteSet(B)
  <2>1. n \in Nat /\ m \in Nat
    OBVIOUS
  <2>2. IsFiniteSet(1..n) /\ IsFiniteSet(1..m)
    BY ONLY <2>1, FS_Interval
  <2> QED
    BY ONLY <1>2, <2>2, FS_Subset
<1>6. f \in Injection(B, A)
  <2>1. f \in [B -> A] /\ \A k, l \in B : f[k] = f[l] => k = l
    BY <1>3, <1>4
  <2> HIDE DEF f
  <2> QED
    BY <2>1 DEF Injection, IsInjective
<1> HIDE DEF f
<1>7. Cardinality(B) <= Cardinality(A)
  BY <1>5, <1>6, FS_Injection
<1> QED
  BY <1>1, <1>5, <1>7, FS_CardinalityType

\* What matches one way matches the other.
LEMMA MatchIsSymmetric ==
    ASSUME NEW a, NEW b, NEW n \in Nat, DOMAIN a.tokens = 1..n, DOMAIN b.tokens = 1..n,
           \A k, l \in DOMAIN b.tokens : b.tokens[k] = b.tokens[l] => k = l,
           HashesMatch(a, b)
    PROVE  HashesMatch(b, a)
<1>1. PICK g : IsPairing(a, b, g)
  BY MatchPairs
<1>2. g \in Injection(1..n, 1..n)
  BY <1>1 DEF IsPairing, Injection, IsInjective
<1>3. g \in Surjection(1..n, 1..n)
  BY <1>2, FS_Interval, FS_Injection
<1>4. ASSUME NEW k \in Besides(a, b)
      PROVE  \E l \in Besides(b, a) : g[l] = k /\ HashAt(b, l) = HashAt(a, k)
  <2>1. k \in 1..n /\ ~Holds(b, a.tokens[k])
    BY DEF Besides
  <2>2. PICK l \in 1..n : g[l] = k
    BY <1>3, <2>1 DEF Surjection
  <2>3. ~Holds(a, b.tokens[l])
    BY <1>1, <2>1, <2>2 DEF IsPairing, Holds
  <2> QED
    BY <1>1, <2>2, <2>3 DEF IsPairing, Besides
<1>5. ASSUME NEW j \in Besides(a, b), NEW k \in Besides(a, b), j # k
      PROVE  HashAt(a, j) # HashAt(a, k)
  <2>1. PICK p \in Besides(b, a) : g[p] = j /\ HashAt(b, p) = HashAt(a, j)
    BY <1>4
  <2>2. PICK q \in Besides(b, a) : g[q] = k /\ HashAt(b, q) = HashAt(a, k)
    BY <1>4
  <2>3. p # q
    BY <1>5, <2>1, <2>2
  <2> QED
    BY <2>1, <2>2, <2>3 DEF HashesMatch
<1> QED
  BY <1>4, <1>5 DEF HashesMatch

LEMMA SoundComparesWell == Sound => EqualItemsHaveEqualHashes
<1> SUFFICES ASSUME Sound PROVE EqualItemsHaveEqualHashes
  OBVIOUS
<1> DEFINE Equal(i, j) == Len(item[i].tokens) = Len(item[j].tokens) /\ HashesMatch(item[i], item[j])
<1>1. ASSUME NEW i \in DOMAIN item
      PROVE  /\ Len(item[i].tokens) \in Nat /\ DOMAIN item[i].tokens = 1..Len(item[i].tokens)
             /\ \A k, l \in DOMAIN item[i].tokens : item[i].tokens[k] = item[i].tokens[l] => k = l
  BY DEF Sound, Listed, IsListed
<1>2. ASSUME NEW i \in DOMAIN item, NEW j \in DOMAIN item, Equal(i, j)
      PROVE  Equal(j, i)
  BY <1>1, <1>2, MatchIsSymmetric
<1>3. ASSUME NEW i \in DOMAIN item, NEW j \in DOMAIN item, Equal(i, j), NEW h
      PROVE  HashCount(item[i], h) = HashCount(item[j], h)
  <2>1. PICK g : IsPairing(item[i], item[j], g)
    BY <1>1, <1>3, MatchPairs
  <2>2. PICK f : IsPairing(item[j], item[i], f)
    BY <1>1, <1>2, <1>3, MatchPairs
  <2>3. /\ HashCount(item[i], h) \in Nat /\ HashCount(item[j], h) \in Nat
        /\ HashCount(item[j], h) <= HashCount(item[i], h)
    BY <1>1, <2>1, PairedCounts
  <2>4. HashCount(item[i], h) <= HashCount(item[j], h)
    BY <1>1, <2>2, PairedCounts
  <2> QED
    BY <2>3, <2>4
<1>4. ASSUME NEW i \in DOMAIN item, NEW j \in DOMAIN item
      PROVE  CompareWith(i, j, "CheckTokensOnly") = IF i = j \/ Equal(i, j) THEN "equal" ELSE "unequal"
  BY DEF CompareWith
<1>5. ASSUME NEW i \in DOMAIN item, NEW j \in DOMAIN item, i # j,
             CompareWith(i, j, "Default") = "equal"
      PROVE  Equal(i, j)
  <2> DEFINE maskA == Mask(item[i])
             maskB == Mask(item[j])
  <2>1. CompareTokenMasks(maskA, maskB) = "equal"
    BY <1>5 DEF CompareWith
  <2>2. DOMAIN maskA = DOMAIN item[i].tokens /\ DOMAIN maskB = DOMAIN item[j].tokens
    BY DEF Mask
  <2>3. Len(maskA) = Len(item[i].tokens) /\ Len(maskB) = Len(item[j].tokens)
    BY <1>1 DEF Mask
  <2> HIDE DEF maskA, maskB
  <2>4. Len(maskA) = Len(maskB) /\ maskB = <<>>
    BY <2>1 DEF CompareTokenMasks
  <2>5. Len(item[i].tokens) = Len(item[j].tokens) /\ DOMAIN item[j].tokens = {}
    BY <2>2, <2>3, <2>4
  <2> QED
    BY <2>5 DEF HashesMatch, Besides
<1> HIDE DEF Equal
<1> QED
  BY <1>2, <1>3, <1>4, <1>5 DEF EqualItemsHaveEqualHashes

\* Of all items that are ever made, the comparison of tokens finds those equal
\* whose tokens' hashes agree, each as often, and says so of both alike; items
\* that the default comparison merges it finds equal too (CompareWith).
THEOREM ComparesByHashes == Spec => []EqualItemsHaveEqualHashes
BY ItemsStaySound, SoundComparesWell, PTL

-----------------------------------------------------------------------------
(* An actor that owns one stack and shows it.                               *)

PickupSpec == PickupInit /\ [][PickupNext]_pickupVars

Boxes == [item : Pieces \cup {NoPiece}, copies : Nat, key : Int, gen : Int]

\* The actor's container, its display, the hooks of its items and their data.
PickupContents ==
    [box    : Boxes,
     shown  : [item : Pieces \cup {NoPiece}, data : Int],
     hooked : SUBSET Pieces,
     data   : [Pieces -> Int]]

\* A container holds copies of an item under a key, or nothing at all; a
\* mutable item in it has the container's hook.
BoxIsSound(w) ==
    /\ w \in PickupContents
    /\ w.box.gen >= BoxGenReset
    /\ w.box.item = NoPiece <=> w.box.copies = 0
    /\ w.box.item = NoPiece <=> w.box.key = Unset
    /\ w.box.item \in MutablePieces => w.box.item \in w.hooked

\* What DisplayData shows of a container.
DisplayOf(w) ==
    IF w.box.item = NoPiece THEN Blank ELSE [item |-> w.box.item, data |-> w.data[w.box.item]]

DisplayIsFresh(w) == phase = "begun" => w.shown = DisplayOf(w)

\* A save names the key and the copies of an item, or nothing.
SaveIsSound ==
    /\ disk \in [item : Pieces \cup {NoPiece}, copies : Nat, key : Int, data : Int]
    /\ disk.key # Unset => disk.item # NoPiece /\ disk.copies > 0 /\ disk.key >= BoxGenReset

KeysCome == box.key # Unset => box.key >= BoxGenReset

PickupInv ==
    /\ BoxIsSound(Pickup)
    /\ KeysCome
    /\ DisplayIsFresh(Pickup)
    /\ SaveIsSound

-----------------------------------------------------------------------------
(* What the calls make of a sound container.                                *)

\* A display is that of what lies there, and changes nothing else.
LEMMA RedisplayShows ==
    ASSUME NEW w, BoxIsSound(w)
    PROVE  /\ BoxIsSound(Redisplayed(w))
           /\ Redisplayed(w).box = w.box
           /\ Redisplayed(w).shown = DisplayOf(w)
           /\ DisplayOf(Redisplayed(w)) = DisplayOf(w)
<1> DEFINE r == Redisplayed(w)
<1>1. w.box \in Boxes /\ w.data \in [Pieces -> Int] /\ w \in PickupContents
  BY DEF BoxIsSound, PickupContents
<1>2. DisplayOf(w) \in [item : Pieces \cup {NoPiece}, data : Int]
  BY <1>1 DEF DisplayOf, Blank, Boxes
<1>3. r = [w EXCEPT !.shown = DisplayOf(w)]
  BY DEF Redisplayed, DisplayOf
<1>4. /\ r \in PickupContents /\ r.box = w.box /\ r.shown = DisplayOf(w)
      /\ r.hooked = w.hooked /\ r.data = w.data
  BY <1>1, <1>2, <1>3 DEF PickupContents
<1> QED
  BY <1>4 DEF BoxIsSound, DisplayOf

\* After a broadcast the display is fresh.
LEMMA BroadcastShows ==
    ASSUME NEW w, BoxIsSound(w)
    PROVE  /\ BoxIsSound(BroadcastChange(w))
           /\ BroadcastChange(w).box = w.box
           /\ DisplayIsFresh(BroadcastChange(w))
BY RedisplayShows DEF BroadcastChange, DisplayIsFresh

\* An empty container is one.
LEMMA EmptiedIsBox ==
    ASSUME NEW b \in Boxes
    PROVE  [b EXCEPT !.item = NoPiece, !.copies = 0, !.key = Unset] \in Boxes
<1>1. [b EXCEPT !.item = NoPiece] \in Boxes
  BY DEF Boxes
<1>2. ASSUME NEW c \in Boxes PROVE [c EXCEPT !.copies = 0] \in Boxes
  BY DEF Boxes
<1>3. ASSUME NEW c \in Boxes PROVE [c EXCEPT !.key = Unset] \in Boxes
  BY DEF Boxes, Unset
<1> QED
  BY <1>1, <1>2, <1>3

\* Taking copies that lie there.
LEMMA TakingIsSound ==
    ASSUME NEW w, BoxIsSound(w), w.box.item # NoPiece,
           NEW copies \in Int,
           copies = WholeStack \/ (copies > 0 /\ copies <= w.box.copies)
    PROVE  LET t == TakeFromBox(w, copies)
           IN  /\ BoxIsSound(t) /\ DisplayIsFresh(t)
               /\ t.box.key \in {w.box.key, Unset}
               /\ copies = WholeStack => t.box.item = NoPiece
<1> DEFINE emptied == [w EXCEPT !.box = [@ EXCEPT !.item = NoPiece, !.copies = 0, !.key = Unset],
                                !.hooked = @ \ {w.box.item}]
           less    == [w EXCEPT !.box.copies = @ - copies]
<1>1. /\ w \in PickupContents /\ w.box \in Boxes /\ w.hooked \subseteq Pieces
      /\ w.box.gen >= BoxGenReset /\ w.box.copies \in Nat
  BY DEF BoxIsSound, PickupContents, Boxes
<1>2. CASE copies = WholeStack \/ copies = w.box.copies
  <2>1. TakeFromBox(w, copies) = BroadcastChange(emptied)
    BY <1>2 DEF TakeFromBox
  <2> DEFINE nothing == [w.box EXCEPT !.item = NoPiece, !.copies = 0, !.key = Unset]
             unhooked == w.hooked \ {w.box.item}
  <2>a. emptied = [w EXCEPT !.box = nothing, !.hooked = unhooked]
    BY <1>1 DEF PickupContents
  <2>b. nothing \in Boxes /\ unhooked \in SUBSET Pieces
    <3>1. nothing \in Boxes
      BY <1>1, EmptiedIsBox
    <3>2. unhooked \in SUBSET Pieces
      BY <1>1
    <3> QED
      BY <3>1, <3>2
  <2>2. emptied \in PickupContents /\ emptied.box = nothing
    <3> HIDE DEF nothing, unhooked, emptied
    <3> QED
      BY <1>1, <2>a, <2>b DEF PickupContents
  <2>3. BoxIsSound(emptied) /\ emptied.box.item = NoPiece /\ emptied.box.key = Unset
    BY <1>1, <2>2, ItemPickupsAssumption DEF BoxIsSound, Boxes
  <2> HIDE DEF emptied
  <2> QED
    BY <2>1, <2>3, BroadcastShows
<1>3. CASE copies # WholeStack /\ copies # w.box.copies
  <2>1. TakeFromBox(w, copies) = BroadcastChange(less)
    BY <1>3 DEF TakeFromBox
  <2>2. /\ less.box = [w.box EXCEPT !.copies = @ - copies]
        /\ less.hooked = w.hooked
        /\ w.box.copies - copies \in Nat /\ w.box.copies - copies > 0
    BY <1>1, <1>3 DEF PickupContents, Boxes
  <2>3. less \in PickupContents /\ less.box.key = w.box.key /\ less.box.item = w.box.item
        /\ less.box.gen = w.box.gen /\ less.box.copies > 0
    BY <1>1, <2>2 DEF PickupContents, Boxes
  <2>4. BoxIsSound(less)
    BY <2>2, <2>3 DEF BoxIsSound
  <2> HIDE DEF less
  <2> QED
    BY <2>1, <2>3, <2>4, <1>3, BroadcastShows
<1> QED
  BY <1>2, <1>3

\* Storing an item where nothing or copies of it lie.
LEMMA StoringIsSound ==
    ASSUME NEW w, BoxIsSound(w), NEW piece \in Pieces, NEW copies \in Nat \ {0},
           w.box.item \in {NoPiece, piece}
    PROVE  LET s == StoreInBox(w, piece, copies)
           IN  /\ BoxIsSound(s) /\ DisplayIsFresh(s)
               /\ s.box.key = w.box.key \/ s.box.key >= BoxGenReset
<1> DEFINE key    == NextBoxKey(w.box.gen)
           placed == [w EXCEPT !.box = [item |-> piece, copies |-> copies, key |-> key, gen |-> key],
                               !.hooked = @ \cup ({piece} \cap MutablePieces)]
           more   == [w EXCEPT !.box.copies = @ + copies]
<1>1. /\ w \in PickupContents /\ w.box \in Boxes /\ w.hooked \subseteq Pieces
      /\ w.box.gen \in Int /\ w.box.gen >= BoxGenReset /\ w.box.copies \in Nat
  BY DEF BoxIsSound, PickupContents, Boxes
<1>2. piece # NoPiece
  BY ItemPickupsAssumption
<1>3. CASE piece # w.box.item
  <2>1. StoreInBox(w, piece, copies) = BroadcastChange(placed)
    BY <1>3 DEF StoreInBox
  <2>2. key \in Int /\ key >= BoxGenReset /\ key # Unset
    BY <1>1 DEF NextBoxKey, BoxGenReset, Unset
  <2> HIDE DEF key
  <2>3. /\ placed.box = [item |-> piece, copies |-> copies, key |-> key, gen |-> key]
        /\ placed.hooked = w.hooked \cup ({piece} \cap MutablePieces)
        /\ placed \in PickupContents
    BY <1>1, <2>2 DEF PickupContents, Boxes
  <2>4. BoxIsSound(placed) /\ placed.box.key = key
    BY <1>2, <2>2, <2>3 DEF BoxIsSound
  <2> HIDE DEF placed
  <2> QED
    BY <2>1, <2>2, <2>4, BroadcastShows
<1>4. CASE piece = w.box.item
  <2>1. StoreInBox(w, piece, copies) = BroadcastChange(more)
    BY <1>4 DEF StoreInBox
  <2>2. /\ more.box = [w.box EXCEPT !.copies = @ + copies]
        /\ more.hooked = w.hooked
        /\ w.box.copies + copies \in Nat /\ w.box.copies + copies > 0
    BY <1>1 DEF PickupContents, Boxes
  <2>3. more \in PickupContents /\ more.box.key = w.box.key /\ more.box.item = w.box.item
        /\ more.box.gen = w.box.gen /\ more.box.copies > 0
    BY <1>1, <2>2 DEF PickupContents, Boxes
  <2>4. BoxIsSound(more)
    BY <1>2, <1>4, <2>2, <2>3 DEF BoxIsSound
  <2> HIDE DEF more
  <2> QED
    BY <2>1, <2>3, <2>4, BroadcastShows
<1> QED
  BY <1>3, <1>4

\* Possess stores or refuses.
LEMMA PossessingIsSound ==
    ASSUME NEW w, BoxIsSound(w), DisplayIsFresh(w), NEW piece \in Pieces, NEW copies \in Nat \ {0}
    PROVE  LET p == PossessedBy(w, piece, copies)
           IN  /\ BoxIsSound(p) /\ DisplayIsFresh(p)
               /\ p.box.key = w.box.key \/ p.box.key >= BoxGenReset
BY StoringIsSound DEF PossessedBy, CanSet

\* What a call makes of a sound container is sound.
LEMMA BecomesSound ==
    ASSUME NEW w, BoxIsSound(w), w.box.key # Unset => w.box.key >= BoxGenReset,
           BecomesPickup(w)
    PROVE  /\ Pickup' = w
           /\ BoxIsSound(Pickup)' /\ KeysCome'
<1>1. Pickup' = w
  BY DEF BecomesPickup, Pickup, BoxIsSound, PickupContents
<1>2. BoxIsSound(Pickup)' <=> BoxIsSound(Pickup')
  BY DEF BoxIsSound, PickupContents, Boxes
<1> QED
  BY <1>1, <1>2 DEF KeysCome, BecomesPickup

\* A container that is sound and that a call left fresh is what comes next.
LEMMA CallsKeepInv ==
    ASSUME NEW w, PickupInv, BoxIsSound(w), DisplayIsFresh(w),
           w.box.key # Unset => w.box.key >= BoxGenReset,
           BecomesPickup(w), UNCHANGED <<phase, disk>>
    PROVE  PickupInv'
<1>1. Pickup' = w /\ BoxIsSound(Pickup)' /\ KeysCome'
  BY BecomesSound
<1>2. DisplayIsFresh(Pickup)'
  BY <1>1 DEF DisplayIsFresh, DisplayOf
<1>3. SaveIsSound'
  BY DEF PickupInv, SaveIsSound
<1> QED
  BY <1>1, <1>2, <1>3 DEF PickupInv

\* What Clear makes of the container: nothing lies in it.
Cleared == IF Filled THEN TakeFromBox(Pickup, WholeStack) ELSE Pickup

LEMMA ClearedIsSound ==
    ASSUME PickupInv
    PROVE  /\ BoxIsSound(Cleared) /\ DisplayIsFresh(Cleared)
           /\ Cleared.box.key # Unset => Cleared.box.key >= BoxGenReset
           /\ Cleared.box.item = NoPiece
<1>1. BoxIsSound(Pickup) /\ DisplayIsFresh(Pickup) /\ Pickup.box = box
  BY DEF PickupInv, Pickup
<1>2. box.copies \in Nat
  BY <1>1 DEF BoxIsSound, PickupContents, Boxes
<1>3. CASE Filled
  <2>1. Pickup.box.item # NoPiece /\ Cleared = TakeFromBox(Pickup, WholeStack)
    BY <1>1, <1>3 DEF Filled, Cleared
  <2> QED
    BY <1>1, <2>1, TakingIsSound DEF WholeStack, PickupInv, KeysCome
<1>4. CASE ~Filled
  BY <1>1, <1>2, <1>4 DEF Cleared, Filled, PickupInv, KeysCome, BoxIsSound
<1> QED
  BY <1>3, <1>4

LEMMA PickupStarts == PickupInit => PickupInv
<1> SUFFICES ASSUME PickupInit PROVE PickupInv
  OBVIOUS
<1>1. box \in Boxes /\ box.item = NoPiece /\ box.copies = 0 /\ box.key = Unset /\ box.gen = BoxGenReset
  BY DEF PickupInit, Boxes, Unset, BoxGenReset
<1>2. Pickup \in PickupContents
  BY <1>1 DEF PickupInit, Pickup, PickupContents, Blank
<1>3. BoxIsSound(Pickup)
  BY <1>1, <1>2, ItemPickupsAssumption DEF BoxIsSound, Pickup, BoxGenReset
<1> QED
  BY <1>1, <1>3 DEF PickupInit, PickupInv, KeysCome, DisplayIsFresh, SaveIsSound, NoSave, Unset

LEMMA PickupSteps ==
    ASSUME PickupInv, [PickupNext]_pickupVars
    PROVE  PickupInv'
<1>1. /\ BoxIsSound(Pickup) /\ DisplayIsFresh(Pickup) /\ SaveIsSound /\ KeysCome
      /\ Pickup.box = box /\ Pickup.data = data /\ Pickup.hooked = hooked /\ Pickup.shown = shown
      /\ box \in Boxes /\ data \in [Pieces -> Int]
  BY DEF PickupInv, Pickup, BoxIsSound, PickupContents
<1>2. ASSUME NEW piece \in Pieces, NEW copies \in 0..MaxPieceCopies, NEW regenerate \in BOOLEAN,
             InitStackFromConfig(piece, copies, regenerate)
      PROVE  PickupInv'
  <2> DEFINE filled == IF copies > 0 THEN PossessedBy(Cleared, piece, copies) ELSE Cleared
             w      == IF regenerate THEN Redisplayed(filled) ELSE filled
  <2>1. BecomesPickup(w) /\ phase = "built" /\ UNCHANGED <<phase, disk>>
    BY <1>2 DEF InitStackFromConfig, Cleared
  <2>2. BoxIsSound(filled) /\ (filled.box.key # Unset => filled.box.key >= BoxGenReset)
    BY ClearedIsSound, PossessingIsSound, ItemPickupsAssumption
  <2>3. BoxIsSound(w) /\ w.box.key = filled.box.key
    <3> HIDE DEF filled
    <3> QED
      BY <2>2, RedisplayShows
  <2>4. DisplayIsFresh(w)
    BY <2>1 DEF DisplayIsFresh
  <2> QED
    BY <2>1, <2>2, <2>3, <2>4, CallsKeepInv
<1>3. CASE BeginPlay
  <2>1. /\ BecomesPickup(Redisplayed(Pickup)) /\ disk' = disk
        /\ BoxIsSound(Redisplayed(Pickup)) /\ Redisplayed(Pickup).box = box
    BY <1>1, <1>3, RedisplayShows DEF BeginPlay
  <2>2. Pickup' = Redisplayed(Pickup) /\ BoxIsSound(Pickup)' /\ KeysCome'
    BY <1>1, <2>1, BecomesSound DEF KeysCome
  <2>3. (Pickup').shown = DisplayOf(Pickup')
    BY <1>1, <2>2, RedisplayShows
  <2>4. DisplayIsFresh(Pickup)'
    BY <2>3 DEF DisplayIsFresh, DisplayOf
  <2>5. SaveIsSound'
    BY <1>1, <2>1 DEF SaveIsSound
  <2> QED
    BY <2>2, <2>4, <2>5 DEF PickupInv
<1>4. CASE EndPlay
  <2>1. /\ shown' = Blank /\ Blank \in [item : Pieces \cup {NoPiece}, data : Int]
        /\ phase' = "ended" /\ UNCHANGED <<box, hooked, data, disk>>
    BY <1>4 DEF EndPlay, Blank
  <2>2. Pickup' \in PickupContents
    BY <1>1, <2>1 DEF Pickup, PickupContents, BoxIsSound
  <2>3. (Pickup').box = box /\ (Pickup').hooked = hooked
    BY <2>1 DEF Pickup
  <2>4. BoxIsSound(Pickup)'
    BY <1>1, <2>2, <2>3 DEF BoxIsSound, PickupContents, Boxes
  <2> QED
    BY <1>1, <2>1, <2>4 DEF PickupInv, DisplayIsFresh, SaveIsSound, KeysCome
<1>5. ASSUME NEW piece \in Pieces, NEW copies \in Amounts,
             Possess(piece, copies) \/ SetOwnedStack(piece, copies)
      PROVE  PickupInv'
  <2>1. copies \in Nat \ {0}
    BY <1>5 DEF Amounts
  <2>2. CASE Possess(piece, copies)
    <3> DEFINE w == PossessedBy(Pickup, piece, copies)
    <3>1. BecomesPickup(w) /\ UNCHANGED <<phase, disk>>
      BY <2>2 DEF Possess
    <3>2. BoxIsSound(w) /\ DisplayIsFresh(w) /\ (w.box.key # Unset => w.box.key >= BoxGenReset)
      BY <1>1, <2>1, PossessingIsSound DEF KeysCome
    <3> HIDE DEF w
    <3> QED
      BY <3>1, <3>2, CallsKeepInv
  <2>3. CASE SetOwnedStack(piece, copies)
    <3> DEFINE w == PossessedBy(Cleared, piece, copies)
    <3>1. BecomesPickup(w) /\ UNCHANGED <<phase, disk>>
      BY <2>3 DEF SetOwnedStack, Cleared
    <3>2. BoxIsSound(w) /\ DisplayIsFresh(w) /\ (w.box.key # Unset => w.box.key >= BoxGenReset)
      BY <2>1, ClearedIsSound, PossessingIsSound
    <3> HIDE DEF w
    <3> QED
      BY <3>1, <3>2, CallsKeepInv
  <2> QED
    BY <1>5, <2>2, <2>3
<1>6. ASSUME NEW copies \in Amounts \cup {WholeStack}, CanTake(copies),
             BecomesPickup(TakeFromBox(Pickup, copies)), UNCHANGED <<phase, disk>>
      PROVE  PickupInv'
  <2> DEFINE w == TakeFromBox(Pickup, copies)
  <2>1. copies \in Int /\ (copies = WholeStack \/ copies > 0)
    BY <1>6 DEF Amounts, WholeStack
  <2>2. /\ Pickup.box.item # NoPiece
        /\ copies = WholeStack \/ copies <= Pickup.box.copies
    BY <1>1, <1>6 DEF CanTake, Filled
  <2>3. BoxIsSound(w) /\ DisplayIsFresh(w) /\ (w.box.key # Unset => w.box.key >= BoxGenReset)
    BY <1>1, <2>1, <2>2, TakingIsSound DEF KeysCome
  <2> HIDE DEF w
  <2> QED
    BY <1>6, <2>3, CallsKeepInv DEF w
<1>7. ASSUME NEW piece \in Pieces, EditPiece(piece)
      PROVE  PickupInv'
  <2> DEFINE edited == [Pickup EXCEPT !.data[piece] = 1 - @]
             w      == Edited(piece)
  <2>1. piece \in MutablePieces /\ BecomesPickup(w) /\ UNCHANGED <<phase, disk>>
    BY <1>7 DEF EditPiece
  <2>2. /\ edited \in PickupContents /\ edited.box = box /\ edited.hooked = hooked
        /\ edited.shown = shown
        /\ \A p \in Pieces : p # piece => edited.data[p] = data[p]
    <3>1. data[piece] \in Int /\ [data EXCEPT ![piece] = 1 - @] \in [Pieces -> Int]
      BY <1>1
    <3>2. edited = [Pickup EXCEPT !.data = [data EXCEPT ![piece] = 1 - @]]
      BY <1>1 DEF Pickup
    <3> QED
      BY <1>1, <3>1, <3>2 DEF PickupContents, BoxIsSound
  <2>3. BoxIsSound(edited)
    BY <1>1, <2>2 DEF BoxIsSound
  <2>4. CASE piece \in hooked
    <3>1. w = BroadcastChange(edited)
      BY <2>4 DEF Edited
    <3> HIDE DEF w, edited
    <3> QED
      BY <1>1, <2>1, <2>2, <2>3, <3>1, BroadcastShows, CallsKeepInv DEF KeysCome
  <2>5. CASE piece \notin hooked
    <3>1. w = edited /\ box.item # piece
      BY <1>1, <2>1, <2>5 DEF Edited, BoxIsSound
    <3>2. DisplayOf(edited) = DisplayOf(Pickup)
      <4> HIDE DEF edited
      <4> QED
        BY <1>1, <2>2, <3>1 DEF DisplayOf, Boxes
    <3>3. DisplayIsFresh(edited)
      BY <1>1, <2>2, <3>2 DEF DisplayIsFresh
    <3> HIDE DEF w, edited
    <3> QED
      BY <1>1, <2>1, <2>2, <2>3, <3>1, <3>3, CallsKeepInv DEF KeysCome
  <2> QED
    BY <2>4, <2>5
<1>8. CASE MakeBoxSave
  <2>1. Pickup' = Pickup /\ UNCHANGED <<box, phase, shown, hooked, data>>
    BY <1>8 DEF MakeBoxSave, Pickup
  <2>2. BoxIsSound(Pickup)' /\ KeysCome' /\ DisplayIsFresh(Pickup)'
    BY <1>1, <2>1 DEF BoxIsSound, PickupContents, Boxes, KeysCome, DisplayIsFresh, DisplayOf
  <2>3. SaveIsSound'
    <3>1. CASE box.key = Unset
      BY <1>8, <3>1 DEF MakeBoxSave, SaveIsSound, NoSave, Unset
    <3>2. CASE box.key # Unset
      <4>1. box.item \in Pieces /\ box.copies \in Nat \ {0} /\ box.key \in Int
        BY <1>1, <3>2 DEF BoxIsSound, Boxes
      <4>2. data[box.item] \in Int
        BY <1>1, <4>1
      <4> QED
        BY <1>1, <1>8, <3>2, <4>1, <4>2, ItemPickupsAssumption DEF MakeBoxSave, SaveIsSound, KeysCome
    <3> QED
      BY <3>1, <3>2
  <2> QED
    BY <2>2, <2>3 DEF PickupInv
<1>9. ASSUME NEW valid \in BOOLEAN, LoadBoxSave(valid)
      PROVE  PickupInv'
  <2> DEFINE placed == [Cleared EXCEPT !.box.gen = disk.key,
                          !.data = [p \in Pieces |-> IF p = disk.item THEN disk.data ELSE @[p]]]
             refused == [Cleared EXCEPT !.box.gen = disk.key]
             w == IF disk.key = Unset THEN Cleared
                  ELSE IF valid THEN StoreInBox(placed, disk.item, disk.copies)
                  ELSE refused
  <2>1. BecomesPickup(w) /\ UNCHANGED <<phase, disk>>
    BY <1>9 DEF LoadBoxSave, Cleared
  <2>2. /\ BoxIsSound(Cleared) /\ DisplayIsFresh(Cleared)
        /\ Cleared.box.key # Unset => Cleared.box.key >= BoxGenReset
        /\ Cleared.box.item = NoPiece
    BY ClearedIsSound
  <2>3. CASE disk.key = Unset
    BY <2>1, <2>2, <2>3, CallsKeepInv
  <2>4. CASE disk.key # Unset
    <3>1. /\ disk.item \in Pieces /\ disk.copies \in Nat \ {0} /\ disk.data \in Int
          /\ disk.key \in Int /\ disk.key >= BoxGenReset
      BY <1>1, <2>4 DEF SaveIsSound
    <3>2. Cleared \in PickupContents /\ Cleared.box \in Boxes /\ Cleared.data \in [Pieces -> Int]
      BY <2>2 DEF BoxIsSound, PickupContents
    <3> DEFINE newData == [p \in Pieces |-> IF p = disk.item THEN disk.data ELSE Cleared.data[p]]
               newBox  == [Cleared.box EXCEPT !.gen = disk.key]
    <3>3. newData \in [Pieces -> Int] /\ newBox \in Boxes
      BY <3>1, <3>2 DEF Boxes
    <3>4. placed = [Cleared EXCEPT !.box = newBox, !.data = newData]
      BY <3>2 DEF PickupContents
    <3>5. /\ newBox.gen = disk.key /\ newBox.item = NoPiece /\ newBox.copies = Cleared.box.copies
          /\ newBox.key = Cleared.box.key
      BY <2>2, <3>2 DEF Boxes
    <3> HIDE DEF newBox, newData, placed
    <3>6. placed \in PickupContents /\ placed.box = newBox /\ placed.hooked = Cleared.hooked
      BY <3>2, <3>3, <3>4 DEF PickupContents
    <3>7. BoxIsSound(placed)
      BY <2>2, <3>1, <3>5, <3>6 DEF BoxIsSound
    <3>9. CASE valid
      <4>1. w = StoreInBox(placed, disk.item, disk.copies)
        BY <2>4, <3>9
      <4>2. /\ BoxIsSound(w) /\ DisplayIsFresh(w)
            /\ w.box.key # Unset => w.box.key >= BoxGenReset
        BY <2>2, <2>4, <3>1, <3>5, <3>6, <3>7, <4>1, StoringIsSound
      <4> HIDE DEF w
      <4> QED
        BY <2>1, <4>2, CallsKeepInv
    <3>10. CASE ~valid
      <4>1. w = refused
        BY <2>4, <3>10
      <4>2. refused = [Cleared EXCEPT !.box = newBox]
        BY <3>2 DEF PickupContents, newBox
      <4>3. /\ refused \in PickupContents /\ refused.box = newBox
            /\ refused.hooked = Cleared.hooked /\ refused.data = Cleared.data
            /\ refused.shown = Cleared.shown
        BY <3>2, <3>3, <4>2 DEF PickupContents
      <4>4. BoxIsSound(refused)
        BY <2>2, <3>1, <3>5, <4>3 DEF BoxIsSound
      <4>5. DisplayIsFresh(refused)
        BY <2>2, <3>5, <4>3 DEF DisplayIsFresh, DisplayOf
      <4>6. refused.box.key # Unset => refused.box.key >= BoxGenReset
        BY <2>2, <3>5, <4>3
      <4> HIDE DEF w, refused
      <4> QED
        BY <2>1, <4>1, <4>4, <4>5, <4>6, CallsKeepInv
    <3> QED
      BY <3>9, <3>10
  <2> QED
    BY <2>3, <2>4
<1>10. CASE UNCHANGED pickupVars
  BY <1>1, <1>10 DEF pickupVars, PickupInv, Pickup, BoxIsSound, PickupContents, Boxes, KeysCome,
                     DisplayIsFresh, DisplayOf, SaveIsSound
<1>11. ASSUME NEW piece \in Pieces, NEW copies \in Amounts, ReleaseViewed(piece, copies)
       PROVE  PickupInv'
  BY <1>6, <1>11 DEF ReleaseViewed
<1>12. ASSUME NEW copies \in Amounts \cup {WholeStack}, ReleaseCopies(copies)
       PROVE  PickupInv'
  BY <1>6, <1>12 DEF ReleaseCopies
<1>13. ASSUME NEW key, NEW copies \in Amounts \cup {WholeStack}, ReleaseAt(key, copies)
       PROVE  PickupInv'
  BY <1>6, <1>13 DEF ReleaseAt
<1> QED
  BY <1>2, <1>3, <1>4, <1>5, <1>7, <1>8, <1>9, <1>10, <1>11, <1>12, <1>13 DEF PickupNext

\* AFaerieItemVisualBase: from BeginPlay until EndPlay a pickup shows the item
\* that lies in its container, with the data its tokens hold now, whoever puts
\* in, takes out, edits or loads.
THEOREM PickupsShowWhatTheyOwn == PickupSpec => []ShowsWhatItOwns
<1>1. PickupSpec => []PickupInv
  BY PickupStarts, PickupSteps, PTL DEF PickupSpec
<1>2. PickupInv => ShowsWhatItOwns
  BY RedisplayShows DEF PickupInv, ShowsWhatItOwns, DisplayIsFresh, Pickup
<1> QED
  BY <1>1, <1>2, PTL

-----------------------------------------------------------------------------
(* The ejection queue.  What was ejected lies, in its order, in the pickups  *)
(* and then in the queue: HandleNextInQueue moves stacks from the one to the *)
(* other, and only a class that fails to load takes a stack out.            *)

EjectedStacks == [item : Ejectables, copies : Nat]
EjectionPickups == [class : PickupClasses, stack : EjectedStacks]
EjectionQueues ==
    [inMemory : SUBSET (PickupClasses \ Broken), queue : Seq(EjectedStacks),
     streaming : BOOLEAN, loads : Seq(PickupClasses), pickups : Seq(EjectionPickups)]

\* The pickups and then the queue.
Line(q) == StacksOf(q.pickups) \o q.queue

RightClasses(given) == \A k \in DOMAIN given : given[k].class = ClassToSpawn(given[k].stack.item)

\* What is being loaded is the class of the stack at the head.
LoadsForHead(q) ==
    /\ q.streaming => q.queue # <<>>
    /\ q.loads = IF q.streaming THEN <<ClassToSpawn(q.queue[1].item)>> ELSE <<>>

EjectionInv ==
    /\ Queue \in EjectionQueues
    /\ default \in DefaultClasses /\ stored \in [Ejectables -> Nat] /\ ejected \in Seq(EjectedStacks)
    /\ RightClasses(pickups)
    /\ LoadsForHead(Queue)
    /\ OmitsOnlyBroken(Line(Queue), ejected)

\* Naturals that are some have a least one.
LEMMA LeastNatural ==
  ASSUME NEW S \in SUBSET Nat, NEW n \in S
  PROVE  \E m \in S : \A k \in S : m <= k
<1> DEFINE less == {p \in Nat \X Nat : p[1] < p[2]}
<1>1. PICK m \in S : \A k \in S : <<k, m>> \notin less
  BY NatLessThanWellFounded, WFMin DEF OpToRel
<1>2. \A k \in S : <<k, m>> \in Nat \X Nat
  OBVIOUS
<1>3. \A k \in S : ~ k < m
  BY <1>1, <1>2
<1> QED
  BY <1>3

\* The stacks of a list of pickups, place by place.
LEMMA StacksOfIs ==
    ASSUME NEW given \in Seq(EjectionPickups)
    PROVE  /\ StacksOf(given) \in Seq(EjectedStacks) /\ Len(StacksOf(given)) = Len(given)
           /\ \A k \in 1..Len(given) : StacksOf(given)[k] = given[k].stack
<1>1. DOMAIN given = 1..Len(given) /\ Len(given) \in Nat
  OBVIOUS
<1>2. \A k \in 1..Len(given) : given[k].stack \in EjectedStacks
  <2>1. \A k \in 1..Len(given) : given[k] \in EjectionPickups
    OBVIOUS
  <2> QED
    BY <2>1 DEF EjectionPickups
<1>3. StacksOf(given) = [k \in 1..Len(given) |-> given[k].stack]
  BY <1>1 DEF StacksOf
<1>4. StacksOf(given) \in [1..Len(given) -> EjectedStacks]
  BY <1>2, <1>3
<1>5. StacksOf(given) \in Seq(EjectedStacks)
  BY <1>1, <1>4
<1> QED
  BY <1>1, <1>3, <1>5

\* Two lists one after the other, place by place.
LEMMA JoinIs ==
    ASSUME NEW S, NEW s \in Seq(S), NEW t \in Seq(S)
    PROVE  /\ s \o t \in Seq(S) /\ Len(s \o t) = Len(s) + Len(t)
           /\ DOMAIN (s \o t) = 1..(Len(s) + Len(t))
           /\ Len(s) \in Nat /\ Len(t) \in Nat
           /\ \A k \in 1..(Len(s) + Len(t)) :
                (s \o t)[k] = IF k <= Len(s) THEN s[k] ELSE t[k - Len(s)]
  OBVIOUS

\* Two lists are the same when they are so place by place.
LEMMA SameList ==
    ASSUME NEW S, NEW s \in Seq(S), NEW t \in Seq(S), Len(s) = Len(t),
           \A k \in 1..Len(s) : s[k] = t[k]
    PROVE  s = t
  OBVIOUS

\* There is a first stack whose class is not in memory, or none.
LEMMA ReadyAtHeadIs ==
    ASSUME NEW q \in EjectionQueues
    PROVE  /\ ReadyAtHead(q) \in 0..Len(q.queue)
           /\ \A k \in 1..ReadyAtHead(q) : IsReady(q, k)
           /\ ReadyAtHead(q) < Len(q.queue) => ~IsReady(q, ReadyAtHead(q) + 1)
<1> DEFINE late == {k \in 1..Len(q.queue) : ~IsReady(q, k)}
           Good(n) == /\ \A k \in 1..n : IsReady(q, k)
                      /\ n < Len(q.queue) => ~IsReady(q, n + 1)
<1>1. Len(q.queue) \in Nat
  BY DEF EjectionQueues
<1>2. \E n \in 0..Len(q.queue) : Good(n)
  <2>1. CASE late = {}
    <3>1. Good(Len(q.queue))
      BY <1>1, <2>1
    <3> QED
      BY <1>1, <3>1
  <2>2. CASE late # {}
    <3>1. late \in SUBSET Nat
      BY <1>1
    <3>2. PICK m \in late : \A k \in late : m <= k
      <4> HIDE DEF late
      <4> QED
        BY <2>2, <3>1, LeastNatural
    <3>3. m \in 1..Len(q.queue) /\ ~IsReady(q, m)
      OBVIOUS
    <3>4. \A k \in 1..(m - 1) : IsReady(q, k)
      BY <1>1, <3>2, <3>3
    <3>5. m - 1 \in 0..Len(q.queue) /\ (m - 1) + 1 = m
      BY <1>1, <3>3
    <3>6. Good(m - 1)
      BY <3>3, <3>4, <3>5
    <3> QED
      BY <3>5, <3>6
  <2> QED
    BY <2>1, <2>2
<1>3. ReadyAtHead(q) = CHOOSE n \in 0..Len(q.queue) : Good(n)
  BY DEF ReadyAtHead
<1> HIDE DEF Good
<1>4. ReadyAtHead(q) \in 0..Len(q.queue) /\ Good(ReadyAtHead(q))
  BY <1>2, <1>3
<1> QED
  BY <1>4 DEF Good

\* Giving stacks at the head to pickups leaves the line as it is.
LEMMA SpawnedKeeps ==
    ASSUME NEW q \in EjectionQueues, RightClasses(q.pickups), NEW n \in 0..Len(q.queue),
           \A k \in 1..n : ClassToSpawn(q.queue[k].item) \in PickupClasses
    PROVE  /\ HeadsSpawned(q, n) \in EjectionQueues
           /\ RightClasses(HeadsSpawned(q, n).pickups)
           /\ Line(HeadsSpawned(q, n)) = Line(q)
           /\ HeadsSpawned(q, n).queue = SubSeq(q.queue, n + 1, Len(q.queue))
           /\ HeadsSpawned(q, n).streaming = q.streaming /\ HeadsSpawned(q, n).loads = q.loads
           /\ HeadsSpawned(q, n).inMemory = q.inMemory
<1> DEFINE new == [k \in 1..n |-> [class |-> ClassToSpawn(q.queue[k].item), stack |-> q.queue[k]]]
           rest == SubSeq(q.queue, n + 1, Len(q.queue))
           r == HeadsSpawned(q, n)
           wait == q.queue
           old == q.pickups
<1>1. /\ q.inMemory \in SUBSET (PickupClasses \ Broken) /\ wait \in Seq(EjectedStacks)
      /\ q.streaming \in BOOLEAN /\ q.loads \in Seq(PickupClasses) /\ old \in Seq(EjectionPickups)
  BY DEF EjectionQueues
<1>2. Len(wait) \in Nat /\ n \in Nat /\ n <= Len(wait)
  BY <1>1
<1>3. r = [inMemory |-> q.inMemory, queue |-> rest, streaming |-> q.streaming,
           loads |-> q.loads, pickups |-> old \o new]
  <2>1. q = [inMemory |-> q.inMemory, queue |-> wait, streaming |-> q.streaming,
             loads |-> q.loads, pickups |-> old]
    BY DEF EjectionQueues
  <2>2. r = [q EXCEPT !.pickups = old \o new, !.queue = rest]
    BY DEF HeadsSpawned
  <2> HIDE DEF new, rest, r, wait, old
  <2> QED
    BY <2>1, <2>2
<1>4. \A k \in 1..n : wait[k] \in EjectedStacks
  BY <1>1, <1>2
<1>5. \A k \in 1..n : new[k] \in EjectionPickups /\ new[k].class = ClassToSpawn(wait[k].item)
                      /\ new[k].stack = wait[k]
  BY <1>4 DEF EjectionPickups
<1>6. new \in Seq(EjectionPickups) /\ Len(new) = n
  <2>1. new \in [1..n -> EjectionPickups]
    BY <1>5
  <2> HIDE DEF new
  <2> QED
    BY <1>2, <2>1
<1>7. /\ rest \in Seq(EjectedStacks) /\ Len(rest) = Len(wait) - n
      /\ \A k \in 1..(Len(wait) - n) : rest[k] = wait[n + k]
  BY <1>1, <1>2
<1> HIDE DEF new, rest, r, wait, old
<1>8. /\ old \o new \in Seq(EjectionPickups) /\ Len(old \o new) = Len(old) + n
      /\ Len(old) \in Nat /\ DOMAIN (old \o new) = 1..(Len(old) + n)
      /\ \A k \in 1..(Len(old) + n) : (old \o new)[k] = IF k <= Len(old) THEN old[k] ELSE new[k - Len(old)]
  BY <1>1, <1>6, JoinIs
<1>9. r \in EjectionQueues
  BY <1>1, <1>3, <1>7, <1>8 DEF EjectionQueues
<1>10. RightClasses(old \o new)
  <2>1. \A k \in 1..Len(old) : old[k].class = ClassToSpawn(old[k].stack.item)
    <3>1. DOMAIN old = 1..Len(old)
      BY <1>1
    <3> QED
      BY <3>1 DEF RightClasses, old
  <2>2. ASSUME NEW k \in 1..(Len(old) + n)
        PROVE  (old \o new)[k].class = ClassToSpawn((old \o new)[k].stack.item)
    <3>1. CASE k <= Len(old)
      <4>1. k \in 1..Len(old)
        BY <1>8, <3>1
      <4> QED
        BY <1>8, <2>1, <3>1, <4>1
    <3>2. CASE ~(k <= Len(old))
      <4>1. k - Len(old) \in 1..n
        BY <1>2, <1>8, <3>2
      <4>2. (old \o new)[k] = new[k - Len(old)]
        BY <1>8, <3>2
      <4> QED
        BY <1>5, <4>1, <4>2
    <3> QED
      BY <3>1, <3>2
  <2> QED
    BY <1>8, <2>2 DEF RightClasses
<1>11. StacksOf(old \o new) \o rest = StacksOf(old) \o wait
  <2> DEFINE a == StacksOf(old \o new)
             b == StacksOf(old)
  <2>1. /\ a \in Seq(EjectedStacks) /\ Len(a) = Len(old) + n
        /\ \A k \in 1..(Len(old) + n) : a[k] = (old \o new)[k].stack
    BY <1>8, StacksOfIs
  <2>2. /\ b \in Seq(EjectedStacks) /\ Len(b) = Len(old)
        /\ \A k \in 1..Len(old) : b[k] = old[k].stack
    BY <1>1, StacksOfIs
  <2> HIDE DEF a, b
  <2>3. /\ a \o rest \in Seq(EjectedStacks) /\ Len(a \o rest) = Len(old) + Len(wait)
        /\ \A k \in 1..(Len(old) + Len(wait)) :
             (a \o rest)[k] = IF k <= Len(old) + n THEN a[k] ELSE rest[k - (Len(old) + n)]
    <3>1. Len(a) + Len(rest) = Len(old) + Len(wait)
      BY <1>2, <1>7, <1>8, <2>1
    <3>2. /\ a \o rest \in Seq(EjectedStacks) /\ Len(a \o rest) = Len(a) + Len(rest)
          /\ \A k \in 1..(Len(a) + Len(rest)) : (a \o rest)[k] = IF k <= Len(a) THEN a[k] ELSE rest[k - Len(a)]
      BY <1>7, <2>1, JoinIs
    <3> QED
      BY ONLY <2>1, <3>1, <3>2
  <2>4. /\ b \o wait \in Seq(EjectedStacks) /\ Len(b \o wait) = Len(old) + Len(wait)
        /\ \A k \in 1..(Len(old) + Len(wait)) :
             (b \o wait)[k] = IF k <= Len(old) THEN b[k] ELSE wait[k - Len(old)]
    <3>1. /\ b \o wait \in Seq(EjectedStacks) /\ Len(b \o wait) = Len(b) + Len(wait)
          /\ \A k \in 1..(Len(b) + Len(wait)) : (b \o wait)[k] = IF k <= Len(b) THEN b[k] ELSE wait[k - Len(b)]
      BY <1>1, <2>2, JoinIs
    <3> QED
      BY ONLY <2>2, <3>1
  <2>5. ASSUME NEW k \in 1..(Len(old) + Len(wait)) PROVE (a \o rest)[k] = (b \o wait)[k]
    <3>1. CASE k <= Len(old)
      <4>1. k \in 1..Len(old) /\ k \in 1..(Len(old) + n) /\ k <= Len(old) + n
        BY <1>2, <1>8, <3>1
      <4>2. a[k] = old[k].stack
        BY <1>8, <2>1, <3>1, <4>1
      <4> QED
        BY <2>2, <2>3, <2>4, <3>1, <4>1, <4>2
    <3>2. CASE ~(k <= Len(old)) /\ k <= Len(old) + n
      <4>1. k - Len(old) \in 1..n /\ k \in 1..(Len(old) + n)
        BY <1>2, <1>8, <3>2
      <4>2. a[k] = new[k - Len(old)].stack
        BY <1>8, <2>1, <3>2, <4>1
      <4>3. a[k] = wait[k - Len(old)]
        BY <1>5, <4>1, <4>2
      <4> QED
        BY <2>3, <2>4, <3>2, <4>3
    <3>3. CASE ~(k <= Len(old) + n)
      <4>1. k - (Len(old) + n) \in 1..(Len(wait) - n) /\ ~(k <= Len(old))
        BY <1>2, <1>8, <3>3
      <4>2. n + (k - (Len(old) + n)) = k - Len(old)
        BY <1>2, <1>8
      <4>3. rest[k - (Len(old) + n)] = wait[k - Len(old)]
        BY <1>7, <4>1, <4>2
      <4> QED
        BY <2>3, <2>4, <3>3, <4>1, <4>3
    <3> QED
      BY <3>1, <3>2, <3>3
  <2>6. a \o rest = b \o wait
    <3> DEFINE s == a \o rest
               t == b \o wait
    <3>1. s \in Seq(EjectedStacks) /\ t \in Seq(EjectedStacks) /\ Len(s) = Len(t)
          /\ \A k \in 1..Len(s) : s[k] = t[k]
      BY <2>3, <2>4, <2>5
    <3> HIDE DEF s, t
    <3>2. s = t
      BY <3>1, SameList
    <3> QED
      BY <3>2 DEF s, t
  <2> QED
    BY <2>6 DEF a, b
<1>12. Line(r) = Line(q)
  BY <1>3, <1>11 DEF Line, old, wait
<1> QED
  BY <1>3, <1>9, <1>10, <1>12, SMTT(30) DEF r, rest, wait

\* HandleNextInQueue, called when nothing is being loaded.
LEMMA HandleNextKeeps ==
    ASSUME NEW q \in EjectionQueues, RightClasses(q.pickups), ~q.streaming, q.loads = <<>>
    PROVE  /\ HandleNextInQueue(q) \in EjectionQueues
           /\ RightClasses(HandleNextInQueue(q).pickups)
           /\ Line(HandleNextInQueue(q)) = Line(q)
           /\ LoadsForHead(HandleNextInQueue(q))
<1> DEFINE rest == IF hasOwner THEN HeadsSpawned(q, ReadyAtHead(q)) ELSE q
           class == ClassToSpawn(rest.queue[1].item)
           r == HandleNextInQueue(q)
<1>1. /\ rest \in EjectionQueues /\ RightClasses(rest.pickups) /\ Line(rest) = Line(q)
      /\ rest.streaming = FALSE /\ rest.loads = <<>>
  <2>1. CASE ~hasOwner
    BY <2>1 DEF EjectionQueues
  <2>2. CASE hasOwner
    <3>1. /\ ReadyAtHead(q) \in 0..Len(q.queue)
          /\ \A k \in 1..ReadyAtHead(q) : ClassToSpawn(q.queue[k].item) \in PickupClasses
      BY ReadyAtHeadIs DEF IsReady, EjectionQueues
    <3>2. rest = HeadsSpawned(q, ReadyAtHead(q))
      BY <2>2
    <3>3. q.streaming = FALSE
      BY DEF EjectionQueues
    <3> HIDE DEF rest
    <3> QED
      BY <3>1, <3>2, <3>3, SpawnedKeeps
  <2> QED
    BY <2>1, <2>2
<1>2. r = IF rest.queue # <<>> /\ class \in PickupClasses \ rest.inMemory
          THEN [rest EXCEPT !.streaming = TRUE, !.loads = Append(@, class)] ELSE rest
  BY DEF HandleNextInQueue
<1> HIDE DEF r, rest
<1>3. CASE rest.queue # <<>> /\ class \in PickupClasses \ rest.inMemory
  <2>1. r = [rest EXCEPT !.streaming = TRUE, !.loads = Append(@, class)]
    BY <1>2, <1>3
  <2>2. r.queue = rest.queue /\ r.pickups = rest.pickups /\ r.streaming = TRUE /\ r.loads = Append(rest.loads, class)
        /\ r.inMemory = rest.inMemory
    BY <1>1, <2>1 DEF EjectionQueues
  <2>3. r.loads = <<class>> /\ class \in PickupClasses
    BY <1>1, <1>3, <2>2
  <2>4. Append(rest.loads, class) \in Seq(PickupClasses)
    <3>1. rest.loads \in Seq(PickupClasses)
      BY <1>1 DEF EjectionQueues
    <3> HIDE DEF class
    <3> QED
      BY <2>3, <3>1
  <2>5. r \in EjectionQueues
    BY <1>1, <2>1, <2>4 DEF EjectionQueues
  <2>6. Line(r) = Line(rest)
    BY <2>2 DEF Line
  <2>7. LoadsForHead(r)
    BY <1>3, <2>2, <2>3 DEF LoadsForHead
  <2> QED
    BY <1>1, <2>2, <2>5, <2>6, <2>7 DEF r
<1>4. CASE ~(rest.queue # <<>> /\ class \in PickupClasses \ rest.inMemory)
  <2>1. r = rest
    BY <1>2, <1>4
  <2>2. LoadsForHead(r)
    BY <1>1, <2>1 DEF LoadsForHead
  <2> QED
    BY <1>1, <2>1, <2>2 DEF r
<1> QED
  BY <1>3, <1>4

\* What omits only stacks that do not load still does so when both grow by a stack.
LEMMA OmitsAppend ==
    ASSUME NEW list \in Seq(EjectedStacks), NEW whole \in Seq(EjectedStacks),
           NEW stack \in EjectedStacks, OmitsOnlyBroken(list, whole)
    PROVE  OmitsOnlyBroken(Append(list, stack), Append(whole, stack))
<1> DEFINE m == Len(list)
           n == Len(whole)
           longer == Append(list, stack)
           all == Append(whole, stack)
<1>1. m \in Nat /\ n \in Nat /\ DOMAIN list = 1..m /\ DOMAIN whole = 1..n
  OBVIOUS
<1>2. DOMAIN longer = 1..(m + 1) /\ \A k \in 1..(m + 1) : longer[k] = IF k <= m THEN list[k] ELSE stack
  BY <1>1
<1>3. DOMAIN all = 1..(n + 1) /\ \A k \in 1..(n + 1) : all[k] = IF k <= n THEN whole[k] ELSE stack
  BY <1>1
<1> HIDE DEF m, n, longer, all
<1>4. PICK at \in [1..m -> 1..n] :
        /\ \A j, k \in 1..m : j < k => at[j] < at[k]
        /\ \A k \in 1..m : list[k] = whole[at[k]]
        /\ \A p \in 1..n : (\A k \in 1..m : at[k] # p) => ~Loads(whole[p])
  <2>1. PICK at \in [DOMAIN list -> DOMAIN whole] :
          /\ \A j, k \in DOMAIN list : j < k => at[j] < at[k]
          /\ \A k \in DOMAIN list : list[k] = whole[at[k]]
          /\ \A p \in DOMAIN whole : (\A k \in DOMAIN list : at[k] # p) => ~Loads(whole[p])
    BY DEF OmitsOnlyBroken
  <2> QED
    BY <1>1, <2>1, ZenonT(30)
<1> DEFINE to == [k \in 1..(m + 1) |-> IF k <= m THEN at[k] ELSE n + 1]
<1>5. \A k \in 1..m : at[k] \in 1..n
  BY <1>4
<1>6. \A k \in 1..(m + 1) : (k <= m => k \in 1..m) /\ (~(k <= m) => k = m + 1)
  BY <1>1
<1>7. \A k \in 1..(m + 1) : to[k] = IF k <= m THEN at[k] ELSE n + 1
  OBVIOUS
<1>8. to \in [1..(m + 1) -> 1..(n + 1)]
  <2>1. \A k \in 1..(m + 1) : to[k] \in 1..(n + 1)
    BY <1>1, <1>5, <1>6, <1>7
  <2> QED
    BY <2>1
<1> HIDE DEF to
<1>9. \A j, k \in 1..(m + 1) : j < k => to[j] < to[k]
  BY <1>1, <1>4, <1>5, <1>6, <1>7
<1>10. ASSUME NEW k \in 1..(m + 1) PROVE longer[k] = all[to[k]]
  <2>1. CASE k <= m
    <3>1. k \in 1..m /\ to[k] = at[k] /\ at[k] \in 1..n /\ at[k] <= n /\ at[k] \in 1..(n + 1)
      BY <1>1, <1>5, <1>6, <1>7, <2>1
    <3>2. longer[k] = list[k] /\ all[at[k]] = whole[at[k]]
      BY <1>2, <1>3, <2>1, <3>1
    <3> QED
      BY <1>4, <3>1, <3>2
  <2>2. CASE ~(k <= m)
    <3>1. to[k] = n + 1 /\ n + 1 \in 1..(n + 1) /\ ~(n + 1 <= n)
      BY <1>1, <1>7, <2>2
    <3> QED
      BY <1>2, <1>3, <2>2, <3>1
  <2> QED
    BY <2>1, <2>2
<1>11. ASSUME NEW p \in 1..(n + 1), \A k \in 1..(m + 1) : to[k] # p PROVE ~Loads(all[p])
  <2>1. p # n + 1
    <3>1. m + 1 \in 1..(m + 1) /\ ~(m + 1 <= m)
      BY <1>1
    <3> QED
      BY <1>7, <1>11, <3>1
  <2>2. p \in 1..n /\ p <= n
    BY <1>1, <2>1
  <2>3. \A k \in 1..m : at[k] # p
    <3>1. \A k \in 1..m : k \in 1..(m + 1) /\ k <= m
      BY <1>1
    <3> QED
      BY <1>7, <1>11, <3>1
  <2>4. all[p] = whole[p]
    BY <1>3, <2>2
  <2> QED
    BY <1>4, <2>2, <2>3, <2>4
<1>12. /\ to \in [DOMAIN longer -> DOMAIN all]
       /\ \A j, k \in DOMAIN longer : j < k => to[j] < to[k]
       /\ \A k \in DOMAIN longer : longer[k] = all[to[k]]
       /\ \A p \in DOMAIN all : (\A k \in DOMAIN longer : to[k] # p) => ~Loads(all[p])
  BY <1>2, <1>3, <1>8, <1>9, <1>10, <1>11
<1>13. OmitsOnlyBroken(longer, all)
  BY <1>12 DEF OmitsOnlyBroken
<1> QED
  BY <1>13 DEF longer, all

\* And when the list loses a stack that does not load.
LEMMA OmitsDropped ==
    ASSUME NEW list \in Seq(EjectedStacks), NEW whole \in Seq(EjectedStacks),
           NEW x \in DOMAIN list, ~Loads(list[x]), OmitsOnlyBroken(list, whole),
           NEW less \in Seq(EjectedStacks), Len(less) + 1 = Len(list),
           \A k \in 1..Len(less) : less[k] = IF k < x THEN list[k] ELSE list[k + 1]
    PROVE  OmitsOnlyBroken(less, whole)
<1> DEFINE m == Len(less)
           n == Len(whole)
<1>1. m \in Nat /\ n \in Nat /\ DOMAIN list = 1..(m + 1) /\ DOMAIN whole = 1..n
      /\ DOMAIN less = 1..m /\ x \in 1..(m + 1)
  OBVIOUS
<1>2. \A k \in 1..m : less[k] = IF k < x THEN list[k] ELSE list[k + 1]
  OBVIOUS
<1> HIDE DEF m, n
<1>3. PICK at \in [1..(m + 1) -> 1..n] :
        /\ \A j, k \in 1..(m + 1) : j < k => at[j] < at[k]
        /\ \A k \in 1..(m + 1) : list[k] = whole[at[k]]
        /\ \A p \in 1..n : (\A k \in 1..(m + 1) : at[k] # p) => ~Loads(whole[p])
  <2>1. PICK at \in [DOMAIN list -> DOMAIN whole] :
          /\ \A j, k \in DOMAIN list : j < k => at[j] < at[k]
          /\ \A k \in DOMAIN list : list[k] = whole[at[k]]
          /\ \A p \in DOMAIN whole : (\A k \in DOMAIN list : at[k] # p) => ~Loads(whole[p])
    BY DEF OmitsOnlyBroken
  <2>2. /\ at \in [1..(m + 1) -> 1..n]
        /\ \A j, k \in 1..(m + 1) : j < k => at[j] < at[k]
        /\ \A k \in 1..(m + 1) : list[k] = whole[at[k]]
        /\ \A p \in 1..n : (\A k \in 1..(m + 1) : at[k] # p) => ~Loads(whole[p])
    BY <1>1, <2>1
  <2> QED
    BY <2>2
<1> DEFINE Before(k) == IF k < x THEN k ELSE k + 1
           to == [k \in 1..m |-> at[Before(k)]]
<1>4. \A k \in 1..m : Before(k) \in 1..(m + 1)
  BY <1>1
<1>5. \A j, k \in 1..m : j < k => Before(j) < Before(k)
  BY <1>1
<1>6. \A p \in 1..(m + 1) : p # x => \E k \in 1..m : Before(k) = p
  <2>1. ASSUME NEW p \in 1..(m + 1), p # x PROVE \E k \in 1..m : Before(k) = p
    <3>1. CASE p < x
      <4>1. p \in 1..m /\ Before(p) = p
        BY <1>1, <3>1
      <4> QED
        BY <4>1
    <3>2. CASE ~(p < x)
      <4>1. p - 1 \in 1..m /\ Before(p - 1) = p
        BY <1>1, <2>1, <3>2
      <4> QED
        BY <4>1
    <3> QED
      BY <3>1, <3>2
  <2> QED
    BY <2>1
<1>7. \A k \in 1..m : less[k] = list[Before(k)]
  BY <1>2
<1> HIDE DEF Before
<1>8. \A k \in 1..m : to[k] = at[Before(k)]
  OBVIOUS
<1>9. to \in [1..m -> 1..n]
  BY <1>3, <1>4
<1> HIDE DEF to
<1>10. \A j, k \in 1..m : j < k => to[j] < to[k]
  BY <1>3, <1>4, <1>5, <1>8
<1>11. \A k \in 1..m : less[k] = whole[to[k]]
  BY <1>3, <1>4, <1>7, <1>8
<1>12. ASSUME NEW p \in 1..n, \A k \in 1..m : to[k] # p PROVE ~Loads(whole[p])
  <2>1. CASE at[x] = p
    BY <1>1, <1>3, <2>1
  <2>2. CASE at[x] # p
    <3>1. \A k \in 1..(m + 1) : at[k] # p
      BY <1>6, <1>8, <1>12, <2>2
    <3> QED
      BY <1>3, <3>1
  <2> QED
    BY <2>1, <2>2
<1>13. /\ to \in [DOMAIN less -> DOMAIN whole]
       /\ \A j, k \in DOMAIN less : j < k => to[j] < to[k]
       /\ \A k \in DOMAIN less : less[k] = whole[to[k]]
       /\ \A p \in DOMAIN whole : (\A k \in DOMAIN less : to[k] # p) => ~Loads(whole[p])
  BY <1>1, <1>9, <1>10, <1>11, <1>12
<1> QED
  BY <1>13 DEF OmitsOnlyBroken

\* Stacks at the end of a line, and stacks that leave it after the pickups.
LEMMA LineAppend ==
    ASSUME NEW q \in EjectionQueues, NEW stack \in EjectedStacks
    PROVE  /\ Line(q) \in Seq(EjectedStacks)
           /\ StacksOf(q.pickups) \o Append(q.queue, stack) = Append(Line(q), stack)
<1> DEFINE a == StacksOf(q.pickups)
           wait == q.queue
<1>1. a \in Seq(EjectedStacks) /\ wait \in Seq(EjectedStacks)
  BY StacksOfIs DEF EjectionQueues
<1> HIDE DEF a, wait
<1>2. a \o wait \in Seq(EjectedStacks)
  BY <1>1
<1>3. a \o Append(wait, stack) = Append(a \o wait, stack)
  BY <1>1
<1> QED
  BY <1>2, <1>3 DEF Line, a, wait

LEMMA LineWithoutHead ==
    ASSUME NEW q \in EjectionQueues, q.queue # <<>>, NEW whole \in Seq(EjectedStacks),
           OmitsOnlyBroken(Line(q), whole), ~Loads(Head(q.queue))
    PROVE  OmitsOnlyBroken(StacksOf(q.pickups) \o Tail(q.queue), whole)
<1> DEFINE a == StacksOf(q.pickups)
           wait == q.queue
           rest == Tail(wait)
           list == a \o wait
           less == a \o rest
           x == Len(a) + 1
<1>1. a \in Seq(EjectedStacks) /\ wait \in Seq(EjectedStacks) /\ wait # <<>> /\ list = Line(q)
  BY StacksOfIs DEF EjectionQueues, Line
<1>2. ~Loads(wait[1])
  BY <1>1
<1> HIDE DEF a, wait
<1>3. /\ rest \in Seq(EjectedStacks) /\ Len(rest) = Len(wait) - 1 /\ Len(wait) \in Nat \ {0}
      /\ \A k \in 1..(Len(wait) - 1) : rest[k] = wait[k + 1]
  BY <1>1
<1> HIDE DEF rest
<1>4. /\ list \in Seq(EjectedStacks) /\ Len(list) = Len(a) + Len(wait)
      /\ DOMAIN list = 1..(Len(a) + Len(wait)) /\ Len(a) \in Nat
      /\ \A k \in 1..(Len(a) + Len(wait)) : list[k] = IF k <= Len(a) THEN a[k] ELSE wait[k - Len(a)]
  BY <1>1, JoinIs
<1>5. /\ less \in Seq(EjectedStacks) /\ Len(less) = Len(a) + Len(rest)
      /\ \A k \in 1..(Len(a) + Len(rest)) : less[k] = IF k <= Len(a) THEN a[k] ELSE rest[k - Len(a)]
  BY <1>1, <1>3, JoinIs
<1> HIDE DEF list, less
<1>6. x \in DOMAIN list /\ list[x] = wait[1] /\ ~(x <= Len(a))
  <2>1. x \in 1..(Len(a) + Len(wait)) /\ ~(x <= Len(a)) /\ x - Len(a) = 1
    BY <1>3, <1>4
  <2>2. list[x] = wait[x - Len(a)]
    BY <1>4, <2>1
  <2> QED
    BY <1>4, <2>1, <2>2
<1>7. Len(less) + 1 = Len(list)
  BY <1>3, <1>4, <1>5
<1>8. ASSUME NEW k \in 1..Len(less) PROVE less[k] = IF k < x THEN list[k] ELSE list[k + 1]
  <2>1. k \in Nat /\ k <= Len(a) + Len(wait) - 1 /\ k \in 1..(Len(a) + Len(wait)) /\ k + 1 \in 1..(Len(a) + Len(wait))
        /\ k \in 1..(Len(a) + Len(rest))
    BY <1>3, <1>4, <1>5
  <2>2. CASE k < x
    <3>1. k <= Len(a)
      BY <1>4, <2>1, <2>2
    <3> QED
      BY <1>4, <1>5, <2>1, <2>2, <3>1
  <2>3. CASE ~(k < x)
    <3>1. ~(k <= Len(a)) /\ ~(k + 1 <= Len(a))
      BY <1>4, <2>1, <2>3
    <3>2. less[k] = rest[k - Len(a)] /\ list[k + 1] = wait[k + 1 - Len(a)]
      BY <1>4, <1>5, <2>1, <3>1
    <3>3. k - Len(a) \in 1..(Len(wait) - 1) /\ (k - Len(a)) + 1 = k + 1 - Len(a)
      BY <1>3, <1>4, <2>1, <3>1
    <3>4. rest[k - Len(a)] = wait[k + 1 - Len(a)]
      BY <1>3, <3>3
    <3> QED
      BY <2>3, <3>2, <3>4
  <2> QED
    BY <2>2, <2>3
<1>9. ~Loads(list[x]) /\ OmitsOnlyBroken(list, whole)
  BY <1>1, <1>2, <1>6
<1> HIDE DEF x
<1>10. OmitsOnlyBroken(less, whole)
  BY <1>4, <1>5, <1>6, <1>7, <1>8, <1>9, OmitsDropped
<1> QED
  BY <1>10 DEF less, a, rest, wait

-----------------------------------------------------------------------------

LEMMA EjectionInvInit == EjectionInit => EjectionInv
<1> SUFFICES ASSUME EjectionInit PROVE EjectionInv
  OBVIOUS
<1>1. Queue \in EjectionQueues
  <2>1. <<>> \in Seq(EjectedStacks) /\ <<>> \in Seq(PickupClasses) /\ <<>> \in Seq(EjectionPickups)
    OBVIOUS
  <2>2. Queue = [inMemory |-> inMemory, queue |-> <<>>, streaming |-> FALSE, loads |-> <<>>, pickups |-> <<>>]
    BY DEF EjectionInit, Queue
  <2>3. inMemory \in SUBSET (PickupClasses \ Broken)
    BY DEF EjectionInit
  <2> QED
    BY <2>1, <2>2, <2>3 DEF EjectionQueues
<1>2. stored \in [Ejectables -> Nat]
  BY EjectionQueueAssumption DEF EjectionInit
<1>3. Line(Queue) = <<>>
  <2>1. StacksOf(<<>>) \in Seq(EjectedStacks) /\ Len(StacksOf(<<>>)) = 0
    <3>1. <<>> \in Seq(EjectionPickups) /\ Len(<<>>) = 0
      OBVIOUS
    <3> QED
      BY <3>1, StacksOfIs
  <2>2. Line(Queue) = StacksOf(<<>>) \o <<>>
    BY DEF EjectionInit, Queue, Line
  <2> QED
    BY <2>1, <2>2
<1>4. OmitsOnlyBroken(<<>>, <<>>)
  <2>1. DOMAIN <<>> = {}
    OBVIOUS
  <2>2. <<>> \in [{} -> {}]
    OBVIOUS
  <2> QED
    BY <2>1, <2>2 DEF OmitsOnlyBroken
<1> QED
  BY <1>1, <1>2, <1>3, <1>4 DEF EjectionInit, EjectionInv, RightClasses, LoadsForHead, Queue

\* The queue of the next state.
LEMMA BecomesQueue ==
    ASSUME NEW q \in EjectionQueues, SetQueue(q) PROVE Queue' = q
  BY DEF SetQueue, Queue, EjectionQueues

\* What is said of a queue is said of it in the next state, where the default class is the same.
LEMMA SameDefaultKeeps ==
    ASSUME NEW q, UNCHANGED default,
           q \in EjectionQueues, LoadsForHead(q), RightClasses(q.pickups),
           NEW whole, OmitsOnlyBroken(Line(q), whole),
           Queue' = q, pickups' = q.pickups, ejected' = whole,
           default \in DefaultClasses, stored' \in [Ejectables -> Nat], whole \in Seq(EjectedStacks)
    PROVE  EjectionInv'
<1>1. \A p : ClassToSpawn(p)' = ClassToSpawn(p)
  BY DEF ClassToSpawn
<1>2. RightClasses(pickups)'
  BY <1>1 DEF RightClasses
<1>3. LoadsForHead(Queue)'
  BY <1>1 DEF LoadsForHead
<1>4. Line(Queue)' = Line(q)
  BY DEF Line, StacksOf
<1>5. OmitsOnlyBroken(Line(Queue), ejected)'
  BY <1>1, <1>4 DEF OmitsOnlyBroken, Loads
<1>6. EjectionQueues' = EjectionQueues
  BY DEF EjectionQueues, EjectedStacks, EjectionPickups
<1> QED
  BY <1>2, <1>3, <1>5, <1>6 DEF EjectionInv, EjectedStacks

LEMMA EjectKeeps ==
    ASSUME EjectionInv, NEW i \in Ejectables, NEW n \in 1..MaxStored, Eject(i, n)
    PROVE  EjectionInv'
<1> DEFINE stack == [item |-> i, copies |-> n]
           longer == [Queue EXCEPT !.queue = Append(@, stack)]
           r == Enqueue(Queue, stack)
           q == Queue
<1>1. /\ n \in 1..stored[i] /\ stored' = [stored EXCEPT ![i] = @ - n]
      /\ ejected' = Append(ejected, stack) /\ SetQueue(r) /\ UNCHANGED <<default, hasOwner>>
  BY DEF Eject
<1>2. q \in EjectionQueues /\ ejected \in Seq(EjectedStacks) /\ RightClasses(q.pickups) /\ LoadsForHead(q)
      /\ OmitsOnlyBroken(Line(q), ejected)
  BY DEF EjectionInv, Queue
<1>3. stack \in EjectedStacks
  BY EjectionQueueAssumption DEF EjectedStacks
<1>4. stored' \in [Ejectables -> Nat]
  <2>1. stored \in [Ejectables -> Nat] /\ stored[i] \in Nat
    BY DEF EjectionInv
  <2>2. stored[i] - n \in Nat
    BY <1>1, <2>1
  <2> QED
    BY <1>1, <2>1, <2>2
<1> HIDE DEF stack
<1>5. r = IF q.streaming THEN longer ELSE HandleNextInQueue(longer)
  BY DEF Enqueue
<1> HIDE DEF r, q
<1>6. /\ longer.queue = Append(q.queue, stack) /\ longer.pickups = q.pickups /\ longer.loads = q.loads
      /\ longer.streaming = q.streaming /\ longer.inMemory = q.inMemory
  BY <1>2 DEF EjectionQueues, q
<1>7. longer \in EjectionQueues
  <2>1. Append(q.queue, stack) \in Seq(EjectedStacks)
    BY <1>2, <1>3 DEF EjectionQueues
  <2> QED
    BY <1>2, <2>1 DEF EjectionQueues, q
<1>8. Line(longer) = Append(Line(q), stack) /\ Line(q) \in Seq(EjectedStacks)
  BY <1>2, <1>3, <1>6, LineAppend DEF Line
<1> HIDE DEF longer
<1>9. OmitsOnlyBroken(Line(longer), ejected')
  BY <1>1, <1>2, <1>3, <1>8, OmitsAppend
<1>10. r \in EjectionQueues /\ RightClasses(r.pickups) /\ Line(r) = Line(longer) /\ LoadsForHead(r)
  <2>1. CASE q.streaming
    <3>1. r = longer
      BY <1>5, <2>1
    <3>2. q.queue \in Seq(EjectedStacks) /\ q.queue # <<>>
      BY <1>2, <2>1 DEF LoadsForHead, EjectionQueues
    <3>3. Append(q.queue, stack) # <<>> /\ Append(q.queue, stack)[1] = q.queue[1]
      BY <3>2
    <3>4. LoadsForHead(longer)
      BY <1>2, <1>6, <3>3 DEF LoadsForHead
    <3> QED
      BY <1>2, <1>6, <1>7, <3>1, <3>4
  <2>2. CASE ~q.streaming
    <3>1. r = HandleNextInQueue(longer)
      BY <1>5, <2>2
    <3>2. ~longer.streaming /\ longer.loads = <<>> /\ RightClasses(longer.pickups)
      BY <1>2, <1>6, <2>2 DEF LoadsForHead
    <3> QED
      BY <1>7, <3>1, <3>2, HandleNextKeeps
  <2> QED
    BY <2>1, <2>2
<1>11. Queue' = r
  BY <1>1, <1>10, BecomesQueue
<1>12. pickups' = r.pickups
  BY <1>1 DEF SetQueue
<1>13. OmitsOnlyBroken(Line(r), ejected')
  BY <1>9, <1>10
<1>14. ejected' \in Seq(EjectedStacks)
  BY <1>1, <1>2, <1>3
<1>15. default \in DefaultClasses
  BY DEF EjectionInv
<1> HIDE DEF r
<1> QED
  BY <1>1, <1>4, <1>10, <1>11, <1>12, <1>13, <1>14, <1>15, SameDefaultKeeps

\* A stack leaves the head of the queue for a pickup of its class.
LEMMA SpawnVisualizerKeeps ==
    ASSUME NEW q \in EjectionQueues, RightClasses(q.pickups), ~q.streaming, q.loads = <<>>,
           q.queue # <<>>, NEW class \in PickupClasses, class = ClassToSpawn(q.queue[1].item)
    PROVE  LET r == SpawnVisualizer(q, class)
           IN  /\ r \in EjectionQueues /\ RightClasses(r.pickups) /\ Line(r) = Line(q) /\ LoadsForHead(r)
<1> DEFINE r == SpawnVisualizer(q, class)
           given == HeadsSpawned(q, 1)
           next == [q EXCEPT !.pickups = Append(@, [class |-> class, stack |-> Head(q.queue)]),
                             !.queue = Tail(@)]
<1>1. CASE ~hasOwner
  <2>1. r = q
    BY <1>1 DEF SpawnVisualizer
  <2>2. q.streaming = FALSE
    BY DEF EjectionQueues
  <2>3. LoadsForHead(q)
    BY <2>2 DEF LoadsForHead
  <2> QED
    BY <2>1, <2>3
<1>2. CASE hasOwner
  <2>1. r = HandleNextInQueue(next)
    BY <1>2 DEF SpawnVisualizer
  <2>2. q.queue \in Seq(EjectedStacks) /\ q.pickups \in Seq(EjectionPickups)
    BY DEF EjectionQueues
  <2>3. 1 \in 0..Len(q.queue) /\ \A k \in 1..1 : ClassToSpawn(q.queue[k].item) \in PickupClasses
    BY <2>2
  <2>4. /\ given \in EjectionQueues /\ RightClasses(given.pickups) /\ Line(given) = Line(q)
        /\ given.streaming = q.streaming /\ given.loads = q.loads
    BY <2>3, SpawnedKeeps
  <2>5. next = given
    <3> DEFINE one == [k \in 1..1 |-> [class |-> ClassToSpawn(q.queue[k].item), stack |-> q.queue[k]]]
               pickup == [class |-> class, stack |-> Head(q.queue)]
    <3>1. one = <<pickup>>
      <4>1. Head(q.queue) = q.queue[1]
        BY <2>2
      <4>2. \A k \in 1..1 : one[k] = pickup
        BY <4>1
      <4>3. one = [k \in 1..1 |-> pickup]
        BY <4>2
      <4> HIDE DEF pickup, one
      <4> QED
        BY <4>3
    <3>2. Tail(q.queue) = SubSeq(q.queue, 1 + 1, Len(q.queue))
      BY <2>2
    <3> HIDE DEF pickup
    <3>3. Append(q.pickups, pickup) = q.pickups \o <<pickup>>
      BY <2>2
    <3>4. given = [q EXCEPT !.pickups = q.pickups \o one, !.queue = SubSeq(q.queue, 1 + 1, Len(q.queue))]
      BY DEF HeadsSpawned
    <3>5. next = [q EXCEPT !.pickups = Append(q.pickups, pickup), !.queue = Tail(q.queue)]
      BY DEF pickup
    <3> HIDE DEF one, given, next
    <3> QED
      BY <3>1, <3>2, <3>3, <3>4, <3>5
  <2> HIDE DEF next, given
  <2>6. ~next.streaming /\ next.loads = <<>>
    BY <2>4, <2>5
  <2> QED
    BY <2>1, <2>4, <2>5, <2>6, HandleNextKeeps
<1> QED
  BY <1>1, <1>2

LEMMA PostLoadKeeps ==
    ASSUME EjectionInv, PostLoad PROVE EjectionInv'
<1> DEFINE class == Head(loads)
           q == Queue
           after == [q EXCEPT !.streaming = FALSE, !.loads = Tail(@),
                              !.inMemory = @ \cup ({class} \ Broken)]
           r == CASE class \in Broken -> PostFailedLoad(after)
                  [] class \notin Broken /\ queue = <<>> -> after
                  [] class \notin Broken /\ queue # <<>> -> SpawnVisualizer(after, class)
<1>1. loads # <<>> /\ SetQueue(r) /\ UNCHANGED <<stored, default, hasOwner, ejected>>
  BY DEF PostLoad
<1>2. q \in EjectionQueues /\ ejected \in Seq(EjectedStacks) /\ RightClasses(q.pickups) /\ LoadsForHead(q)
      /\ OmitsOnlyBroken(Line(q), ejected)
  BY DEF EjectionInv, Queue
<1>3. q.loads = loads /\ q.queue = queue
  BY DEF Queue
<1>4. /\ q.streaming /\ queue # <<>> /\ loads = <<ClassToSpawn(queue[1].item)>>
      /\ loads \in Seq(PickupClasses)
  BY <1>1, <1>2, <1>3 DEF LoadsForHead, EjectionQueues
<1>5. class = ClassToSpawn(queue[1].item) /\ Tail(loads) = <<>> /\ class \in PickupClasses
  BY <1>4
<1> HIDE DEF class, q
<1>6. /\ after.queue = q.queue /\ after.pickups = q.pickups /\ after.loads = <<>> /\ ~after.streaming
      /\ after \in EjectionQueues
  <2>1. q = [inMemory |-> q.inMemory, queue |-> q.queue, streaming |-> q.streaming,
             loads |-> q.loads, pickups |-> q.pickups]
    BY <1>2 DEF EjectionQueues
  <2>2. after = [inMemory |-> q.inMemory \cup ({class} \ Broken), queue |-> q.queue, streaming |-> FALSE,
                 loads |-> <<>>, pickups |-> q.pickups]
    <3>1. after = [q EXCEPT !.streaming = FALSE, !.loads = Tail(q.loads),
                            !.inMemory = q.inMemory \cup ({class} \ Broken)]
      OBVIOUS
    <3>2. Tail(q.loads) = <<>>
      BY <1>3, <1>5
    <3> HIDE DEF after
    <3> QED
      BY <2>1, <3>1, <3>2
  <2>3. <<>> \in Seq(PickupClasses)
    OBVIOUS
  <2> HIDE DEF after
  <2> QED
    BY <1>2, <1>5, <2>2, <2>3 DEF EjectionQueues
<1> HIDE DEF after
<1>7. Line(after) = Line(q) /\ RightClasses(after.pickups) /\ after.queue = queue
  BY <1>2, <1>3, <1>6 DEF Line
<1>8. r \in EjectionQueues /\ RightClasses(r.pickups) /\ LoadsForHead(r) /\ OmitsOnlyBroken(Line(r), ejected)
  <2>1. CASE class \in Broken
    <3> DEFINE rest == [after EXCEPT !.queue = Tail(@)]
    <3>1. r = HandleNextInQueue(rest)
      BY <2>1 DEF PostFailedLoad
    <3>2. rest = [after EXCEPT !.queue = Tail(after.queue)]
      OBVIOUS
    <3>3. Tail(after.queue) \in Seq(EjectedStacks) /\ Head(after.queue) = queue[1]
      BY <1>4, <1>6, <1>7 DEF EjectionQueues
    <3>4. /\ rest \in EjectionQueues /\ rest.pickups = after.pickups /\ rest.queue = Tail(after.queue)
          /\ ~rest.streaming /\ rest.loads = <<>>
      BY <1>6, <3>2, <3>3 DEF EjectionQueues
    <3> HIDE DEF rest
    <3>5. ~Loads(Head(after.queue))
      BY <1>5, <2>1, <3>3 DEF Loads
    <3>6. OmitsOnlyBroken(Line(rest), ejected)
      BY <1>2, <1>4, <1>6, <1>7, <3>4, <3>5, LineWithoutHead DEF Line
    <3>7. RightClasses(rest.pickups)
      BY <1>7, <3>4
    <3> HIDE DEF r
    <3> QED
      BY <3>1, <3>4, <3>6, <3>7, HandleNextKeeps
  <2>2. CASE class \notin Broken
    <3>1. r = SpawnVisualizer(after, class)
      BY <1>4, <2>2
    <3>2. after.queue # <<>> /\ class = ClassToSpawn(after.queue[1].item)
      BY <1>4, <1>5, <1>7
    <3> HIDE DEF r
    <3>3. r \in EjectionQueues /\ RightClasses(r.pickups) /\ LoadsForHead(r) /\ Line(r) = Line(after)
      BY <1>5, <1>6, <1>7, <3>1, <3>2, SpawnVisualizerKeeps
    <3> QED
      BY <1>2, <1>7, <3>3
  <2> QED
    BY <2>1, <2>2
<1> HIDE DEF r
<1>9. Queue' = r /\ pickups' = r.pickups
  BY <1>1, <1>8, BecomesQueue DEF SetQueue
<1> QED
  BY <1>1, <1>8, <1>9, SameDefaultKeeps DEF EjectionInv

LEMMA UnloadKeeps ==
    ASSUME EjectionInv, NEW class, Unload(class) PROVE EjectionInv'
<1>1. /\ inMemory' = inMemory \ {class}
      /\ UNCHANGED <<stored, default, hasOwner, queue, streaming, loads, pickups, ejected>>
  BY DEF Unload
<1> DEFINE r == [Queue EXCEPT !.inMemory = inMemory \ {class}]
<1>2. r \in EjectionQueues /\ r.pickups = pickups /\ LoadsForHead(r) /\ Line(r) = Line(Queue)
  BY DEF EjectionInv, EjectionQueues, Queue, LoadsForHead, Line
<1>3. Queue' = r
  BY <1>1 DEF Queue
<1>4. RightClasses(r.pickups) /\ OmitsOnlyBroken(Line(r), ejected) /\ pickups' = r.pickups
  BY <1>1, <1>2 DEF EjectionInv
<1> HIDE DEF r
<1> QED
  BY <1>1, <1>2, <1>3, <1>4, SameDefaultKeeps DEF EjectionInv

LEMMA EjectionInvStep == EjectionInv /\ [EjectionNext]_ejectionVars => EjectionInv'
<1> SUFFICES ASSUME EjectionInv, [EjectionNext]_ejectionVars PROVE EjectionInv'
  OBVIOUS
<1>1. CASE \E i \in Ejectables, n \in 1..MaxStored : Eject(i, n)
  BY <1>1, EjectKeeps
<1>2. CASE PostLoad
  BY <1>2, PostLoadKeeps
<1>3. CASE \E class \in PickupClasses : Unload(class)
  BY <1>3, UnloadKeeps
<1>4. CASE UNCHANGED ejectionVars
  <2>1. Queue' = Queue /\ UNCHANGED <<stored, default, hasOwner, ejected, pickups>>
    BY <1>4 DEF ejectionVars, Queue
  <2>2. Queue.pickups = pickups
    BY DEF Queue
  <2> QED
    BY <2>1, <2>2, SameDefaultKeeps DEF EjectionInv
<1> QED
  BY <1>1, <1>2, <1>3, <1>4 DEF EjectionNext

\* However ejections fall between the loads of classes, the stacks come out in the order
\* they were ejected in, each once and whole, in pickups of their own class, and only those
\* whose class does not load are dropped (UInventoryEjectionHandlerExtension): for any
\* items and classes, any number of ejections, and whatever the engine unloads in between.
THEOREM EjectionsAreKept == EjectionSpec => []PickupsAreEjections
<1>1. EjectionInv => PickupsAreEjections
  <2>1. EjectionInv => Line(Queue) = StacksOf(pickups) \o queue
    BY DEF Line, Queue
  <2> QED
    BY <2>1 DEF EjectionInv, PickupsAreEjections, RightClasses
<1> QED
  BY <1>1, EjectionInvInit, EjectionInvStep, PTL DEF EjectionSpec

-----------------------------------------------------------------------------
(* What lies in what.  Inside and Along are the least sets that are closed,  *)
(* so that what holds of a closed set holds of what is in them.             *)

IsLies(f) == f \in [Nestables -> Vessels \cup {Nowhere}]

Closed(w, S) == \A x \in Nestables : w.lies[x] \in S => x \in S

\* What is nested in items is the least set with them that is closed.
LEMMA WithNestedIs ==
    ASSUME NEW w, NEW items \in SUBSET Nestables
    PROVE  /\ items \subseteq WithNested(w, items) /\ WithNested(w, items) \subseteq Nestables
           /\ Closed(w, WithNested(w, items))
           /\ \A S \in SUBSET Nestables : items \subseteq S /\ Closed(w, S) => WithNested(w, items) \subseteq S
<1>1. \A i : i \in WithNested(w, items) <=>
        /\ i \in Nestables
        /\ \A S \in SUBSET Nestables : items \subseteq S /\ Closed(w, S) => i \in S
  BY DEF WithNested, Closed
<1>2. Closed(w, WithNested(w, items))
  <2>1. ASSUME NEW x \in Nestables, w.lies[x] \in WithNested(w, items) PROVE x \in WithNested(w, items)
    <3>1. ASSUME NEW S \in SUBSET Nestables, items \subseteq S, Closed(w, S) PROVE x \in S
      BY <1>1, <2>1, <3>1 DEF Closed
    <3> QED
      BY <1>1, <3>1
  <2> QED
    BY <2>1 DEF Closed
<1> QED
  BY <1>1, <1>2

\* What lies in a vessel is what lies right in it, and what lies in that.
LEMMA InsideIs ==
    ASSUME NEW w, IsLies(w.lies), NEW v \in Vessels
    PROVE  /\ Inside(w, v) \subseteq Nestables
           /\ \A i \in Nestables : i \in Inside(w, v) <=> w.lies[i] = v \/ w.lies[i] \in Inside(w, v)
           /\ Closed(w, Inside(w, v))
           /\ \A S \in SUBSET Nestables :
                (\A i \in Nestables : w.lies[i] = v => i \in S) /\ Closed(w, S) => Inside(w, v) \subseteq S
<1> DEFINE all == Inside(w, v)
           items == ContentOf(w, v)
<1>1. items \in SUBSET Nestables /\ \A i : i \in items <=> i \in Nestables /\ w.lies[i] = v
  BY DEF ContentOf, IsLies
<1>2. all = WithNested(w, items)
  BY DEF Inside
<1> HIDE DEF all, items
<1>3. /\ items \subseteq all /\ all \subseteq Nestables /\ Closed(w, all)
      /\ \A S \in SUBSET Nestables : items \subseteq S /\ Closed(w, S) => all \subseteq S
  BY <1>1, <1>2, WithNestedIs
<1> DEFINE S == {i \in all : w.lies[i] = v \/ w.lies[i] \in all}
<1>4. items \subseteq S /\ S \in SUBSET Nestables
  BY <1>1, <1>3
<1>5. Closed(w, S)
  BY <1>3 DEF Closed
<1>6. all \subseteq S
  BY <1>3, <1>4, <1>5
<1>7. \A i \in Nestables : i \in all <=> w.lies[i] = v \/ w.lies[i] \in all
  BY <1>1, <1>3, <1>6 DEF Closed
<1>8. \A T \in SUBSET Nestables : (\A i \in Nestables : w.lies[i] = v => i \in T) => items \subseteq T
  BY <1>1
<1> QED
  BY <1>3, <1>7, <1>8 DEF all

\* What lies in something lies in all that this lies in.
LEMMA InsideIsTransitive ==
    ASSUME NEW w, IsLies(w.lies), NEW v \in Vessels, NEW u \in Vessels, u \in Inside(w, v)
    PROVE  Inside(w, u) \subseteq Inside(w, v)
<1>1. /\ Inside(w, v) \subseteq Nestables /\ Closed(w, Inside(w, v))
      /\ \A i \in Nestables : i \in Inside(w, v) <=> w.lies[i] = v \/ w.lies[i] \in Inside(w, v)
  BY InsideIs
<1>2. \A i \in Nestables : w.lies[i] = u => i \in Inside(w, v)
  BY <1>1
<1> QED
  BY <1>1, <1>2, InsideIs

\* Of two vessels around an item, one lies in the other.
LEMMA AroundIsLinear ==
    ASSUME NEW w, IsLies(w.lies), NEW u \in Vessels, NEW v \in Vessels, NEW i,
           i \in Inside(w, u), i \in Inside(w, v)
    PROVE  u = v \/ u \in Inside(w, v) \/ v \in Inside(w, u)
<1> DEFINE S == {j \in Inside(w, u) : j \in Inside(w, v) => u = v \/ u \in Inside(w, v) \/ v \in Inside(w, u)}
<1>1. /\ Inside(w, u) \subseteq Nestables /\ Closed(w, Inside(w, u))
      /\ \A j \in Nestables : j \in Inside(w, u) <=> w.lies[j] = u \/ w.lies[j] \in Inside(w, u)
  BY InsideIs
<1>2. \A j \in Nestables : j \in Inside(w, v) <=> w.lies[j] = v \/ w.lies[j] \in Inside(w, v)
  BY InsideIs
<1>3. \A j \in Nestables : w.lies[j] = u => j \in S
  BY <1>1, <1>2
<1>4. Closed(w, S)
  BY <1>1, <1>2 DEF Closed
<1>5. S \in SUBSET Nestables
  BY <1>1
<1>6. Inside(w, u) \subseteq S
  BY <1>3, <1>4, <1>5, InsideIs
<1> QED
  BY <1>6

\* An item and what lies in it.
LEMMA WithOne ==
    ASSUME NEW w, IsLies(w.lies), NEW i \in Nestables
    PROVE  /\ WithNested(w, {i}) \subseteq Nestables
           /\ \A x \in Nestables : x \in WithNested(w, {i}) <=> x = i \/ w.lies[x] \in WithNested(w, {i})
           /\ i \in Bearers => \A x : x \in WithNested(w, {i}) <=> x = i \/ x \in Inside(w, i)
           /\ i \notin Bearers => WithNested(w, {i}) = {i}
<1> DEFINE all == WithNested(w, {i})
<1>1. {i} \in SUBSET Nestables
  OBVIOUS
<1>2. /\ i \in all /\ all \subseteq Nestables /\ Closed(w, all)
      /\ \A S \in SUBSET Nestables : i \in S /\ Closed(w, S) => all \subseteq S
  BY <1>1, WithNestedIs
<1> HIDE DEF all
<1>3. \A x \in Nestables : x \in all <=> x = i \/ w.lies[x] \in all
  <2> DEFINE S == {x \in all : x = i \/ w.lies[x] \in all}
  <2>1. S \in SUBSET Nestables /\ i \in S /\ Closed(w, S)
    BY <1>2 DEF Closed
  <2>2. all \subseteq S
    BY <1>2, <2>1
  <2> QED
    BY <1>2, <2>2 DEF Closed
<1>4. ASSUME i \in Bearers PROVE \A x : x \in all <=> x = i \/ x \in Inside(w, i)
  <2>1. i \in Vessels
    BY <1>4 DEF Vessels
  <2>2. /\ Inside(w, i) \subseteq Nestables /\ Closed(w, Inside(w, i))
        /\ \A j \in Nestables : j \in Inside(w, i) <=> w.lies[j] = i \/ w.lies[j] \in Inside(w, i)
        /\ \A S \in SUBSET Nestables :
                (\A j \in Nestables : w.lies[j] = i => j \in S) /\ Closed(w, S) => Inside(w, i) \subseteq S
    BY <2>1, InsideIs
  <2> DEFINE S == {i} \cup Inside(w, i)
  <2>3. S \in SUBSET Nestables /\ i \in S
    BY <2>2
  <2>4. Closed(w, S)
    BY <2>2 DEF Closed
  <2>5. all \subseteq S
    BY <1>2, <2>3, <2>4
  <2>6. \A j \in Nestables : w.lies[j] = i => j \in all
    BY <1>2 DEF Closed
  <2>7. Inside(w, i) \subseteq all
    BY <1>2, <2>2, <2>6
  <2> QED
    BY <1>2, <2>5, <2>7
<1>5. ASSUME i \notin Bearers PROVE all = {i}
  <2>1. i \notin Vessels \cup {Nowhere}
    BY <1>5, NestedContainersAssumption DEF Vessels
  <2>2. Closed(w, {i})
    BY <2>1 DEF Closed, IsLies
  <2> QED
    BY <1>1, <1>2, <2>2
<1> QED
  BY <1>2, <1>3, <1>4, <1>5 DEF all

\* An item that lay nowhere is put into a vessel: what lies in it comes to lie in all
\* that the vessel lies in, and nothing else does.
LEMMA PuttingIn ==
    ASSUME NEW w, IsLies(w.lies), NEW i \in Nestables, w.lies[i] = Nowhere, NEW v \in Vessels,
           NEW z, z.lies = [w.lies EXCEPT ![i] = v]
    PROVE  /\ IsLies(z.lies)
           /\ WithNested(z, {i}) = WithNested(w, {i})
           /\ \A u \in Vessels : \A x :
                x \in Inside(z, u) <=> \/ x \in Inside(w, u)
                                       \/ (u = v \/ v \in Inside(w, u)) /\ x \in WithNested(w, {i})
<1> DEFINE all == WithNested(w, {i})
<1>1. IsLies(z.lies) /\ z.lies[i] = v /\ \A x \in Nestables : x # i => z.lies[x] = w.lies[x]
  BY DEF IsLies
<1>2. /\ i \in all /\ all \subseteq Nestables /\ Closed(w, all)
      /\ \A S \in SUBSET Nestables : i \in S /\ Closed(w, S) => all \subseteq S
  <2>1. {i} \in SUBSET Nestables
    OBVIOUS
  <2> QED
    BY <2>1, WithNestedIs
<1> HIDE DEF all
<1>3. \A S \in SUBSET Nestables : i \in S => (Closed(w, S) <=> Closed(z, S))
  <2>1. Nowhere \notin Nestables
    BY NestedContainersAssumption
  <2> QED
    BY <1>1, <2>1 DEF Closed
<1>4. WithNested(z, {i}) = all
  <2> DEFINE more == WithNested(z, {i})
  <2>1. {i} \in SUBSET Nestables
    OBVIOUS
  <2>2. /\ i \in more /\ more \subseteq Nestables /\ Closed(z, more)
        /\ \A S \in SUBSET Nestables : i \in S /\ Closed(z, S) => more \subseteq S
    BY <2>1, WithNestedIs
  <2> HIDE DEF more
  <2>3. more \subseteq all /\ all \subseteq more
    BY <1>2, <1>3, <2>2
  <2> QED
    BY <2>3 DEF more
<1>5. ASSUME NEW u \in Vessels, NEW x
      PROVE  x \in Inside(z, u) <=> x \in Inside(w, u) \/ ((u = v \/ v \in Inside(w, u)) /\ x \in all)
  <2> DEFINE before == Inside(w, u)
             after == Inside(z, u)
             both == before \cup {y \in all : u = v \/ v \in before}
  <2>1. /\ before \subseteq Nestables /\ Closed(w, before)
        /\ \A j \in Nestables : j \in before <=> w.lies[j] = u \/ w.lies[j] \in before
        /\ \A S \in SUBSET Nestables :
             (\A j \in Nestables : w.lies[j] = u => j \in S) /\ Closed(w, S) => before \subseteq S
    BY InsideIs
  <2>2. /\ after \subseteq Nestables /\ Closed(z, after)
        /\ \A j \in Nestables : j \in after <=> z.lies[j] = u \/ z.lies[j] \in after
        /\ \A S \in SUBSET Nestables :
             (\A j \in Nestables : z.lies[j] = u => j \in S) /\ Closed(z, S) => after \subseteq S
    BY <1>1, InsideIs
  <2> HIDE DEF before, after
  <2>3. Nowhere \notin Nestables /\ Nowhere \notin Vessels
    BY NestedContainersAssumption DEF Vessels
  <2>4. Closed(w, after)
    BY <1>1, <2>2, <2>3 DEF Closed
  <2>5. \A j \in Nestables : w.lies[j] = u => j \in after
    BY <1>1, <2>2, <2>3
  <2>6. before \subseteq after
    BY <2>1, <2>2, <2>4, <2>5
  <2>7. (u = v \/ v \in before) => all \subseteq after
    <3>1. (u = v \/ v \in before) => i \in after
      BY <1>1, <2>2, <2>6
    <3> QED
      BY <1>2, <2>2, <2>4, <3>1
  <2>8. both \in SUBSET Nestables
    BY <1>2, <2>1
  <2>9. \A j \in Nestables : z.lies[j] = u => j \in both
    BY <1>1, <1>2, <2>1
  <2>10. Closed(z, both)
    BY <1>1, <1>2, <2>1 DEF Closed
  <2>11. after \subseteq both
    BY <2>2, <2>8, <2>9, <2>10
  <2> QED
    BY <2>6, <2>7, <2>11 DEF before, after
<1> QED
  BY <1>1, <1>4, <1>5 DEF all

\* A walk comes to the least set with its start that is closed under its steps.
LEMMA AlongIs ==
    ASSUME NEW next, NEW v \in Vessels, \A u \in Vessels : next[u] \in Vessels \cup {Nowhere}
    PROVE  /\ v \in Along(next, v) /\ Along(next, v) \subseteq Vessels
           /\ \A u \in Along(next, v) : next[u] # Nowhere =>
                next[u] \in Along(next, v) /\ Along(next, next[u]) \subseteq Along(next, v)
           /\ \A S \in SUBSET Vessels :
                v \in S /\ (\A u \in S : next[u] # Nowhere => next[u] \in S) => Along(next, v) \subseteq S
<1> DEFINE Walked(S) == \A u \in S : next[u] # Nowhere => next[u] \in S
           all == Along(next, v)
<1>1. \A y \in Vessels : \A u : u \in Along(next, y) <=>
        u \in Vessels /\ \A S \in SUBSET Vessels : y \in S /\ Walked(S) => u \in S
  BY DEF Along
<1>2. v \in all /\ all \subseteq Vessels
  BY <1>1
<1>3. \A S \in SUBSET Vessels : v \in S /\ Walked(S) => all \subseteq S
  BY <1>1
<1>4. Walked(all)
  <2>1. ASSUME NEW u \in all, next[u] # Nowhere PROVE next[u] \in all
    <3>1. next[u] \in Vessels
      BY <1>2, <2>1
    <3>2. ASSUME NEW S \in SUBSET Vessels, v \in S, Walked(S) PROVE next[u] \in S
      BY <1>3, <2>1, <3>2
    <3> HIDE DEF Walked
    <3> QED
      BY <1>1, <3>1, <3>2
  <2> QED
    BY <2>1
<1>5. ASSUME NEW u \in all, next[u] # Nowhere PROVE Along(next, next[u]) \subseteq all
  <2>1. next[u] \in all /\ next[u] \in Vessels /\ all \in SUBSET Vessels
    BY <1>2, <1>4, <1>5
  <2> HIDE DEF all, Walked
  <2> QED
    BY <1>1, <1>4, <2>1
<1> QED
  BY <1>2, <1>3, <1>4, <1>5

\* No vessel lies in two roots.
LEMMA OneRoot ==
    ASSUME NEW z, IsLies(z.lies), NEW v, NEW r \in Roots, NEW s \in Roots,
           v = r \/ v \in Inside(z, r), v = s \/ v \in Inside(z, s)
    PROVE  r = s
<1>1. r \in Vessels /\ s \in Vessels /\ r \notin Nestables /\ s \notin Nestables
  BY NestedContainersAssumption DEF Vessels
<1>2. Inside(z, r) \subseteq Nestables /\ Inside(z, s) \subseteq Nestables
  BY <1>1, InsideIs
<1>3. CASE v \in Inside(z, r) /\ v \in Inside(z, s)
  <2>1. r = s \/ r \in Inside(z, s) \/ s \in Inside(z, r)
    BY <1>1, <1>3, AroundIsLinear
  <2> QED
    BY <1>1, <1>2, <2>1
<1> QED
  BY <1>1, <1>2, <1>3

\* The actor of a vessel is that of the root around it, where items are renamed into
\* the containers they lie in.
LEMMA ActorIsOfTheRoot ==
    ASSUME NEW w, NEW z, IsLies(z.lies), w.outer = z.lies, NEW v \in Vessels
    PROVE  /\ \A r \in Roots : v = r \/ v \in Inside(z, r) => TypedOuterActor(w, v) = Actor[r]
           /\ (\A r \in Roots : ~(v = r \/ v \in Inside(z, r))) => TypedOuterActor(w, v) = NoActor
<1> DEFINE next == Outward(w)
           all == Along(next, v)
           tops == all \cap Roots
<1>1. /\ \A u \in Vessels : next[u] = IF u \in Roots THEN Nowhere ELSE z.lies[u]
      /\ \A u \in Vessels : next[u] \in Vessels \cup {Nowhere}
  <2>1. \A u \in Vessels : u \notin Roots => u \in Nestables
    BY NestedContainersAssumption DEF Vessels
  <2> QED
    BY <2>1 DEF Outward, IsLies
<1>2. TypedOuterActor(w, v) = IF tops = {} THEN NoActor ELSE Actor[CHOOSE r \in tops : TRUE]
  BY DEF TypedOuterActor
<1> HIDE DEF next
<1>3. /\ all \subseteq Vessels
      /\ \A S \in SUBSET Vessels :
           v \in S /\ (\A u \in S : next[u] # Nowhere => next[u] \in S) => all \subseteq S
  BY <1>1, AlongIs
<1>4. Roots \subseteq Vessels /\ Roots \cap Nestables = {} /\ Bearers \subseteq Nestables
      /\ Nowhere \notin Vessels
  BY NestedContainersAssumption DEF Vessels
<1>5. ASSUME NEW r \in tops PROVE v = r \/ v \in Inside(z, r)
  <2> DEFINE S == {u \in Vessels : v = u \/ v \in Inside(z, u)}
  <2>1. ASSUME NEW u \in S, next[u] # Nowhere PROVE next[u] \in S
    <3>1. next[u] = z.lies[u] /\ u \in Nestables /\ next[u] \in Vessels
      BY <1>1, <1>4, <2>1 DEF Vessels
    <3>2. u \in Inside(z, next[u])
      BY <3>1, InsideIs
    <3>3. Inside(z, u) \subseteq Inside(z, next[u])
      BY <3>1, <3>2, InsideIsTransitive
    <3> QED
      BY <2>1, <3>1, <3>2, <3>3
  <2>2. v \in S /\ S \in SUBSET Vessels
    OBVIOUS
  <2>3. all \subseteq S
    <3> HIDE DEF S, all
    <3> QED
      BY <1>3, <2>1, <2>2
  <2> QED
    BY <2>3
<1>6. ASSUME NEW r \in Roots, v = r \/ v \in Inside(z, r) PROVE r \in tops
  <2>1. r \in Vessels
    BY <1>4
  <2>2. CASE v = r
    BY <1>1, <2>2, AlongIs
  <2>3. CASE v \in Inside(z, r)
    <3> DEFINE S == {x \in Nestables : x \in Bearers => r \in Along(next, x)}
    <3>1. ASSUME NEW x \in Nestables, z.lies[x] = r PROVE x \in S
      <4>1. ASSUME x \in Bearers PROVE r \in Along(next, x)
        <5>1. x \in Vessels /\ next[x] = r /\ r # Nowhere
          BY <1>1, <1>4, <2>1, <3>1, <4>1 DEF Vessels
        <5> QED
          BY <1>1, <5>1, AlongIs
      <4> QED
        BY <4>1
    <3>2. ASSUME NEW x \in Nestables, z.lies[x] \in S PROVE x \in S
      <4>1. ASSUME x \in Bearers PROVE r \in Along(next, x)
        <5>1. x \in Vessels /\ next[x] = z.lies[x] /\ next[x] # Nowhere /\ next[x] \in Vessels
          BY <1>1, <1>4, <3>2, <4>1, NestedContainersAssumption DEF Vessels
        <5>2. next[x] \in Bearers
          BY <1>4, <3>2, <5>1 DEF Vessels
        <5>3. r \in Along(next, next[x])
          BY <3>2, <5>1, <5>2
        <5>4. x \in Along(next, x) /\ Along(next, next[x]) \subseteq Along(next, x)
          BY <1>1, <5>1, AlongIs
        <5> QED
          BY <5>3, <5>4
      <4> QED
        BY <4>1
    <3>3. Closed(z, S)
      BY <3>2 DEF Closed
    <3>4. S \in SUBSET Nestables
      OBVIOUS
    <3>5. Inside(z, r) \subseteq S
      <4> HIDE DEF S
      <4> QED
        BY <2>1, <3>1, <3>3, <3>4, InsideIs
    <3>6. v \in Bearers
      <4>1. v \in Nestables
        BY <2>1, <2>3, InsideIs
      <4> QED
        BY <1>4, <4>1 DEF Vessels
    <3> QED
      BY <2>3, <3>5, <3>6
  <2> QED
    BY <1>6, <2>2, <2>3
<1> HIDE DEF tops
<1>7. \A r \in tops : r \in Roots
  BY DEF tops
<1>8. ASSUME NEW r \in Roots, NEW s \in Roots, v = r \/ v \in Inside(z, r), v = s \/ v \in Inside(z, s)
      PROVE  r = s
  BY <1>8, OneRoot
<1>9. ASSUME NEW r \in Roots, v = r \/ v \in Inside(z, r) PROVE TypedOuterActor(w, v) = Actor[r]
  <2>1. \A s \in tops : s = r
    BY <1>5, <1>7, <1>8, <1>9
  <2>2. r \in tops
    BY <1>6, <1>9
  <2>3. (CHOOSE s \in tops : TRUE) \in tops
    BY <2>2
  <2> QED
    BY <1>2, <2>1, <2>2, <2>3
<1>10. ASSUME \A r \in Roots : ~(v = r \/ v \in Inside(z, r)) PROVE tops = {}
  BY <1>5, <1>7, <1>10
<1> QED
  BY <1>2, <1>9, <1>10

-----------------------------------------------------------------------------
(* The invariant.                                                            *)

HasRoot(x, r) == r \in Roots /\ x \in Inside(Nest, r)

NestTypes ==
    /\ IsLies(lies) /\ IsLies(outer)
    /\ net \in [Actors -> SUBSET Nestables] /\ linked \subseteq Bearers
    /\ parent \in [Bearers -> Vessels \cup {Nowhere}]

\* What a slot in an item holds fits into it.
SlotsFit == \A x \in Nestables : lies[x] \in Sockets \cap Bearers => x \in FitsIn[lies[x]]

\* An actor replicates what lies in its roots; the groups linked are those of the
\* containers there; the parent of a group is that of a container around it, and
\* one in a root has a parent.
RootsAnswer ==
    /\ outer = lies
    /\ \A a \in Actors : \A x \in Nestables : x \in net[a] <=> \E r \in Roots : HasRoot(x, r) /\ Actor[r] = a
    /\ \A b \in Bearers : b \in linked <=> \E r \in Roots : HasRoot(b, r) /\ Actor[r] # NoActor
    /\ \A b \in Bearers : parent[b] # Nowhere => b \in Inside(Nest, parent[b])
    /\ \A b \in Bearers : (\E r \in Roots : HasRoot(b, r)) => parent[b] # Nowhere

NestInv ==
    /\ NestTypes
    /\ NoStorageInsideItself
    /\ SlotsFit
    /\ renames => RootsAnswer

\* What is heard from a container in a root is heard at the root.
LEMMA HeardAtRoot ==
    ASSUME NestInv, renames, NEW b \in Bearers, NEW r \in Roots, HasRoot(b, r), Actor[r] # NoActor
    PROVE  HeardAt(b) = r
<1> DEFINE next == Upward
           in == Inside(Nest, r)
<1>1. /\ Nest.lies = lies /\ IsLies(Nest.lies)
      /\ linked \subseteq Bearers /\ \A c \in Bearers : parent[c] \in Vessels \cup {Nowhere}
  BY DEF NestInv, NestTypes, Nest
<1>2. /\ r \in Vessels /\ r \notin Nestables /\ r \notin Bearers /\ Bearers \subseteq Vessels
      /\ \A u \in Vessels : u \in Nestables => u \in Bearers
  BY NestedContainersAssumption DEF Vessels
<1>3. \A u \in Vessels : next[u] = (IF u \in linked THEN parent[u] ELSE Nowhere) /\ next[u] \in Vessels \cup {Nowhere}
  BY <1>1 DEF Upward
<1>4. /\ in \subseteq Nestables /\ \A j \in Nestables : j \in in <=> lies[j] = r \/ lies[j] \in in
      /\ \A S \in SUBSET Nestables :
           (\A j \in Nestables : lies[j] = r => j \in S) /\ Closed(Nest, S) => in \subseteq S
  BY <1>1, <1>2, InsideIs
<1>5. \A c \in Bearers : c \in in => /\ next[c] = parent[c] /\ parent[c] \in Vessels
                                     /\ c \in Inside(Nest, parent[c]) /\ next[c] # Nowhere
  <2>1. ASSUME NEW c \in Bearers, c \in in PROVE c \in linked /\ parent[c] # Nowhere /\ c \in Inside(Nest, parent[c])
    <3>1. HasRoot(c, r)
      BY <2>1 DEF HasRoot
    <3> QED
      BY <3>1 DEF NestInv, RootsAnswer
  <2> QED
    BY <1>1, <1>2, <1>3, <2>1
<1>6. ASSUME NEW c \in Bearers, c \in in PROVE parent[c] = r \/ (parent[c] \in in /\ parent[c] \in Bearers)
  <2>1. parent[c] = r \/ parent[c] \in in \/ r \in Inside(Nest, parent[c])
    BY <1>1, <1>2, <1>5, <1>6, AroundIsLinear
  <2>2. parent[c] \in Vessels /\ Inside(Nest, parent[c]) \subseteq Nestables
    BY <1>1, <1>5, <1>6, InsideIs
  <2>3. parent[c] = r \/ parent[c] \in in
    BY <1>2, <2>1, <2>2
  <2>4. parent[c] \in in => parent[c] \in Bearers
    BY <1>2, <1>4, <2>2
  <2> QED
    BY <2>3, <2>4
<1> HIDE DEF next
<1>7. \A u \in Along(next, b) : u = r \/ (u \in Bearers /\ u \in in)
  <2> DEFINE S == {u \in Vessels : u = r \/ (u \in Bearers /\ u \in in)}
  <2>1. b \in S /\ S \in SUBSET Vessels
    BY <1>2 DEF HasRoot
  <2>2. \A u \in S : next[u] # Nowhere => next[u] \in S
    BY <1>1, <1>2, <1>3, <1>5, <1>6
  <2>3. Along(next, b) \subseteq S
    <3> HIDE DEF S
    <3>1. b \in Vessels
      BY <1>2
    <3> QED
      BY <1>3, <2>1, <2>2, <3>1, AlongIs
  <2> QED
    BY <2>3
<1>8. ASSUME NEW x \in in, x \in Bearers PROVE r \in Along(next, x)
  <2> DEFINE S == {i \in Nestables : \A y \in Bearers : (y = i \/ i \in Inside(Nest, y)) /\ y \in in => r \in Along(next, y)}
  <2>1. ASSUME NEW y \in Bearers, y \in in, parent[y] = r \/ r \in Along(next, parent[y]) PROVE r \in Along(next, y)
    <3>1. y \in Vessels /\ next[y] = parent[y] /\ next[y] # Nowhere /\ parent[y] \in Vessels
      BY <1>2, <1>5, <2>1
    <3>2. parent[y] \in Along(next, y) /\ Along(next, parent[y]) \subseteq Along(next, y)
      BY <1>3, <3>1, AlongIs
    <3> QED
      BY <2>1, <3>2
  <2>2. \A y \in Bearers : \A i \in Nestables : i \in Inside(Nest, y) <=> lies[i] = y \/ lies[i] \in Inside(Nest, y)
    BY <1>1, <1>2, InsideIs
  <2>3. \A y \in Vessels : r \notin Inside(Nest, y)
    BY <1>1, <1>2, InsideIs
  <2>4. ASSUME NEW i \in Nestables, lies[i] = r PROVE i \in S
    <3>1. ASSUME NEW y \in Bearers, y = i \/ i \in Inside(Nest, y), y \in in PROVE r \in Along(next, y)
      <4>1. y = i
        BY <1>2, <2>2, <2>3, <2>4, <3>1
      <4>2. parent[y] \in Vessels /\ y \in Inside(Nest, parent[y])
        BY <1>5, <3>1
      <4>3. lies[y] = parent[y] \/ lies[y] \in Inside(Nest, parent[y])
        BY <1>1, <2>4, <4>1, <4>2, InsideIs
      <4>4. parent[y] = r
        BY <2>3, <2>4, <4>1, <4>2, <4>3
      <4> QED
        BY <2>1, <3>1, <4>4
    <3> QED
      BY <3>1
  <2>5. ASSUME NEW i \in Nestables, lies[i] \in S PROVE i \in S
    <3> DEFINE z == lies[i]
    <3>1. z \in Nestables /\ \A y \in Bearers : (y = z \/ z \in Inside(Nest, y)) /\ y \in in => r \in Along(next, y)
      BY <2>5
    <3> HIDE DEF S
    <3>2. ASSUME NEW y \in Bearers, y = i \/ i \in Inside(Nest, y), y \in in PROVE r \in Along(next, y)
      <4>1. CASE i \in Inside(Nest, y)
        <5>1. y = z \/ z \in Inside(Nest, y)
          BY <2>2, <4>1
        <5> QED
          BY <3>1, <3>2, <5>1
      <4>2. CASE y = i
        <5>1. parent[y] \in Vessels /\ y \in Inside(Nest, parent[y])
          BY <1>5, <3>2
        <5>2. parent[y] = z \/ z \in Inside(Nest, parent[y])
          BY <1>1, <4>2, <5>1, InsideIs
        <5>3. CASE parent[y] = r
          BY <2>1, <3>2, <5>3
        <5>4. CASE parent[y] # r
          <6>1. parent[y] \in in /\ parent[y] \in Bearers
            BY <1>6, <3>2, <5>4
          <6>2. r \in Along(next, parent[y])
            BY <3>1, <5>2, <6>1
          <6> QED
            BY <2>1, <3>2, <6>2
        <5> QED
          BY <5>3, <5>4
      <4> QED
        BY <3>2, <4>1, <4>2
    <3> QED
      BY <3>2 DEF S
  <2>6. in \subseteq S
    <3>1. Closed(Nest, S)
      BY <1>1, <2>5 DEF Closed
    <3>2. S \in SUBSET Nestables
      OBVIOUS
    <3> HIDE DEF S, in
    <3> QED
      BY <1>4, <2>4, <3>1, <3>2
  <2>7. x \in S
    BY <1>8, <2>6
  <2> QED
    BY <1>8, <2>7
<1>9. b \in in
  BY DEF HasRoot
<1>10. r \in Along(next, b) /\ next[r] = Nowhere
  BY <1>1, <1>2, <1>3, <1>8, <1>9
<1>11. \A u \in Along(next, b) : next[u] = Nowhere => u = r
  BY <1>5, <1>7
<1>12. HeardAt(b) = CHOOSE u \in Along(next, b) : next[u] = Nowhere
  BY DEF HeardAt, next
<1> QED
  BY <1>10, <1>11, <1>12

LEMMA NestInvGivesRoots == NestInv => NestedBelongToRoots
<1> SUFFICES ASSUME NestInv, renames PROVE NestedBelongToRoots
  BY DEF NestedBelongToRoots
<1>1. ASSUME NEW r \in Roots PROVE Inside(Nest, r) \subseteq Nestables
  <2>1. IsLies(Nest.lies) /\ r \in Vessels
    BY DEF NestInv, NestTypes, Nest, Vessels
  <2> QED
    BY <2>1, InsideIs
<1>2. ASSUME NEW a \in Actors PROVE net[a] = UNION { Inside(Nest, r) : r \in { s \in Roots : Actor[s] = a } }
  <2>1. net[a] \subseteq Nestables
    BY DEF NestInv, NestTypes
  <2>2. \A x \in Nestables : x \in net[a] <=> \E r \in Roots : HasRoot(x, r) /\ Actor[r] = a
    BY DEF NestInv, RootsAnswer
  <2>3. \A x \in Nestables : x \in net[a] <=> \E r \in Roots : x \in Inside(Nest, r) /\ Actor[r] = a
    BY <2>2 DEF HasRoot
  <2> QED
    BY <1>1, <2>1, <2>3
<1>3. ASSUME NEW r \in Roots, Actor[r] # NoActor, NEW b \in Inside(Nest, r) \cap Bearers PROVE HeardAt(b) = r
  BY <1>3, HeardAtRoot DEF HasRoot
<1> QED
  BY <1>2, <1>3 DEF NestedBelongToRoots

-----------------------------------------------------------------------------
(* Steps.                                                                   *)

LEMMA NestInvInit == NestInit => NestInv
<1> SUFFICES ASSUME NestInit PROVE NestInv
  OBVIOUS
<1>1. /\ lies = [i \in Nestables |-> Nowhere] /\ outer = lies
      /\ net = [a \in Actors |-> {}] /\ linked = {} /\ parent = [b \in Bearers |-> Nowhere]
      /\ Nest.lies = lies
  BY DEF NestInit, Nest
<1>2. NestTypes
  BY <1>1 DEF NestTypes, IsLies
<1>3. IsLies(Nest.lies)
  BY <1>1, <1>2 DEF NestTypes
<1>4. \A v \in Vessels : Inside(Nest, v) = {}
  <2>1. ASSUME NEW v \in Vessels PROVE Inside(Nest, v) \subseteq {}
    <3>1. v # Nowhere /\ Nowhere \notin {}
      BY NestedContainersAssumption DEF Vessels
    <3>2. Closed(Nest, {}) /\ \A i \in Nestables : lies[i] # v
      BY <1>1, <3>1 DEF Closed
    <3> QED
      BY <1>1, <1>3, <3>2, InsideIs
  <2> QED
    BY <2>1
<1>5. Bearers \subseteq Vessels /\ Roots \subseteq Vessels /\ Nowhere \notin Vessels
  BY NestedContainersAssumption DEF Vessels
<1>6. NoStorageInsideItself
  BY <1>4, <1>5 DEF NoStorageInsideItself
<1>7. SlotsFit
  BY <1>1, <1>5 DEF SlotsFit
<1>8. \A x, r : ~HasRoot(x, r)
  BY <1>4, <1>5 DEF HasRoot
<1>9. RootsAnswer
  BY <1>1, <1>8 DEF RootsAnswer
<1> QED
  BY <1>2, <1>6, <1>7, <1>9 DEF NestInv

\* Where templates descend, a slot never gets what holds the slot's own item; a storage
\* asks.
LEMMA NeverInItself ==
    ASSUME TemplatesDescend(Nat), NestInv, NEW v \in Vessels, NEW i \in Nestables, PutInto(v, i)
    PROVE  v \notin WithNested(Nest, {i})
<1>1. Nest.lies = lies /\ IsLies(Nest.lies) /\ SlotsFit
  BY DEF NestInv, NestTypes, Nest
<1>2. IF v \in Sockets THEN CanSetIn(v, i) ELSE CanAddTo(v, i)
  BY DEF PutInto
<1>3. WithNested(Nest, {i}) \subseteq Nestables
  BY <1>1, WithOne
<1>4. CASE v \in Roots
  BY <1>3, <1>4, NestedContainersAssumption
<1>5. CASE v \in Bearers /\ v \notin Sockets
  BY <1>2, <1>5 DEF CanAddTo, GetAllContainersInItemRecursive
<1>6. CASE v \in Bearers /\ v \in Sockets
  <2>1. i \in FitsIn[v]
    BY <1>2, <1>6 DEF CanSetIn
  <2>2. PICK rank \in [Bearers -> Nat] :
          \A s \in Sockets \cap Bearers : \A b \in FitsIn[s] \cap Bearers : b \in Sockets /\ rank[b] < rank[s]
    BY DEF TemplatesDescend
  <2> DEFINE S == {x \in Nestables : x \in Bearers => x \in Sockets /\ rank[x] < rank[v]}
  <2>3. i \in S
    BY <1>6, <2>1, <2>2
  <2>4. ASSUME NEW x \in Nestables, lies[x] \in S PROVE x \in S
    <3>1. lies[x] \in Vessels \cup {Nowhere} /\ lies[x] \in Nestables
      BY <1>1, <2>4 DEF IsLies
    <3>2. lies[x] \in Bearers
      BY <3>1, NestedContainersAssumption DEF Vessels
    <3>3. lies[x] \in Sockets /\ rank[lies[x]] < rank[v]
      BY <2>4, <3>2
    <3>4. x \in FitsIn[lies[x]]
      BY <1>1, <3>2, <3>3 DEF SlotsFit
    <3>5. ASSUME x \in Bearers PROVE x \in Sockets /\ rank[x] < rank[v]
      <4>1. x \in Sockets /\ rank[x] < rank[lies[x]]
        BY <2>2, <3>2, <3>3, <3>4, <3>5
      <4>2. rank[x] \in Nat /\ rank[lies[x]] \in Nat /\ rank[v] \in Nat
        BY <1>6, <2>2, <3>2, <3>5
      <4> QED
        BY <3>3, <4>1, <4>2
    <3> QED
      BY <3>5
  <2>5. Closed(Nest, S)
    BY <1>1, <2>4 DEF Closed
  <2>6. WithNested(Nest, {i}) \subseteq S
    <3>1. {i} \in SUBSET Nestables /\ S \in SUBSET Nestables /\ {i} \subseteq S
      BY <2>3
    <3> HIDE DEF S
    <3> QED
      BY <2>5, <3>1, WithNestedIs
  <2>7. v \notin S
    BY <1>6, <2>2
  <2> QED
    BY <2>6, <2>7
<1> QED
  BY <1>4, <1>5, <1>6 DEF Vessels

\* What both steps come to: the nest before and after, one of them with item i in
\* vessel v, the other with it nowhere.
LEMMA OneMoreKeeps ==
    ASSUME NEW w, IsLies(w.lies), NEW i \in Nestables, w.lies[i] = Nowhere, NEW v \in Vessels,
           NEW z, z.lies = [w.lies EXCEPT ![i] = v],
           v \notin WithNested(w, {i}),
           \A b \in Bearers : b \notin Inside(w, b)
    PROVE  \A b \in Bearers : b \notin Inside(z, b)
<1>1. \A u \in Vessels : \A x :
        x \in Inside(z, u) <=> \/ x \in Inside(w, u)
                               \/ (u = v \/ v \in Inside(w, u)) /\ x \in WithNested(w, {i})
  BY PuttingIn
<1>2. ASSUME NEW b \in Bearers, v \in Inside(w, b), b \in WithNested(w, {i}) PROVE FALSE
  <2>1. b \in Vessels /\ b \in Nestables
    BY NestedContainersAssumption DEF Vessels
  <2>2. Closed(w, WithNested(w, {i})) /\ WithNested(w, {i}) \subseteq Nestables
    BY WithNestedIs
  <2>3. Inside(w, b) \subseteq WithNested(w, {i})
    <3>1. \A j \in Nestables : w.lies[j] = b => j \in WithNested(w, {i})
      BY <1>2, <2>2 DEF Closed
    <3> QED
      BY <2>1, <2>2, <3>1, InsideIs
  <2> QED
    BY <1>2, <2>3
<1> QED
  BY <1>1, <1>2 DEF Vessels

\* What lies in an item that lies nowhere lies in no root.
LEMMA NoRootAround ==
    ASSUME NEW w, IsLies(w.lies), NEW i \in Nestables, w.lies[i] = Nowhere,
           NEW x \in WithNested(w, {i}), NEW r \in Roots
    PROVE  x \notin Inside(w, r)
<1>1. r \in Vessels /\ r \notin Nestables /\ Nowhere \notin Vessels /\ Nowhere \notin Nestables
  BY NestedContainersAssumption DEF Vessels
<1>2. \A j \in Nestables : j \in Inside(w, r) <=> w.lies[j] = r \/ w.lies[j] \in Inside(w, r)
  BY <1>1, InsideIs
<1>3. Inside(w, r) \subseteq Nestables
  BY <1>1, InsideIs
<1> DEFINE S == {j \in WithNested(w, {i}) : j \notin Inside(w, r)}
<1>4. WithNested(w, {i}) \subseteq Nestables /\ Closed(w, WithNested(w, {i})) /\ i \in WithNested(w, {i})
  BY WithNestedIs
<1>5. i \in S /\ S \in SUBSET Nestables
  BY <1>1, <1>2, <1>3, <1>4
<1>6. Closed(w, S)
  BY <1>1, <1>2, <1>4 DEF Closed
<1>7. WithNested(w, {i}) \subseteq S
  <2>1. {i} \in SUBSET Nestables /\ {i} \subseteq S
    BY <1>5
  <2> HIDE DEF S
  <2> QED
    BY <1>5, <1>6, <2>1, WithNestedIs
<1> QED
  BY <1>7

LEMMA PutIntoKeeps ==
    ASSUME TemplatesDescend(Nat), NestInv, NEW v \in Vessels, NEW i \in Nestables, PutInto(v, i)
    PROVE  NestInv'
<1> DEFINE placed == [Nest EXCEPT !.lies[i] = v]
           moved == [placed EXCEPT !.outer[i] = IF renames THEN v ELSE placed.outer[i], !.hook[i] = v]
           all == WithNested(Nest, {i})
           actor == TypedOuterActor(moved, v)
           listed == Enlisted(moved, actor, all)
           given == WithParents(listed, all, v)
<1>1. NestTypes /\ NoStorageInsideItself /\ SlotsFit /\ (renames => RootsAnswer)
      /\ IsLies(lies) /\ Nest.lies = lies /\ IsLies(Nest.lies)
  BY DEF NestInv, NestTypes, Nest
<1>2. /\ lies[i] = Nowhere /\ BecomesNest(TakeNested(placed, v, i))
      /\ IF v \in Sockets THEN CanSetIn(v, i) ELSE CanAddTo(v, i)
  BY DEF PutInto
<1>3. /\ placed = [lies |-> [lies EXCEPT ![i] = v], outer |-> outer, hook |-> hook, net |-> net,
                   linked |-> linked, parent |-> parent]
      /\ moved = [lies |-> [lies EXCEPT ![i] = v], outer |-> [outer EXCEPT ![i] = IF renames THEN v ELSE outer[i]],
                  hook |-> [hook EXCEPT ![i] = v], net |-> net, linked |-> linked, parent |-> parent]
  <2>1. placed = [lies |-> [lies EXCEPT ![i] = v], outer |-> outer, hook |-> hook, net |-> net,
                  linked |-> linked, parent |-> parent]
    BY DEF Nest
  <2> HIDE DEF placed
  <2>2. moved = [placed EXCEPT !.outer[i] = IF renames THEN v ELSE outer[i], !.hook[i] = v]
    BY <2>1
  <2> HIDE DEF moved
  <2> QED
    BY <2>1, <2>2
<1>4. all = WithNested(moved, {i})
  <2> HIDE DEF moved, placed
  <2>1. moved.lies = [Nest.lies EXCEPT ![i] = v]
    BY <1>1, <1>3
  <2> QED
    BY <1>1, <1>2, <2>1, PuttingIn
<1>5. TakeNested(placed, v, i) = given
  BY <1>4 DEF TakeNested
<1> HIDE DEF placed, moved
<1>6. /\ listed.lies = moved.lies /\ listed.outer = moved.outer /\ listed.parent = parent
      /\ listed.net = IF actor = NoActor THEN net ELSE [net EXCEPT ![actor] = net[actor] \cup all]
      /\ listed.linked = IF actor = NoActor THEN linked ELSE linked \cup (all \cap Bearers)
      /\ \E hooks : listed = [lies |-> listed.lies, outer |-> listed.outer, hook |-> hooks, net |-> listed.net,
                    linked |-> listed.linked, parent |-> listed.parent]
  BY <1>3 DEF Enlisted
<1> HIDE DEF actor, listed, all
<1>7. /\ given.lies = moved.lies /\ given.outer = moved.outer /\ given.net = listed.net
      /\ given.linked = listed.linked
      /\ given.parent = [b \in Bearers |-> IF b \in all /\ parent[b] = Nowhere THEN v ELSE parent[b]]
  BY <1>6 DEF WithParents
<1> HIDE DEF given
<1>8. /\ lies' = [lies EXCEPT ![i] = v]
      /\ outer' = [outer EXCEPT ![i] = IF renames THEN v ELSE outer[i]]
      /\ net' = IF actor = NoActor THEN net ELSE [net EXCEPT ![actor] = net[actor] \cup all]
      /\ linked' = IF actor = NoActor THEN linked ELSE linked \cup (all \cap Bearers)
      /\ parent' = [b \in Bearers |-> IF b \in all /\ parent[b] = Nowhere THEN v ELSE parent[b]]
      /\ renames' = renames
  BY <1>2, <1>3, <1>5, <1>6, <1>7 DEF BecomesNest
<1>9. /\ IsLies(lies') /\ Nest'.lies = lies' /\ Nest'.lies = [Nest.lies EXCEPT ![i] = v] /\ IsLies(Nest'.lies)
  BY <1>1, <1>8 DEF Nest, IsLies
<1>10. Inside(Nest, v)' = Inside(Nest', v') /\ \A u : Inside(Nest, u)' = Inside(Nest', u)
  BY DEF Inside, WithNested, ContentOf
<1>11. \A u \in Vessels : \A x :
        x \in Inside(Nest', u) <=> \/ x \in Inside(Nest, u)
                                   \/ (u = v \/ v \in Inside(Nest, u)) /\ x \in all
  BY <1>1, <1>2, <1>9, PuttingIn DEF all
<1>12. v \notin all /\ all \subseteq Nestables /\ i \in all
  <2>1. {i} \in SUBSET Nestables
    OBVIOUS
  <2> QED
    BY <2>1, NeverInItself, WithNestedIs DEF all
<1>13. /\ Roots \subseteq Vessels /\ Bearers \subseteq Vessels /\ Bearers \subseteq Nestables
       /\ Nowhere \notin Vessels /\ Roots \cap Nestables = {}
  BY NestedContainersAssumption DEF Vessels
<1>14. NoStorageInsideItself'
  <2>1. \A b \in Bearers : b \notin Inside(Nest, b)
    BY <1>1 DEF NoStorageInsideItself
  <2>2. \A b \in Bearers : b \notin Inside(Nest', b)
    BY <1>1, <1>2, <1>9, <1>12, <2>1, OneMoreKeeps DEF all
  <2> QED
    BY <1>10, <2>2 DEF NoStorageInsideItself
<1>15. SlotsFit'
  <2>1. ASSUME NEW x \in Nestables, lies'[x] \in Sockets \cap Bearers PROVE x \in FitsIn[lies'[x]]
    <3>1. CASE x = i
      BY <1>1, <1>2, <1>8, <2>1, <3>1 DEF CanSetIn, IsLies
    <3>2. CASE x # i
      BY <1>1, <1>8, <2>1, <3>2 DEF SlotsFit, IsLies
    <3> QED
      BY <3>1, <3>2
  <2> QED
    BY <2>1 DEF SlotsFit
<1>16. NestTypes'
  <2>1. IsLies(outer')
    BY <1>1, <1>8 DEF NestTypes, IsLies
  <2>2. net' \in [Actors -> SUBSET Nestables] /\ linked' \subseteq Bearers
    BY <1>1, <1>8, <1>12 DEF NestTypes
  <2>3. parent' \in [Bearers -> Vessels \cup {Nowhere}]
    BY <1>1, <1>8 DEF NestTypes
  <2> QED
    BY <1>9, <2>1, <2>2, <2>3 DEF NestTypes, IsLies
<1>17. ASSUME renames PROVE RootsAnswer'
  <2>1. /\ outer = lies
        /\ \A a \in Actors : \A x \in Nestables : x \in net[a] <=> \E r \in Roots : HasRoot(x, r) /\ Actor[r] = a
        /\ \A b \in Bearers : b \in linked <=> \E r \in Roots : HasRoot(b, r) /\ Actor[r] # NoActor
        /\ \A b \in Bearers : parent[b] # Nowhere => b \in Inside(Nest, parent[b])
        /\ \A b \in Bearers : (\E r \in Roots : HasRoot(b, r)) => parent[b] # Nowhere
    BY <1>1, <1>17 DEF RootsAnswer
  <2>2. outer' = lies'
    BY <1>8, <1>17, <2>1
  <2>3. moved.outer = Nest'.lies
    BY <1>3, <1>8, <1>9, <1>17, <2>1
  <2>4. /\ \A r \in Roots : v = r \/ v \in Inside(Nest', r) => actor = Actor[r]
        /\ (\A r \in Roots : ~(v = r \/ v \in Inside(Nest', r))) => actor = NoActor
    BY <1>9, <2>3, ActorIsOfTheRoot DEF actor
  <2>5. \A r \in Roots : v \in Inside(Nest', r) <=> v \in Inside(Nest, r)
    BY <1>11, <1>12, <1>13
  <2> DEFINE Over(r) == v = r \/ v \in Inside(Nest, r)
  <2>6. /\ \A r \in Roots : Over(r) => actor = Actor[r]
        /\ actor # NoActor => \E r \in Roots : Over(r)
    BY <2>4, <2>5
  <2>7. \A r \in Roots : \A x : HasRoot(x, r)' <=> HasRoot(x, r) \/ (Over(r) /\ x \in all)
    <3>1. \A r \in Roots : \A x : HasRoot(x, r)' <=> x \in Inside(Nest', r)
      BY <1>10 DEF HasRoot
    <3>2. \A r \in Roots : \A x : HasRoot(x, r) <=> x \in Inside(Nest, r)
      BY DEF HasRoot
    <3> QED
      BY <1>11, <1>13, <3>1, <3>2
  <2>8. \A r \in Roots : Actor[r] # NoActor => Actor[r] \in Actors
    BY DEF Actors
  <2> HIDE DEF Over
  <2>9. ASSUME NEW a \in Actors, NEW x \in Nestables
        PROVE  x \in net'[a] <=> \E r \in Roots : HasRoot(x, r)' /\ Actor[r] = a
    <3>1. a # NoActor /\ a \in DOMAIN net
      BY <1>1 DEF Actors, NestTypes
    <3>2. x \in net'[a] <=> x \in net[a] \/ (actor = a /\ x \in all)
      BY <1>8, <3>1
    <3>3. (\E r \in Roots : HasRoot(x, r)' /\ Actor[r] = a)
             <=> (\E r \in Roots : HasRoot(x, r) /\ Actor[r] = a) \/ (x \in all /\ \E r \in Roots : Over(r) /\ Actor[r] = a)
      BY <2>7
    <3>4. (\E r \in Roots : Over(r) /\ Actor[r] = a) <=> actor = a
      BY <2>6, <3>1
    <3> QED
      BY <2>1, <3>2, <3>3, <3>4
  <2>10. ASSUME NEW b \in Bearers
         PROVE  b \in linked' <=> \E r \in Roots : HasRoot(b, r)' /\ Actor[r] # NoActor
    <3>1. b \in linked' <=> b \in linked \/ (actor # NoActor /\ b \in all)
      BY <1>8
    <3>2. (\E r \in Roots : HasRoot(b, r)' /\ Actor[r] # NoActor)
             <=> \/ \E r \in Roots : HasRoot(b, r) /\ Actor[r] # NoActor
                 \/ b \in all /\ \E r \in Roots : Over(r) /\ Actor[r] # NoActor
      BY <2>7
    <3>3. (\E r \in Roots : Over(r) /\ Actor[r] # NoActor) <=> actor # NoActor
      BY <2>6
    <3> QED
      BY <2>1, <3>1, <3>2, <3>3
  <2>11. ASSUME NEW b \in Bearers, parent'[b] # Nowhere PROVE b \in Inside(Nest', parent'[b])
    <3>1. CASE b \in all /\ parent[b] = Nowhere
      BY <1>8, <1>11, <3>1
    <3>2. CASE ~(b \in all /\ parent[b] = Nowhere)
      <4>1. parent'[b] = parent[b] /\ parent[b] \in Vessels
        BY <1>1, <1>8, <2>11, <3>2 DEF NestTypes
      <4>2. b \in Inside(Nest, parent[b])
        BY <2>1, <2>11, <4>1
      <4> QED
        BY <1>11, <4>1, <4>2
    <3> QED
      BY <3>1, <3>2
  <2>12. ASSUME NEW b \in Bearers, \E r \in Roots : HasRoot(b, r)' PROVE parent'[b] # Nowhere
    <3>1. (\E r \in Roots : HasRoot(b, r)) \/ b \in all
      BY <2>7, <2>12
    <3>2. parent[b] # Nowhere \/ b \in all
      BY <2>1, <3>1
    <3> QED
      BY <1>8, <1>13, <3>2
  <2> QED
    BY <1>10, <2>2, <2>9, <2>10, <2>11, <2>12 DEF RootsAnswer
<1> QED
  BY <1>8, <1>14, <1>15, <1>16, <1>17 DEF NestInv

LEMMA TakeOutOfKeeps ==
    ASSUME NestInv, NEW v \in Vessels, NEW i \in Nestables, TakeOutOf(v, i)
    PROVE  NestInv'
<1> DEFINE gone == [Nest EXCEPT !.lies[i] = Nowhere]
           all == WithNested(gone, {i})
           actor == TypedOuterActor(gone, v)
           unregistered == Delisted(gone, actor, all)
           free == WithoutParents(unregistered, all)
           released == [free EXCEPT !.outer[i] = IF gone.outer[i] = v THEN Nowhere ELSE gone.outer[i],
                                 !.hook[i] = Nowhere]
<1>1. NestTypes /\ NoStorageInsideItself /\ SlotsFit /\ (renames => RootsAnswer)
      /\ IsLies(lies) /\ Nest.lies = lies /\ IsLies(Nest.lies)
  BY DEF NestInv, NestTypes, Nest
<1>2. lies[i] = v /\ BecomesNest(ReleaseNested(gone, v, i))
  BY DEF TakeOutOf
<1>3. gone = [lies |-> [lies EXCEPT ![i] = Nowhere], outer |-> outer, hook |-> hook, net |-> net,
              linked |-> linked, parent |-> parent]
  BY DEF Nest
<1>4. ReleaseNested(gone, v, i) = released
  BY DEF ReleaseNested
<1> HIDE DEF gone
<1>5. /\ unregistered.lies = gone.lies /\ unregistered.outer = outer /\ unregistered.parent = parent
      /\ unregistered.net = IF actor = NoActor THEN net ELSE [net EXCEPT ![actor] = net[actor] \ all]
      /\ unregistered.linked = IF actor = NoActor THEN linked ELSE linked \ all
      /\ unregistered = [lies |-> unregistered.lies, outer |-> outer, hook |-> hook, net |-> unregistered.net,
                    linked |-> unregistered.linked, parent |-> parent]
  BY <1>3 DEF Delisted
<1> HIDE DEF actor, unregistered, all
<1>6. free = [lies |-> gone.lies, outer |-> outer, hook |-> hook, net |-> unregistered.net,
              linked |-> unregistered.linked,
              parent |-> [b \in Bearers |-> IF b \in all THEN Nowhere ELSE parent[b]]]
  <2>1. unregistered = [lies |-> gone.lies, outer |-> outer, hook |-> hook, net |-> unregistered.net,
                        linked |-> unregistered.linked, parent |-> parent]
    BY <1>5
  <2>2. free = [unregistered EXCEPT !.parent = [b \in Bearers |-> IF b \in all THEN Nowhere ELSE unregistered.parent[b]]]
    BY DEF WithoutParents
  <2>3. free = [unregistered EXCEPT !.parent = [b \in Bearers |-> IF b \in all THEN Nowhere ELSE parent[b]]]
    BY <1>5, <2>2
  <2> DEFINE parents == [b \in Bearers |-> IF b \in all THEN Nowhere ELSE parent[b]]
             n == unregistered.net
             l == unregistered.linked
  <2> HIDE DEF free, parents, n, l
  <2>4. unregistered = [lies |-> gone.lies, outer |-> outer, hook |-> hook, net |-> n, linked |-> l, parent |-> parent]
    BY <2>1 DEF n, l
  <2>5. free = [unregistered EXCEPT !.parent = parents]
    BY <2>3 DEF parents
  <2>6. free = [lies |-> gone.lies, outer |-> outer, hook |-> hook, net |-> n, linked |-> l, parent |-> parents]
    BY ONLY <2>4, <2>5
  <2> QED
    BY <2>6 DEF n, l, parents
<1> HIDE DEF free
<1>7. released = [lies |-> gone.lies, outer |-> [outer EXCEPT ![i] = IF outer[i] = v THEN Nowhere ELSE outer[i]],
                  hook |-> [hook EXCEPT ![i] = Nowhere], net |-> unregistered.net,
                  linked |-> unregistered.linked,
                  parent |-> [b \in Bearers |-> IF b \in all THEN Nowhere ELSE parent[b]]]
  <2>1. released = [free EXCEPT !.outer[i] = IF outer[i] = v THEN Nowhere ELSE outer[i], !.hook[i] = Nowhere]
    BY <1>3
  <2> DEFINE parents == [b \in Bearers |-> IF b \in all THEN Nowhere ELSE parent[b]]
             n == unregistered.net
             l == unregistered.linked
             f == gone.lies
  <2> HIDE DEF released, parents, n, l, f
  <2>2. free = [lies |-> f, outer |-> outer, hook |-> hook, net |-> n, linked |-> l, parent |-> parents]
    BY <1>6 DEF parents, n, l, f
  <2>3. released = [lies |-> f, outer |-> [outer EXCEPT ![i] = IF outer[i] = v THEN Nowhere ELSE outer[i]],
                    hook |-> [hook EXCEPT ![i] = Nowhere], net |-> n, linked |-> l, parent |-> parents]
    BY ONLY <2>1, <2>2
  <2> QED
    BY <2>3 DEF parents, n, l, f
<1> HIDE DEF released
<1>8. /\ lies' = [lies EXCEPT ![i] = Nowhere] /\ gone.lies = lies'
      /\ outer' = [outer EXCEPT ![i] = IF outer[i] = v THEN Nowhere ELSE outer[i]]
      /\ net' = IF actor = NoActor THEN net ELSE [net EXCEPT ![actor] = net[actor] \ all]
      /\ linked' = IF actor = NoActor THEN linked ELSE linked \ all
      /\ parent' = [b \in Bearers |-> IF b \in all THEN Nowhere ELSE parent[b]]
      /\ renames' = renames
  <2>1. BecomesNest(released)
    BY <1>2, <1>4
  <2>2. /\ lies' = released.lies /\ outer' = released.outer /\ net' = released.net
        /\ linked' = released.linked /\ parent' = released.parent /\ renames' = renames
    BY <2>1 DEF BecomesNest
  <2>3. gone.lies = [lies EXCEPT ![i] = Nowhere]
    BY <1>3
  <2>4. /\ released.lies = gone.lies /\ released.net = unregistered.net /\ released.linked = unregistered.linked
        /\ released.outer = [outer EXCEPT ![i] = IF outer[i] = v THEN Nowhere ELSE outer[i]]
        /\ released.parent = [b \in Bearers |-> IF b \in all THEN Nowhere ELSE parent[b]]
    BY <1>7
  <2> QED
    BY <1>5, <2>2, <2>3, <2>4
<1>9. /\ IsLies(lies') /\ Nest'.lies = lies' /\ Nest.lies = [Nest'.lies EXCEPT ![i] = v] /\ IsLies(Nest'.lies)
      /\ Nest'.lies[i] = Nowhere
  BY <1>1, <1>2, <1>8 DEF Nest, IsLies
<1>10. \A u : Inside(Nest, u)' = Inside(Nest', u)
  BY DEF Inside, WithNested, ContentOf
<1>11. all = WithNested(Nest', {i})
  BY <1>8, <1>9 DEF all, WithNested
<1>12. \A u \in Vessels : \A x :
        x \in Inside(Nest, u) <=> \/ x \in Inside(Nest', u)
                                  \/ (u = v \/ v \in Inside(Nest', u)) /\ x \in all
  BY <1>9, <1>11, PuttingIn
<1>13. /\ Roots \subseteq Vessels /\ Bearers \subseteq Vessels /\ Bearers \subseteq Nestables
       /\ Nowhere \notin Vessels /\ Roots \cap Nestables = {}
  BY NestedContainersAssumption DEF Vessels
<1>14. all \subseteq Nestables
  BY <1>9, <1>11, WithOne
<1>15. NoStorageInsideItself'
  BY <1>1, <1>10, <1>12, <1>13 DEF NoStorageInsideItself
<1>16. SlotsFit'
  BY <1>1, <1>8, <1>13 DEF SlotsFit, IsLies
<1>17. NestTypes'
  <2>1. IsLies(outer')
    BY <1>1, <1>8 DEF NestTypes, IsLies
  <2>2. net' \in [Actors -> SUBSET Nestables] /\ linked' \subseteq Bearers
    BY <1>1, <1>8 DEF NestTypes
  <2>3. parent' \in [Bearers -> Vessels \cup {Nowhere}]
    BY <1>1, <1>8 DEF NestTypes
  <2> QED
    BY <1>9, <2>1, <2>2, <2>3 DEF NestTypes, IsLies
<1>18. ASSUME renames PROVE RootsAnswer'
  <2>1. /\ outer = lies
        /\ \A a \in Actors : \A x \in Nestables : x \in net[a] <=> \E r \in Roots : HasRoot(x, r) /\ Actor[r] = a
        /\ \A b \in Bearers : b \in linked <=> \E r \in Roots : HasRoot(b, r) /\ Actor[r] # NoActor
        /\ \A b \in Bearers : parent[b] # Nowhere => b \in Inside(Nest, parent[b])
        /\ \A b \in Bearers : (\E r \in Roots : HasRoot(b, r)) => parent[b] # Nowhere
    BY <1>1, <1>18 DEF RootsAnswer
  <2>2. outer' = lies'
    BY <1>1, <1>2, <1>8, <2>1
  <2>3. \A r \in Roots : v = r \/ v \in Inside(Nest, r) => actor = Actor[r]
    <3>1. gone.outer = Nest.lies
      BY <1>1, <1>3, <2>1
    <3> QED
      BY <1>1, <3>1, ActorIsOfTheRoot DEF actor
  <2>4. \A r \in Roots : \A x \in all : x \notin Inside(Nest', r)
    BY <1>9, <1>11, NoRootAround
  <2>5. \A r \in Roots : \A x : HasRoot(x, r)' <=> HasRoot(x, r) /\ x \notin all
    <3>1. \A r \in Roots : \A x : HasRoot(x, r)' <=> x \in Inside(Nest', r)
      BY <1>10 DEF HasRoot
    <3>2. \A r \in Roots : \A x : HasRoot(x, r) <=> x \in Inside(Nest, r)
      BY DEF HasRoot
    <3> QED
      BY <1>12, <1>13, <2>4, <3>1, <3>2
  <2>6. \A r \in Roots : \A x \in all : HasRoot(x, r) => actor = Actor[r]
    <3>1. ASSUME NEW r \in Roots, NEW x \in all, HasRoot(x, r) PROVE actor = Actor[r]
      <4>1. x \in Inside(Nest, r) /\ x \notin Inside(Nest', r) /\ r \in Vessels
        BY <1>13, <2>4, <3>1 DEF HasRoot
      <4>2. r = v \/ v \in Inside(Nest', r)
        BY <1>12, <4>1
      <4>3. r = v \/ v \in Inside(Nest, r)
        BY <1>12, <4>1, <4>2
      <4> QED
        BY <2>3, <4>3
    <3> QED
      BY <3>1
  <2>7. ASSUME NEW a \in Actors, NEW x \in Nestables
        PROVE  x \in net'[a] <=> \E r \in Roots : HasRoot(x, r)' /\ Actor[r] = a
    <3>1. a # NoActor /\ a \in DOMAIN net
      BY <1>1 DEF Actors, NestTypes
    <3>2. x \in net'[a] <=> x \in net[a] /\ ~(actor = a /\ x \in all)
      BY <1>8, <3>1
    <3>3. x \in all /\ x \in net[a] => actor = a
      BY <2>1, <2>6
    <3> QED
      BY <2>1, <2>5, <3>2, <3>3
  <2>8. ASSUME NEW b \in Bearers
        PROVE  b \in linked' <=> \E r \in Roots : HasRoot(b, r)' /\ Actor[r] # NoActor
    <3>1. b \in linked' <=> b \in linked /\ ~(actor # NoActor /\ b \in all)
      BY <1>8
    <3>2. b \in all /\ b \in linked => actor # NoActor
      BY <2>1, <2>6
    <3> QED
      BY <2>1, <2>5, <3>1, <3>2
  <2>9. ASSUME NEW b \in Bearers, parent'[b] # Nowhere PROVE b \in Inside(Nest', parent'[b])
    <3>1. b \notin all /\ parent'[b] = parent[b] /\ parent[b] \in Vessels
      BY <1>1, <1>8, <2>9 DEF NestTypes
    <3>2. b \in Inside(Nest, parent[b])
      BY <2>1, <2>9, <3>1
    <3> QED
      BY <1>12, <3>1, <3>2
  <2>10. ASSUME NEW b \in Bearers, \E r \in Roots : HasRoot(b, r)' PROVE parent'[b] # Nowhere
    <3>1. b \notin all /\ \E r \in Roots : HasRoot(b, r)
      BY <2>5, <2>10
    <3> QED
      BY <1>8, <2>1, <3>1
  <2> QED
    BY <1>10, <2>2, <2>7, <2>8, <2>9, <2>10 DEF RootsAnswer
<1> QED
  BY <1>8, <1>15, <1>16, <1>17, <1>18 DEF NestInv

LEMMA NestInvStep == TemplatesDescend(Nat) /\ NestInv /\ [NestNext]_nestVars => NestInv'
<1> SUFFICES ASSUME TemplatesDescend(Nat), NestInv, [NestNext]_nestVars PROVE NestInv'
  OBVIOUS
<1>1. CASE \E v \in Vessels, i \in Nestables : PutInto(v, i)
  BY <1>1, PutIntoKeeps
<1>2. CASE \E v \in Vessels, i \in Nestables : TakeOutOf(v, i)
  BY <1>2, TakeOutOfKeeps
<1>3. CASE UNCHANGED nestVars
  <2>1. lies' = lies /\ outer' = outer /\ net' = net /\ linked' = linked /\ parent' = parent /\ renames' = renames
        /\ Nest' = Nest
    BY <1>3 DEF nestVars, Nest
  <2>2. \A u : Inside(Nest, u)' = Inside(Nest, u)
    BY <2>1 DEF Inside, WithNested, ContentOf
  <2>3. \A x, r : HasRoot(x, r)' <=> HasRoot(x, r)
    BY <2>2 DEF HasRoot
  <2>4. NestTypes' /\ SlotsFit'
    BY <2>1 DEF NestInv, NestTypes, SlotsFit, IsLies
  <2>5. NoStorageInsideItself'
    BY <2>2 DEF NestInv, NoStorageInsideItself
  <2>6. RootsAnswer => RootsAnswer'
    BY <2>1, <2>2, <2>3 DEF RootsAnswer
  <2> QED
    BY <2>1, <2>4, <2>5, <2>6 DEF NestInv
<1> QED
  BY <1>1, <1>2, <1>3 DEF NestNext

-----------------------------------------------------------------------------
(* Paths.  A chain leads from a root in; there is one to each container in   *)
(* the root, it comes to none twice, and it is the path out turned around.   *)

IsChain(p) ==
    /\ p \in Seq(Vessels) /\ p # <<>>
    /\ p[1] \in Roots
    /\ \A k \in 2..Len(p) : p[k] \in Bearers /\ lies[p[k]] = p[k - 1]

\* Each vessel of a chain lies in those before it.
LEMMA ChainDescends ==
    ASSUME NestInv, NEW p, IsChain(p), NEW j \in 1..Len(p), NEW k \in 1..Len(p), j < k
    PROVE  p[k] \in Inside(Nest, p[j])
<1>1. Len(p) \in Nat /\ j \in Nat /\ k \in Nat /\ Nest.lies = lies /\ IsLies(Nest.lies)
      /\ \A n \in 1..Len(p) : p[n] \in Vessels
  BY DEF IsChain, NestInv, NestTypes, Nest
<1> DEFINE T == {n \in Nat : j < n /\ n <= Len(p) /\ p[n] \notin Inside(Nest, p[j])}
<1>2. ASSUME T # {} PROVE FALSE
  <2>1. PICK n \in T : \A m \in T : n <= m
    <3>1. T \in SUBSET Nat
      OBVIOUS
    <3> HIDE DEF T
    <3> QED
      BY <1>2, <3>1, LeastNatural
  <2>2. n \in Nat /\ j < n /\ n <= Len(p) /\ p[n] \notin Inside(Nest, p[j])
    BY <2>1
  <2>3. n \in 2..Len(p) /\ j <= n - 1 /\ n - 1 \in 1..Len(p) /\ n - 1 \in Nat
    BY <1>1, <2>2
  <2>4. p[n] \in Bearers /\ lies[p[n]] = p[n - 1] /\ p[n] \in Nestables
    BY <2>3, NestedContainersAssumption DEF IsChain
  <2>5. p[n] \in Inside(Nest, p[j]) <=> p[n - 1] = p[j] \/ p[n - 1] \in Inside(Nest, p[j])
    BY <1>1, <2>4, InsideIs
  <2>6. n - 1 \notin T
    BY <2>1, <2>3
  <2>7. j < n - 1 => p[n - 1] \in Inside(Nest, p[j])
    BY <2>2, <2>3, <2>6
  <2>8. j = n - 1 => p[n - 1] = p[j]
    OBVIOUS
  <2>9. j < n - 1 \/ j = n - 1
    BY <1>1, <2>3
  <2> QED
    BY <2>2, <2>5, <2>7, <2>8, <2>9
<1>3. k \notin T
  BY <1>2
<1> QED
  BY <1>1, <1>3

LEMMA ChainIsInjective ==
    ASSUME NestInv, NEW p, IsChain(p), NEW j \in 1..Len(p), NEW k \in 1..Len(p), p[j] = p[k]
    PROVE  j = k
<1>1. \A m, n \in 1..Len(p) : m < n => p[m] # p[n]
  <2>1. ASSUME NEW m \in 1..Len(p), NEW n \in 1..Len(p), m < n, p[m] = p[n] PROVE FALSE
    <3>1. p[n] \in Inside(Nest, p[n])
      BY <2>1, ChainDescends
    <3>2. p[n] \in Bearers
      BY <2>1 DEF IsChain
    <3> QED
      BY <3>1, <3>2 DEF NestInv, NoStorageInsideItself
  <2> QED
    BY <2>1
<1> QED
  BY <1>1

\* A chain through some vessels is no longer than they are many.
LEMMA ChainIsShort ==
    ASSUME NestInv, NEW p, IsChain(p), NEW S, IsFiniteSet(S), \A k \in 1..Len(p) : p[k] \in S
    PROVE  Len(p) \in 1..Cardinality(S)
<1> DEFINE n == Len(p)
           f == [k \in 1..n |-> p[k]]
<1>1. n \in Nat /\ n >= 1
  BY DEF IsChain
<1>2. IsFiniteSet(1..n) /\ Cardinality(1..n) = n
  BY <1>1, FS_Interval
<1>3. f \in Injection(1..n, S)
  <2>1. f \in [1..n -> S]
    OBVIOUS
  <2>2. \A j, k \in 1..n : f[j] = f[k] => j = k
    BY ChainIsInjective
  <2> HIDE DEF f, n
  <2> QED
    BY <2>1, <2>2 DEF Injection, IsInjective
<1>4. Cardinality(1..n) <= Cardinality(S)
  <2> HIDE DEF f, n
  <2> QED
    BY <1>3, FS_Injection
<1>5. Cardinality(S) \in Nat
  BY FS_CardinalityType
<1> QED
  BY <1>1, <1>2, <1>4, <1>5

LEMMA ChainTo ==
    ASSUME NestInv, NEW r \in Roots, NEW v \in {r} \cup (Inside(Nest, r) \cap Bearers)
    PROVE  \E p : IsChain(p) /\ p[1] = r /\ p[Len(p)] = v
<1>1. Nest.lies = lies /\ IsLies(Nest.lies) /\ r \in Vessels /\ Bearers \subseteq Vessels
      /\ Roots \cap Nestables = {}
  BY NestedContainersAssumption DEF NestInv, NestTypes, Nest, Vessels
<1> DEFINE Led(x) == \E p : IsChain(p) /\ p[1] = r /\ p[Len(p)] = x
           S == {x \in Nestables : x \in Bearers => Led(x)}
<1>2. Led(r)
  <2>1. <<r>> \in Seq(Vessels) /\ <<r>> # <<>> /\ Len(<<r>>) = 1 /\ <<r>>[1] = r
    BY <1>1
  <2>2. IsChain(<<r>>)
    BY <2>1 DEF IsChain
  <2> QED
    BY <2>1, <2>2
<1>3. ASSUME NEW x \in Bearers, NEW y, lies[x] = y, Led(y) PROVE Led(x)
  <2>1. PICK p : IsChain(p) /\ p[1] = r /\ p[Len(p)] = y
    BY <1>3
  <2> DEFINE q == Append(p, x)
             n == Len(p)
  <2>2. p \in Seq(Vessels) /\ n \in Nat /\ n >= 1 /\ x \in Vessels
    BY <1>1, <2>1 DEF IsChain
  <2>3. q \in Seq(Vessels) /\ Len(q) = n + 1 /\ q[n + 1] = x /\ \A k \in 1..n : q[k] = p[k]
    BY <2>2
  <2> HIDE DEF q
  <2>4. ASSUME NEW k \in 2..Len(q) PROVE q[k] \in Bearers /\ lies[q[k]] = q[k - 1]
    <3>1. CASE k = n + 1
      <4>1. q[k - 1] = y
        BY <2>1, <2>2, <2>3, <3>1
      <4> QED
        BY <1>3, <2>3, <3>1, <4>1
    <3>2. CASE k # n + 1
      <4>1. k \in 2..n /\ k \in 1..n /\ k - 1 \in 1..n
        BY <2>2, <2>3, <3>2
      <4> QED
        BY <2>1, <2>3, <4>1 DEF IsChain
    <3> QED
      BY <3>1, <3>2
  <2>5. q # <<>> /\ q[1] = r
    BY <2>1, <2>2, <2>3
  <2>6. IsChain(q)
    BY <2>3, <2>4, <2>5 DEF IsChain
  <2> QED
    BY <2>3, <2>5, <2>6
<1> HIDE DEF Led
<1>4. \A x \in Nestables : lies[x] = r => x \in S
  BY <1>2, <1>3
<1>5. ASSUME NEW x \in Nestables, lies[x] \in S PROVE x \in S
  <2>1. lies[x] \in Bearers
    <3>1. lies[x] \in Vessels \cup {Nowhere} /\ lies[x] \in Nestables
      BY <1>1, <1>5 DEF IsLies
    <3> QED
      BY <3>1, NestedContainersAssumption DEF Vessels
  <2> QED
    BY <1>3, <1>5, <2>1
<1>6. Inside(Nest, r) \subseteq S
  <2>1. Closed(Nest, S) /\ S \in SUBSET Nestables
    BY <1>1, <1>5 DEF Closed
  <2> HIDE DEF S
  <2> QED
    BY <1>1, <1>4, <2>1, InsideIs
<1> QED
  BY <1>2, <1>6 DEF Led

\* What BuildParentPath looks for.
IsOutPath(q, v) ==
    /\ q \in SequencesOver(Along(Outward(Nest), v))
    /\ q[1] = v
    /\ \A k \in 2..Len(q) : q[k] = Outward(Nest)[q[k - 1]]
    /\ Outward(Nest)[q[Len(q)]] = Nowhere

\* The steps of a walk out.
LEMMA OutwardIs ==
    ASSUME NestInv, renames
    PROVE  /\ \A u \in Vessels : Outward(Nest)[u] = IF u \in Roots THEN Nowhere ELSE lies[u]
           /\ \A u \in Vessels : Outward(Nest)[u] \in Vessels \cup {Nowhere}
<1>1. IsLies(lies) /\ outer = lies /\ Nest.outer = outer
  BY DEF NestInv, NestTypes, RootsAnswer, Nest
<1>2. \A u \in Vessels : u \notin Roots => u \in Nestables
  BY NestedContainersAssumption DEF Vessels
<1> QED
  BY <1>1, <1>2 DEF Outward, IsLies

LEMMA VesselsAreFinite ==
    ASSUME NEW S, S \subseteq Vessels PROVE IsFiniteSet(S)
<1>1. IsFiniteSet(Roots \cup Nestables)
  BY NestedContainersAssumption, FS_Union
<1>2. S \subseteq Roots \cup Nestables
  BY NestedContainersAssumption DEF Vessels
<1> QED
  BY <1>1, <1>2, FS_Subset

\* A list is over a set when it lists members of it and is no longer than they are many.
LEMMA SequencesOverAre ==
    ASSUME NEW S, IsFiniteSet(S), NEW p
    PROVE  p \in SequencesOver(S) <=> \E n \in 1..Cardinality(S) : p \in [1..n -> S]
  BY DEF SequencesOver

LEMMA OutPathIs ==
    ASSUME NEW S, NEW n \in Nat, NEW p \in [1..n -> S]
    PROVE  Len(p) = n /\ DOMAIN p = 1..n /\ p \in Seq(S)
  OBVIOUS

LEMMA ChainTurned ==
    ASSUME NestInv, renames, NEW p, IsChain(p)
    PROVE  IsOutPath(Turned(p), p[Len(p)])
<1> DEFINE n == Len(p)
           q == Turned(p)
           v == p[n]
           next == Outward(Nest)
           all == Along(next, v)
<1>1. /\ n \in Nat /\ n >= 1 /\ DOMAIN p = 1..n /\ p[1] \in Roots
      /\ \A k \in 1..n : p[k] \in Vessels
      /\ \A k \in 2..n : p[k] \in Bearers /\ lies[p[k]] = p[k - 1]
  BY DEF IsChain
<1>2. q = [k \in 1..n |-> p[n + 1 - k]]
  BY <1>1 DEF Turned
<1>3. v \in Vessels /\ Nowhere \notin Vessels /\ \A u \in Bearers : u \in Vessels /\ u \notin Roots
  BY <1>1, NestedContainersAssumption DEF Vessels
<1>4. /\ \A u \in Vessels : next[u] = IF u \in Roots THEN Nowhere ELSE lies[u]
      /\ \A u \in Vessels : next[u] \in Vessels \cup {Nowhere}
  BY OutwardIs
<1> HIDE DEF next, q, n
<1>5. /\ v \in all /\ all \subseteq Vessels
      /\ \A u \in all : next[u] # Nowhere => next[u] \in all
  BY <1>3, <1>4, AlongIs
<1>6. \A k \in 1..n : q[k] = p[n + 1 - k] /\ n + 1 - k \in 1..n
  BY <1>1, <1>2
<1>7. ASSUME NEW k \in 2..n PROVE q[k] = next[q[k - 1]] /\ q[k] # Nowhere
  <2>1. k - 1 \in 1..n /\ k \in 1..n /\ n + 1 - k \in 1..n /\ n + 1 - (k - 1) = n + 2 - k
        /\ n + 2 - k \in 2..n /\ (n + 2 - k) - 1 = n + 1 - k
    BY <1>1
  <2>2. q[k] = p[n + 1 - k] /\ q[k - 1] = p[n + 2 - k]
    BY <1>6, <2>1
  <2>3. p[n + 2 - k] \in Bearers /\ lies[p[n + 2 - k]] = p[n + 1 - k]
    BY <1>1, <2>1
  <2> QED
    BY <1>1, <1>3, <1>4, <2>1, <2>2, <2>3
<1>8. q[1] = v /\ q[n] = p[1]
  <2>1. 1 \in 1..n /\ n \in 1..n /\ n + 1 - 1 = n /\ n + 1 - n = 1
    BY <1>1
  <2> QED
    BY <1>6, <2>1
<1>9. \A k \in 1..n : q[k] \in all
  <2> DEFINE T == {k \in Nat : k \in 1..n /\ q[k] \notin all}
  <2>1. ASSUME T # {} PROVE FALSE
    <3>1. PICK k \in T : \A m \in T : k <= m
      <4>1. T \in SUBSET Nat
        OBVIOUS
      <4> HIDE DEF T
      <4> QED
        BY <2>1, <4>1, LeastNatural
    <3>2. k \in 1..n /\ q[k] \notin all /\ k # 1
      BY <1>5, <1>8, <3>1
    <3>3. k \in 2..n /\ k - 1 \in 1..n /\ k - 1 \in Nat /\ ~(k <= k - 1)
      BY <1>1, <3>2
    <3>4. q[k - 1] \in all
      BY <3>1, <3>3
    <3>5. q[k] = next[q[k - 1]] /\ q[k] # Nowhere
      BY <1>7, <3>3
    <3> QED
      BY <1>5, <3>2, <3>4, <3>5
  <2> QED
    BY <1>1, <2>1
<1>10. q \in [1..n -> all]
  BY <1>2, <1>6, <1>9
<1>11. n \in 1..Cardinality(all)
  <2>1. IsFiniteSet(all)
    BY <1>5, VesselsAreFinite
  <2>2. ASSUME NEW k \in 1..n PROVE p[k] \in all
    <3>1. n + 1 - k \in 1..n /\ n + 1 - (n + 1 - k) = k
      BY <1>1
    <3>2. q[n + 1 - k] = p[k]
      BY <1>6, <3>1
    <3> QED
      BY <1>9, <3>1, <3>2
  <2> HIDE DEF all
  <2> QED
    BY <2>1, <2>2, ChainIsShort DEF n
<1>12. q \in SequencesOver(all)
  BY <1>10, <1>11 DEF SequencesOver
<1>13. Len(q) = n
  BY <1>1, <1>10
<1>14. next[q[n]] = Nowhere
  BY <1>1, <1>4, <1>8
<1>15. IsOutPath(q, v)
  BY <1>7, <1>8, <1>12, <1>13, <1>14 DEF IsOutPath, next
<1> QED
  BY <1>15 DEF q, n

\* A walk out can go one way only.
LEMMA OutPathIsOne ==
    ASSUME NestInv, renames, NEW v \in Vessels, NEW q, IsOutPath(q, v), NEW s, IsOutPath(s, v)
    PROVE  q = s
<1> DEFINE next == Outward(Nest)
           all == Along(next, v)
<1>1. \A u \in Vessels : next[u] \in Vessels \cup {Nowhere}
  BY OutwardIs
<1>2. all \subseteq Vessels /\ Nowhere \notin Vessels
  BY <1>1, AlongIs, NestedContainersAssumption DEF Vessels
<1>3. IsFiniteSet(all) /\ Cardinality(all) \in Nat
  BY <1>2, VesselsAreFinite, FS_CardinalityType
<1>4. PICK n \in 1..Cardinality(all) : q \in [1..n -> all]
  BY <1>3, SequencesOverAre DEF IsOutPath
<1>5. PICK m \in 1..Cardinality(all) : s \in [1..m -> all]
  BY <1>3, SequencesOverAre DEF IsOutPath
<1>6. n \in Nat /\ n >= 1 /\ m \in Nat /\ m >= 1 /\ Len(q) = n /\ Len(s) = m
  BY <1>3, <1>4, <1>5
<1>7. /\ q[1] = v /\ next[q[n]] = Nowhere /\ \A k \in 2..n : q[k] = next[q[k - 1]]
      /\ s[1] = v /\ next[s[m]] = Nowhere /\ \A k \in 2..m : s[k] = next[s[k - 1]]
  BY <1>6 DEF IsOutPath
<1>8. (\A k \in 1..n : q[k] # Nowhere) /\ (\A k \in 1..m : s[k] # Nowhere)
  BY <1>2, <1>4, <1>5
<1> HIDE DEF next, all
<1>9. \A k \in 1..n : k <= m => q[k] = s[k]
  <2> DEFINE T == {k \in Nat : k \in 1..n /\ k <= m /\ q[k] # s[k]}
  <2>1. ASSUME T # {} PROVE FALSE
    <3>1. PICK k \in T : \A j \in T : k <= j
      <4>1. T \in SUBSET Nat
        OBVIOUS
      <4> HIDE DEF T
      <4> QED
        BY <2>1, <4>1, LeastNatural
    <3>2. k \in 1..n /\ k <= m /\ q[k] # s[k] /\ k # 1
      BY <1>7, <3>1
    <3>3. k \in 2..n /\ k \in 2..m /\ k - 1 \in 1..n /\ k - 1 \in Nat /\ k - 1 <= m /\ ~(k <= k - 1)
      BY <1>6, <3>2
    <3>4. q[k - 1] = s[k - 1]
      BY <3>1, <3>3
    <3> QED
      BY <1>7, <3>2, <3>3, <3>4
  <2> QED
    BY <1>6, <2>1
<1>10. ASSUME m < n PROVE FALSE
  <2>1. m + 1 \in 2..n /\ m \in 1..n /\ m <= m /\ (m + 1) - 1 = m /\ m + 1 \in 1..n
    BY <1>6, <1>10
  <2>2. q[m + 1] = next[q[m]] /\ q[m] = s[m]
    BY <1>7, <1>9, <2>1
  <2> QED
    BY <1>7, <1>8, <2>1, <2>2
<1>11. ASSUME n < m PROVE FALSE
  <2>1. n + 1 \in 2..m /\ n \in 1..n /\ n <= m /\ (n + 1) - 1 = n /\ n + 1 \in 1..m
    BY <1>6, <1>11
  <2>2. s[n + 1] = next[s[n]] /\ q[n] = s[n]
    BY <1>7, <1>9, <2>1
  <2> QED
    BY <1>7, <1>8, <2>1, <2>2
<1>12. m = n
  BY <1>6, <1>10, <1>11
<1>13. \A k \in 1..n : q[k] = s[k]
  BY <1>6, <1>9, <1>12
<1> QED
  BY <1>4, <1>5, <1>12, <1>13

LEMMA ChainIsPath ==
    ASSUME NestInv, renames, NEW p, IsChain(p)
    PROVE  /\ p \in BuildPaths(p[1])
           /\ p[Len(p)] \in {p[1]} \cup (Inside(Nest, p[1]) \cap Bearers)
           /\ Turned(BuildParentPath(p[Len(p)])) = p
<1> DEFINE n == Len(p)
           r == p[1]
           v == p[n]
           S == {r} \cup (Inside(Nest, r) \cap Bearers)
<1>1. /\ n \in Nat /\ n >= 1 /\ DOMAIN p = 1..n /\ p \in Seq(Vessels) /\ r \in Roots
      /\ \A k \in 1..n : p[k] \in Vessels
      /\ \A k \in 2..n : p[k] \in Bearers /\ lies[p[k]] = p[k - 1]
  BY DEF IsChain
<1>2. /\ Nest.lies = lies /\ IsLies(lies) /\ Bearers \subseteq Nestables
      /\ Roots \subseteq Vessels /\ Bearers \subseteq Vessels
  BY NestedContainersAssumption DEF NestInv, NestTypes, Nest, Vessels
<1>3. \A k \in 1..n : p[k] \in S
  <2>1. ASSUME NEW k \in 1..n, k # 1 PROVE p[k] \in Inside(Nest, r) /\ p[k] \in Bearers
    <3>1. 1 \in 1..n /\ 1 < k /\ k \in 2..n
      BY <1>1, <2>1
    <3> QED
      BY <1>1, <3>1, ChainDescends
  <2> QED
    BY <2>1
<1>4. IsFiniteSet(S)
  BY <1>1, <1>2, VesselsAreFinite
<1>5. n \in 1..Cardinality(S)
  <2> HIDE DEF S
  <2> QED
    BY <1>3, <1>4, ChainIsShort
<1>6. p \in [1..n -> S]
  BY <1>1, <1>3
<1>7. p \in SequencesOver(S)
  BY <1>5, <1>6 DEF SequencesOver
<1>8. \A k \in 2..n : p[k] \in ContentOf(Nest, p[k - 1])
  BY <1>1, <1>2 DEF ContentOf, IsLies
<1>9. p \in BuildPaths(r)
  BY <1>7, <1>8 DEF BuildPaths
<1>10. BuildParentPath(v) = Turned(p)
  <2>1. v \in Vessels
    BY <1>1
  <2>2. IsOutPath(Turned(p), v)
    BY ChainTurned
  <2>3. BuildParentPath(v) = CHOOSE q \in SequencesOver(Along(Outward(Nest), v)) : IsOutPath(q, v)
    BY DEF BuildParentPath, IsOutPath
  <2>4. Turned(p) \in SequencesOver(Along(Outward(Nest), v))
    BY <2>2 DEF IsOutPath
  <2>5. IsOutPath(BuildParentPath(v), v)
    BY <2>2, <2>3, <2>4
  <2> QED
    BY <2>1, <2>2, <2>5, OutPathIsOne
<1>11. Turned(Turned(p)) = p
  <2>1. Turned(p) = [k \in 1..n |-> p[n + 1 - k]]
    BY <1>1 DEF Turned
  <2> DEFINE q == Turned(p)
  <2>2. DOMAIN q = 1..n /\ \A k \in 1..n : q[k] = p[n + 1 - k] /\ n + 1 - k \in 1..n
    BY <1>1, <2>1
  <2>3. q \in [1..n -> S]
    BY <1>1, <1>3, <2>1, <2>2
  <2>4. Len(q) = n
    BY <1>1, <2>3
  <2> HIDE DEF q, S, n
  <2>5. Turned(q) = [k \in 1..n |-> q[n + 1 - k]]
    BY <2>2, <2>4 DEF Turned
  <2>6. \A k \in 1..n : q[n + 1 - k] = p[k]
    <3>1. \A k \in 1..n : n + 1 - k \in 1..n /\ n + 1 - (n + 1 - k) = k
      BY <1>1
    <3> QED
      BY <2>2, <3>1
  <2>7. [k \in 1..n |-> q[n + 1 - k]] = [k \in 1..n |-> p[k]]
    BY <2>6
  <2>8. p = [k \in 1..n |-> p[k]]
    BY <1>6
  <2> QED
    BY <2>5, <2>7, <2>8 DEF q
<1>12. v \in S
  BY <1>1, <1>3
<1> QED
  BY <1>9, <1>10, <1>11, <1>12

LEMMA NestInvGivesPaths == NestInv => PathsAgree
<1> SUFFICES ASSUME NestInv, renames, NEW r \in Roots
             PROVE  BuildPaths(r) = { Turned(BuildParentPath(v)) : v \in {r} \cup (Inside(Nest, r) \cap Bearers) }
  BY DEF PathsAgree
<1> DEFINE S == {r} \cup (Inside(Nest, r) \cap Bearers)
           paths == BuildPaths(r)
<1>1. /\ IsLies(Nest.lies) /\ Nest.lies = lies /\ r \in Vessels /\ Bearers \subseteq Vessels /\ Roots \cap Bearers = {}
  BY NestedContainersAssumption DEF NestInv, NestTypes, Nest, Vessels
<1>2. ASSUME NEW p \in paths PROVE IsChain(p) /\ p[1] = r
  <2>1. p \in SequencesOver(S) /\ p[1] = r /\ \A k \in 2..Len(p) : p[k] \in ContentOf(Nest, p[k - 1])
    BY <1>2 DEF BuildPaths
  <2>2. IsFiniteSet(S)
    BY <1>1, VesselsAreFinite
  <2>3. PICK n \in 1..Cardinality(S) : p \in [1..n -> S]
    <3> HIDE DEF S
    <3> QED
      BY <2>1, <2>2, SequencesOverAre
  <2>4. n \in Nat /\ n >= 1
    BY <2>2, FS_CardinalityType
  <2>5. p \in [1..n -> Vessels]
    BY <1>1, <2>3
  <2>6. Len(p) = n /\ p \in Seq(Vessels) /\ p # <<>>
    <3> HIDE DEF S
    <3> QED
      BY <2>4, <2>5
  <2>7. ASSUME NEW k \in 2..Len(p) PROVE p[k] \in Bearers /\ lies[p[k]] = p[k - 1]
    <3>1. p[k] \in DOMAIN lies /\ lies[p[k]] = p[k - 1]
      BY <1>1, <2>1, <2>7 DEF ContentOf
    <3>2. p[k] \in Nestables /\ p[k] \in Vessels
      BY <1>1, <2>4, <2>5, <2>6, <2>7, <3>1 DEF IsLies
    <3>3. p[k] \in Bearers
      BY <3>2, NestedContainersAssumption DEF Vessels
    <3> QED
      BY <3>1, <3>3
  <2> QED
    BY <2>1, <2>6, <2>7 DEF IsChain
<1>3. \A p \in paths : p[Len(p)] \in S /\ Turned(BuildParentPath(p[Len(p)])) = p
  BY <1>2, ChainIsPath
<1>4. ASSUME NEW v \in S PROVE Turned(BuildParentPath(v)) \in paths
  <2>1. PICK p : IsChain(p) /\ p[1] = r /\ p[Len(p)] = v
    BY <1>4, ChainTo
  <2>2. p \in paths /\ Turned(BuildParentPath(v)) = p
    BY <2>1, ChainIsPath
  <2> QED
    BY <2>2
<1> HIDE DEF S, paths
<1>5. paths = { Turned(BuildParentPath(v)) : v \in S }
  BY <1>3, <1>4
<1> QED
  BY <1>5 DEF S, paths

\* Whatever is put into whatever, by whoever holds an item, containers and items form a
\* tree under each root: no storage comes to lie in its own item, the paths from the root
\* in and from a container out agree (FFaerieItemContainerPath), and each root answers for
\* all that is in its tree (TakeOwnership, ReleaseOwnership, SetParentGroup).  For any
\* roots, items, containers and templates, where the templates of slots descend.
THEOREM NestingStaysATree ==
    ASSUME TemplatesDescend(Nat)
    PROVE  NestSpec => []NestingIsATree
<1>1. NestInv => NestingIsATree
  BY NestInvGivesRoots, NestInvGivesPaths DEF NestingIsATree, NestInv
<1>2. NestInv /\ [NestNext]_nestVars => NestInv'
  BY NestInvStep
<1> QED
  BY <1>1, <1>2, NestInvInit, PTL DEF NestSpec
=============================================================================
