----------------------- MODULE EntryReplication_proofs -----------------------
(***************************************************************************)
(* Theorems about EntryReplication: however entries come, change and go on  *)
(* the server, and whichever updates are lost, the client comes to hold     *)
(* what the server serves (ClientsFollowServer), for any number of entries, *)
(* updates under way and losses.                                            *)
(*                                                                         *)
(* The argument is about the states that an update may be made from: those  *)
(* of the updates that are not answered for yet, in the order they were     *)
(* sent, and the one of the next update.  Of each that the client has had   *)
(* all updates before (Reached), the client covers what it tells            *)
(* (ClientCovers): it has every entry that did not change since, and an     *)
(* element that came before is one the state knows, so that the next update *)
(* names it if it is gone.                                                  *)
(*                                                                         *)
(* Then about ContainerSaves, the data that extensions keep about stacks:   *)
(* it stays on its item, and a load restores it (TagsStayOnTheirItem,       *)
(* LoadRestoresData), for any items, tags, keys and edits.  The argument is *)
(* that arrays are of extensions that are reached, so that removals clean   *)
(* them all, and that a save has under the name of an extension of Root     *)
(* what that extension had about Root.                                      *)
(*                                                                         *)
(* Then about EquipmentManager: the slots of a manager, and of a save, are  *)
(* of different IDs (SlotsStayOwn), so that the ID of a slot names the one  *)
(* it is, and a load restores every slot that was saved and fills no other  *)
(* (LoadsRestoreSlots), for any default slots, IDs, equipment and saves.    *)
(* The argument is by the loop over the save: what it did for the slots so  *)
(* far stays as it comes to the next (Restored).                            *)
(*                                                                         *)
(* Then about FilterIterators: a walk emits what the calls that made its    *)
(* filter asked for (EmitsWhatWasAsked), for any lists, classes, predicates *)
(* and number of calls.  The argument is by what the filter has of its      *)
(* calls (Says): the last mutability named, the lowest class, whether the   *)
(* inversions are odd.                                                      *)
(***************************************************************************)
EXTENDS EntryReplication, ContainerSaves, EquipmentManager, FilterIterators, FiniteSetTheorems, WellFoundedInduction, TLAPS

-----------------------------------------------------------------------------
(* Types.                                                                   *)

PartialOf(S) == UNION {[D -> S] : D \in SUBSET Nat}

Contents == [key : Nat, stacks : SomeStacks]
ServedEntries == [key : Nat, stacks : SomeStacks, rep : Nat]
States == [array : Int, reps : PartialOf(Nat)]
Updates == [array : Nat, base : Nat, deleted : SUBSET Nat, changed : PartialOf(Contents)]
Elements == [id : Nat, key : Nat, stacks : SomeStacks, recent : Nat, mapped : BOOLEAN]
Told == {"absent", "untold", "created", "current"}

Typed ==
    /\ served \in PartialOf(ServedEntries)
    /\ arrayKey \in Nat /\ lastKey \in Nat /\ lastID \in Nat /\ losses \in Nat
    /\ base \in States /\ retired \in Seq(States)
    /\ flight \in Seq(Updates) /\ answers \in Seq(BOOLEAN)
    /\ received \in Seq(Elements)
    /\ proxies \in [Proxied -> Told]

-----------------------------------------------------------------------------
(* The inductive invariant.                                                 *)

\* The states an update may be made from: first those of the updates that are
\* not answered for, in order, then the next one's.
Bases == [i \in 1 .. Len(retired) + 1 |-> IF i <= Len(retired) THEN retired[i] ELSE base]

\* The client has had every update before the i-th, of those that still count.
Reached(i) == \A j \in 1 .. i - 1 : retired[j] = Stale \/ (j <= Len(answers) /\ answers[j])

Numbered ==
    /\ lastKey = lastID
    /\ Len(retired) = Len(answers) + Len(flight)
    /\ \A id \in DOMAIN served :
         id \in 1 .. lastID /\ served[id].key = id /\ served[id].rep \in 1 .. arrayKey

BasesGoUp ==
    /\ base # Stale
    /\ \A i \in DOMAIN Bases : Bases[i] # Stale => Bases[i].array \in 0 .. arrayKey
    /\ \A j \in DOMAIN Bases : \A i \in 1 .. j - 1 :
         Bases[i] # Stale => Bases[i].array < Bases[j].array

\* What a state says of the entries there are.
Tells(b) ==
    /\ \A id \in DOMAIN b.reps : id \in 1 .. lastID /\ b.reps[id] <= b.array
    /\ \A id \in DOMAIN served : served[id].rep <= b.array =>
         id \in DOMAIN b.reps /\ b.reps[id] = served[id].rep
    /\ b.array = arrayKey => DOMAIN b.reps \subseteq DOMAIN served
BasesTell == \A i \in DOMAIN Bases : Tells(Bases[i])

\* What an update under way says of the entries there are.
SoundUpdate(u) ==
    /\ u.base < u.array /\ u.array <= arrayKey
    /\ \A id \in DOMAIN u.changed : id \in 1 .. lastID /\ u.changed[id].key = id
    /\ \A id \in DOMAIN u.changed \cap DOMAIN served :
         /\ u.base < served[id].rep
         /\ served[id].rep <= u.array => u.changed[id].stacks = served[id].stacks
    /\ u.deleted \subseteq 1 .. lastID
    /\ u.deleted \cap DOMAIN served = {}
    /\ u.deleted \cap DOMAIN u.changed = {}
    /\ u.array = arrayKey => DOMAIN u.changed \subseteq DOMAIN served
FlightSound ==
    /\ \A n \in DOMAIN flight : SoundUpdate(flight[n])
    /\ \A n \in DOMAIN flight : \A m \in 1 .. n - 1 : flight[m].array <= flight[n].array

\* An update takes a client from one state to the next.
Leads(b, u, c) ==
    /\ u.base = b.array /\ u.array = c.array
    /\ \A id \in DOMAIN c.reps \ DOMAIN u.changed : id \in DOMAIN b.reps /\ b.reps[id] = c.reps[id]
    /\ DOMAIN b.reps \ u.deleted \subseteq DOMAIN c.reps
FlightLeads ==
    \A n \in DOMAIN flight : \A i \in DOMAIN Bases :
        (i = Len(answers) + n /\ Bases[i] # Stale) => Leads(Bases[i], flight[n], Bases[i + 1])

\* No update under way, stale ones included, was made from a state before one
\* the client has reached.
BasesBehind ==
    \A i \in DOMAIN Bases : Reached(i) => \A n \in DOMAIN flight : Bases[i].array <= flight[n].base

\* There is one state at each replication key of the array.
SameState ==
    \A i \in DOMAIN Bases :
       /\ \A n \in DOMAIN flight :
            flight[n].array = Bases[i].array => DOMAIN flight[n].changed \subseteq DOMAIN Bases[i].reps
       /\ \A e \in Entries : e.recent = Bases[i].array => e.id \in DOMAIN Bases[i].reps

InOrder(row) == \A n \in DOMAIN row : \A m \in 1 .. n - 1 : row[m].key < row[n].key

SoundElement(e) ==
    /\ e.id \in 1 .. lastID /\ e.key = e.id
    /\ e.recent <= arrayKey
    /\ e.recent = arrayKey => e.id \in DOMAIN served
    /\ \A n \in DOMAIN flight : e.recent <= flight[n].array
ClientSound ==
    /\ \A e \in Entries : SoundElement(e)
    /\ InOrder(received)
    /\ itemMap \in {None, MapOf(received)}

\* What the state tells, the client has; and of what it has, nothing the state
\* does not know came before it.
Covers(b) ==
    /\ \A id \in DOMAIN served : served[id].rep <= b.array =>
          \E e \in Entries : e.id = id /\ e.stacks = served[id].stacks /\ e.recent <= b.array
    /\ \A e \in Entries : e.recent <= b.array => e.id \in DOMAIN b.reps
ClientCovers == \A i \in DOMAIN Bases : Reached(i) => Covers(Bases[i])

Follows ==
    /\ Typed /\ Numbered
    /\ BasesGoUp /\ BasesTell
    /\ FlightSound /\ FlightLeads /\ BasesBehind
    /\ SameState /\ ClientSound /\ ClientCovers
    /\ ProxiesHearOfStacks

-----------------------------------------------------------------------------
(* Operators.                                                               *)

\* A partial function on the naturals is a function, to S, on some of them.
LEMMA PartialIs ==
  ASSUME NEW S, NEW f \in PartialOf(S)
  PROVE  /\ DOMAIN f \subseteq Nat /\ f \in [DOMAIN f -> S]
         /\ \A x \in DOMAIN f : x \in Nat /\ f[x] \in S
BY DEF PartialOf

\* And each such function is one.
LEMMA PartialIf ==
  ASSUME NEW S, NEW D \in SUBSET Nat, NEW f \in [D -> S]
  PROVE  f \in PartialOf(S)
BY DEF PartialOf

\* The key of an address is its entry's.
LEMMA KeyOfAddress ==
  ASSUME NEW e, NEW a \in Addresses(e)
  PROVE  a[1] = e.key
BY DEF Addresses

\* What an increasing list holds is sorted out by its number of lesser ones:
\* SortedByKey (Algo::SortBy) gives every element once, lesser keys first.
LEMMA SortedIs ==
  ASSUME NEW S, NEW L \in Nat,
         \A e \in S : e.key \in 1 .. L,
         \A e, f \in S : e.key = f.key => e = f
  PROVE  /\ Cardinality(S) \in Nat
         /\ DOMAIN SortedByKey(S) = 1 .. Cardinality(S)
         /\ \A n \in 1 .. Cardinality(S) : SortedByKey(S)[n] \in S
         /\ \A e \in S : \E n \in 1 .. Cardinality(S) : SortedByKey(S)[n] = e
         /\ InOrder(SortedByKey(S))
<1> DEFINE keys == [e \in S |-> e.key]
           N == Cardinality(S)
           Below(e) == {x \in S : x.key < e.key}
           rank == [e \in S |-> Rank(S, e)]
           row == SortedByKey(S)
<1>1. IsFiniteSet(S) /\ N \in Nat
  <2>1. keys \in Injection(S, 1 .. L)
    BY DEF Injection, IsInjective
  <2>2. IsFiniteSet(1 .. L)
    BY FS_Interval
  <2> HIDE DEF keys
  <2> QED
    BY <2>1, <2>2, FS_Injection, FS_CardinalityType
<1>2. ASSUME NEW e \in S
      PROVE  /\ Rank(S, e) = Cardinality(Below(e)) /\ Rank(S, e) \in 0 .. N - 1
             /\ IsFiniteSet(Below(e))
  <2>1. Below(e) \in SUBSET S /\ e \notin Below(e) /\ ~(e.key < e.key)
    BY <1>2
  <2>2. IsFiniteSet(Below(e)) /\ Cardinality(Below(e)) <= N /\ Cardinality(Below(e)) # N
    BY <1>1, <2>1, FS_Subset
  <2>3. Cardinality(Below(e)) \in Nat
    BY <2>2, FS_CardinalityType
  <2>4. Rank(S, e) = Cardinality(Below(e))
    BY DEF Rank
  <2> HIDE DEF Below, N
  <2> QED
    BY <1>1, <2>2, <2>3, <2>4
<1>3. ASSUME NEW e \in S, NEW f \in S, e.key < f.key
      PROVE  Rank(S, e) < Rank(S, f)
  <2>1. Below(e) \in SUBSET Below(f) /\ e \in Below(f) /\ e \notin Below(e)
    BY <1>3
  <2>2. Cardinality(Below(e)) <= Cardinality(Below(f)) /\ Cardinality(Below(e)) # Cardinality(Below(f))
    BY <1>2, <2>1, FS_Subset
  <2> HIDE DEF Below, N
  <2> QED
    BY <1>1, <1>2, <2>2
<1>4. rank \in Injection(S, 0 .. N - 1)
  <2>1. rank \in [S -> 0 .. N - 1]
    BY <1>2
  <2>2. ASSUME NEW e \in S, NEW f \in S, rank[e] = rank[f] PROVE e = f
    <3>1. Rank(S, e) = Rank(S, f) /\ e.key \in Int /\ f.key \in Int
      BY <2>2
    <3>a. Rank(S, e) \in 0 .. N - 1
      BY <1>2
    <3>b. Rank(S, e) \in Int
      <4> HIDE DEF N
      <4> QED
        BY ONLY <3>a, <1>1
    <3>2. ~(e.key < f.key) /\ ~(f.key < e.key)
      BY <1>3, <3>1, <3>b
    <3> QED
      BY <3>1, <3>2
  <2> HIDE DEF rank
  <2> QED
    BY <2>1, <2>2 DEF Injection, IsInjective
<1>5. rank \in Surjection(S, 0 .. N - 1)
  <2>1. IsFiniteSet(0 .. N - 1) /\ Cardinality(0 .. N - 1) = N
    <3> HIDE DEF N
    <3>1. N \in Nat
      BY ONLY <1>1
    <3>2. N - 1 \in Int /\ ~(0 > N - 1 /\ N # 0) /\ (N - 1) - 0 + 1 = N /\ (0 > N - 1 <=> N = 0)
      BY ONLY <3>1
    <3>3. IsFiniteSet(0 .. N - 1) /\ Cardinality(0 .. N - 1) = IF 0 > N - 1 THEN 0 ELSE (N - 1) - 0 + 1
      BY ONLY <3>2, FS_Interval
    <3> QED
      BY ONLY <3>2, <3>3
  <2> HIDE DEF rank
  <2> QED
    BY <1>4, <2>1, FS_Injection
<1>6. ASSUME NEW n \in 1 .. N
      PROVE  row[n] \in S /\ Rank(S, row[n]) = n - 1
  <2>1. n - 1 \in 0 .. N - 1
    <3> HIDE DEF N
    <3> QED
      BY <1>1
  <2>2. \E e \in S : rank[e] = n - 1
    BY <1>5, <2>1 DEF Surjection
  <2>3. \E e \in S : Rank(S, e) = n - 1
    BY <2>2
  <2>4. row[n] = CHOOSE e \in S : Rank(S, e) = n - 1
    BY DEF SortedByKey
  <2> HIDE DEF row
  <2> QED
    BY <2>3, <2>4
<1>7. DOMAIN row = 1 .. N
  BY DEF SortedByKey
<1>8. ASSUME NEW e \in S PROVE \E n \in 1 .. N : row[n] = e
  <2>a. Rank(S, e) \in 0 .. N - 1
    BY <1>2
  <2>1. Rank(S, e) + 1 \in 1 .. N /\ (Rank(S, e) + 1) - 1 = Rank(S, e)
    <3> HIDE DEF N
    <3> QED
      BY ONLY <1>1, <2>a
  <2>2. rank[row[Rank(S, e) + 1]] = rank[e]
    BY <1>6, <2>1
  <2>3. row[Rank(S, e) + 1] = e
    BY <1>4, <1>6, <2>1, <2>2 DEF Injection, IsInjective
  <2> QED
    BY <2>1, <2>3
<1>9. InOrder(row)
  <2> SUFFICES ASSUME NEW n \in 1 .. N, NEW m \in 1 .. n - 1
               PROVE  row[m].key < row[n].key
    BY <1>7 DEF InOrder
  <2> HIDE DEF N, row
  <2>1. m \in 1 .. N /\ m < n
    BY <1>1
  <2>2. row[m] \in S /\ row[n] \in S /\ Rank(S, row[m]) = m - 1 /\ Rank(S, row[n]) = n - 1
    BY <1>6, <2>1
  <2>3. row[m].key \in Int /\ row[n].key \in Int
    BY <2>2
  <2>4. row[m].key # row[n].key
    BY <2>1, <2>2
  <2>5. ~(row[n].key < row[m].key)
    BY <1>3, <2>1, <2>2
  <2> QED
    BY <2>3, <2>4, <2>5
<1> QED
  BY <1>1, <1>6, <1>7, <1>8, <1>9

\* The map of a list in order names the place of each of its elements.
LEMMA MapIs ==
  ASSUME NEW row \in Seq(Elements), InOrder(row),
         \A n \in DOMAIN row : row[n].key = row[n].id
  PROVE  /\ DOMAIN MapOf(row) = {row[n].id : n \in DOMAIN row}
         /\ \A n, m \in DOMAIN row : row[n].id = row[m].id => n = m
         /\ \A n \in DOMAIN row : MapOf(row)[row[n].id] = n
<1>1. DOMAIN MapOf(row) = {row[n].id : n \in DOMAIN row}
  BY DEF MapOf
<1>a. DOMAIN row = 1 .. Len(row) /\ Len(row) \in Nat /\ \A n \in DOMAIN row : row[n] \in Elements
  OBVIOUS
<1>b. \A e \in Elements : e.key \in Nat
  BY DEF Elements
<1>2. DOMAIN row = 1 .. Len(row) /\ Len(row) \in Nat /\ \A n \in DOMAIN row : row[n].key \in Nat
  BY <1>a, <1>b
<1>3. ASSUME NEW n \in DOMAIN row, NEW m \in DOMAIN row, row[n].id = row[m].id PROVE n = m
  <2>1. row[n].key = row[m].key /\ row[n].key \in Nat
    BY <1>2, <1>3
  <2>2. ~(n < m)
    BY <1>2, <2>1 DEF InOrder
  <2>3. ~(m < n)
    BY <1>2, <2>1 DEF InOrder
  <2> QED
    BY <1>2, <2>2, <2>3
<1>4. ASSUME NEW n \in DOMAIN row PROVE MapOf(row)[row[n].id] = n
  <2> DEFINE k == CHOOSE k \in DOMAIN row : row[k].id = row[n].id
  <2>1. MapOf(row)[row[n].id] = k
    BY DEF MapOf
  <2>2. k \in DOMAIN row /\ row[k].id = row[n].id
    OBVIOUS
  <2> HIDE DEF k
  <2> QED
    BY <1>3, <2>1, <2>2
<1> QED
  BY <1>1, <1>3, <1>4

\* The client reads with the map of what it holds, whether it kept the map or
\* makes it anew: a map that was dropped is told by its size.
LEMMA MapUsed ==
  ASSUME received \in Seq(Elements), itemMap \in {None, MapOf(received)}
  PROVE  ConditionalRebuildItemMap = MapOf(received)
<1>1. CASE itemMap = MapOf(received)
  BY <1>1 DEF ConditionalRebuildItemMap
<1>2. CASE itemMap = None /\ Len(received) = 0
  <2>1. DOMAIN received = {}
    BY <1>2
  <2>2. MapOf(received) = None
    BY <2>1 DEF MapOf, None
  <2> QED
    BY <1>2, <2>2 DEF ConditionalRebuildItemMap
<1>3. CASE itemMap = None /\ Len(received) # 0
  <2>1. DOMAIN None = {}
    BY DEF None
  <2>2. Cardinality(DOMAIN itemMap) = 0
    BY <1>3, <2>1, FS_EmptySet
  <2> QED
    BY <1>3, <2>2 DEF ConditionalRebuildItemMap
<1> QED
  BY <1>1, <1>2, <1>3
-----------------------------------------------------------------------------
(* The initial state.                                                       *)

\* The states that are written out are states.
LEMMA StatesAre ==
  /\ None \in PartialOf(Nat) /\ Stale \in States /\ NeverSent \in States
  /\ Stale.array = -1 /\ NeverSent.array = 0 /\ DOMAIN Stale.reps = {} /\ DOMAIN NeverSent.reps = {}
  /\ \A b \in States : b.array >= 0 => b # Stale
<1>1. None \in [{} -> Nat] /\ DOMAIN None = {}
  BY DEF None
<1>2. None \in PartialOf(Nat)
  BY <1>1, PartialIf
<1> QED
  BY <1>1, <1>2 DEF Stale, NeverSent, States

\* Nothing is served, sent or received yet.
LEMMA FollowsFromStart == ReplicationInit => Follows
<1> SUFFICES ASSUME ReplicationInit PROVE Follows
  OBVIOUS
<1> USE DEF ReplicationInit
<1>1. DOMAIN None = {} /\ None \in PartialOf(ServedEntries)
  <2>1. None \in [{} -> ServedEntries] /\ DOMAIN None = {}
    BY DEF None
  <2> QED
    BY <2>1, PartialIf
<1>2. Typed
  BY <1>1, StatesAre DEF Typed, Told
<1>3. Len(retired) = 0 /\ DOMAIN flight = {} /\ DOMAIN received = {} /\ Len(flight) = 0 /\ Len(answers) = 0
  OBVIOUS
<1>4. Entries = {}
  BY <1>3 DEF Entries
<1>5. DOMAIN Bases = {1} /\ Bases[1] = NeverSent
  BY <1>3 DEF Bases
<1>6. Numbered
  BY <1>1, <1>3 DEF Numbered
<1>7. BasesGoUp /\ BasesTell
  BY <1>1, <1>5, StatesAre DEF BasesGoUp, BasesTell, Tells
<1>8. FlightSound /\ FlightLeads /\ BasesBehind /\ SameState
  BY <1>3, <1>4 DEF FlightSound, FlightLeads, BasesBehind, SameState
<1>9. ClientSound
  BY <1>3, <1>4 DEF ClientSound, InOrder
<1>10. ClientCovers
  BY <1>1, <1>4, <1>5 DEF ClientCovers, Covers
<1>11. ProxiesHearOfStacks
  BY <1>4 DEF ProxiesHearOfStacks
<1> QED
  BY <1>2, <1>6, <1>7, <1>8, <1>9, <1>10, <1>11 DEF Follows

-----------------------------------------------------------------------------
(* The server's steps.                                                      *)

\* What a call that changes the server's entries does: what is marked has the
\* new key of the array, what is not is as it was, and a number is not given
\* out again.
Serves ==
    /\ served' \in PartialOf(ServedEntries)
    /\ arrayKey' = arrayKey + 1 /\ lastID' \in Nat /\ lastID <= lastID' /\ lastKey' = lastID'
    /\ \A id \in DOMAIN served' :
         id \in 1 .. lastID' /\ served'[id].key = id /\ served'[id].rep \in 1 .. arrayKey'
    /\ \A id \in DOMAIN served' : served'[id].rep <= arrayKey =>
         id \in DOMAIN served /\ served'[id] = served[id]
    /\ \A id \in DOMAIN served' \ DOMAIN served : id \notin 1 .. lastID
    /\ UNCHANGED <<base, retired, flight, answers, losses, received, itemMap, proxies>>

\* AppendEntry, ChangeEntry and RemoveEntry are such calls.
LEMMA ServerServes ==
  ASSUME Typed, Numbered,
         \/ \E held \in SomeStacks : AppendEntry(held) \/ \E id \in DOMAIN served : ChangeEntry(id, held)
         \/ \E id \in DOMAIN served : RemoveEntry(id)
  PROVE  Serves
<1>1. /\ DOMAIN served \subseteq Nat /\ served \in [DOMAIN served -> ServedEntries]
      /\ \A id \in DOMAIN served : id \in Nat /\ served[id] \in ServedEntries
  BY PartialIs DEF Typed
<1>2. /\ arrayKey \in Nat /\ lastID \in Nat /\ lastKey = lastID
      /\ \A id \in DOMAIN served :
           id \in 1 .. lastID /\ served[id].key = id /\ served[id].rep \in 1 .. arrayKey
  BY DEF Typed, Numbered
<1>3. ASSUME NEW held \in SomeStacks, NEW key \in Nat
      PROVE  /\ Dirty(key, held) \in ServedEntries
             /\ Dirty(key, held).key = key /\ Dirty(key, held).rep = arrayKey + 1
  BY <1>2 DEF Dirty, ServedEntries
<1>4. ASSUME NEW held \in SomeStacks, AppendEntry(held) PROVE Serves
  <2> DEFINE D == DOMAIN served \cup {lastID + 1}
  <2>1. /\ served' = [id \in D |-> IF id = lastID + 1 THEN Dirty(lastKey + 1, held) ELSE served[id]]
        /\ arrayKey' = arrayKey + 1 /\ lastID' = lastID + 1 /\ lastKey' = lastKey + 1
        /\ UNCHANGED <<base, retired, flight, answers, losses, received, itemMap, proxies>>
    BY <1>4 DEF AppendEntry, Serve
  <2>2. /\ DOMAIN served' = D /\ D \in SUBSET Nat
        /\ \A id \in DOMAIN served' : served'[id] = IF id = lastID + 1 THEN Dirty(lastID + 1, held) ELSE served[id]
    BY <1>1, <1>2, <2>1
  <2> DEFINE new == Dirty(lastID + 1, held)
  <2>3. new \in ServedEntries /\ new.key = lastID + 1 /\ new.rep = arrayKey + 1
    BY <1>2, <1>3
  <2> HIDE DEF new
  <2>4. \A id \in D : served'[id] \in ServedEntries
    BY <1>1, <2>2, <2>3 DEF new
  <2>5. served' \in PartialOf(ServedEntries)
    <3>1. served' \in [D -> ServedEntries]
      BY <2>1, <2>4
    <3> QED
      BY <2>2, <3>1, PartialIf
  <2>6. ASSUME NEW id \in DOMAIN served'
        PROVE  /\ id \in 1 .. lastID' /\ served'[id].key = id /\ served'[id].rep \in 1 .. arrayKey'
               /\ served'[id].rep <= arrayKey => id \in DOMAIN served /\ served'[id] = served[id]
               /\ id \notin DOMAIN served => id \notin 1 .. lastID
    <3>1. CASE id = lastID + 1
      BY <1>2, <2>1, <2>2, <2>3, <3>1 DEF new
    <3>2. CASE id # lastID + 1
      BY <1>2, <2>1, <2>2, <3>2
    <3> QED
      BY <3>1, <3>2
  <2>7. lastID' \in Nat /\ lastID <= lastID' /\ lastKey' = lastID'
    BY <1>2, <2>1
  <2> QED
    BY ONLY <2>1, <2>5, <2>6, <2>7 DEF Serves
<1>5. ASSUME NEW held \in SomeStacks, NEW it \in DOMAIN served, ChangeEntry(it, held) PROVE Serves
  <2>1. /\ served' = [served EXCEPT ![it] = Dirty(@.key, held)]
        /\ arrayKey' = arrayKey + 1 /\ lastID' = lastID /\ lastKey' = lastKey
        /\ UNCHANGED <<base, retired, flight, answers, losses, received, itemMap, proxies>>
    BY <1>5 DEF ChangeEntry, Serve
  <2> DEFINE new == Dirty(served[it].key, held)
  <2>2. new \in ServedEntries /\ new.key = it /\ new.rep = arrayKey + 1
    BY <1>1, <1>2, <1>3
  <2>3. /\ DOMAIN served' = DOMAIN served
        /\ \A id \in DOMAIN served' : served'[id] = IF id = it THEN new ELSE served[id]
    BY <1>1, <2>1
  <2> HIDE DEF new
  <2>4. served' \in PartialOf(ServedEntries)
    <3>1. served' \in [DOMAIN served -> ServedEntries]
      <4>1. served' = [id \in DOMAIN served |-> served'[id]]
        BY <2>1
      <4> QED
        BY <1>1, <2>2, <2>3, <4>1
    <3> QED
      BY <1>1, <3>1, PartialIf
  <2>5. ASSUME NEW id \in DOMAIN served'
        PROVE  /\ id \in 1 .. lastID' /\ served'[id].key = id /\ served'[id].rep \in 1 .. arrayKey'
               /\ served'[id].rep <= arrayKey => id \in DOMAIN served /\ served'[id] = served[id]
    <3>1. CASE id = it
      BY <1>2, <2>1, <2>2, <2>3, <3>1
    <3>2. CASE id # it
      BY <1>2, <2>1, <2>3, <3>2
    <3> QED
      BY <3>1, <3>2
  <2> QED
    BY <1>2, <2>1, <2>3, <2>4, <2>5 DEF Serves
<1>6. ASSUME NEW it \in DOMAIN served, RemoveEntry(it) PROVE Serves
  <2> DEFINE D == DOMAIN served \cap (DOMAIN served \ {it})
  <2>1. /\ served' = [id \in D |-> served[id]]
        /\ arrayKey' = arrayKey + 1 /\ lastID' = lastID /\ lastKey' = lastKey
        /\ UNCHANGED <<base, retired, flight, answers, losses, received, itemMap, proxies>>
    BY <1>6 DEF RemoveEntry, Serve, Limited
  <2>2. DOMAIN served' = D /\ D \in SUBSET Nat /\ \A id \in D : id \in DOMAIN served /\ served'[id] = served[id]
    BY <1>1, <2>1
  <2>3. served' \in PartialOf(ServedEntries)
    <3>1. served' \in [D -> ServedEntries]
      BY <1>1, <2>1
    <3> QED
      BY <2>2, <3>1, PartialIf
  <2> HIDE DEF D
  <2> QED
    BY <1>2, <2>1, <2>2, <2>3 DEF Serves
<1> QED
  BY <1>4, <1>5, <1>6

\* Each state there is, is one.
LEMMA BasesAre ==
  ASSUME Typed
  PROVE  /\ DOMAIN Bases = 1 .. Len(retired) + 1 /\ Len(retired) \in Nat
         /\ \A i \in DOMAIN Bases : Bases[i] \in States /\ Bases[i].array \in Int
<1>1. /\ DOMAIN Bases = 1 .. Len(retired) + 1 /\ Len(retired) \in Nat
  BY DEF Typed, Bases
<1>2. ASSUME NEW i \in DOMAIN Bases PROVE Bases[i] \in States
  <2>1. CASE i <= Len(retired)
    <3>1. i \in DOMAIN retired /\ Bases[i] = retired[i]
      BY <1>1, <1>2, <2>1 DEF Bases, Typed
    <3> QED
      BY <3>1 DEF Typed
  <2>2. CASE ~(i <= Len(retired))
    BY <1>1, <1>2, <2>2 DEF Bases, Typed
  <2> QED
    BY <2>1, <2>2
<1>3. \A b \in States : b.array \in Int
  BY DEF States
<1> QED
  BY <1>1, <1>2, <1>3

\* And each entry of the client, an element.
LEMMA EntriesAre ==
  ASSUME Typed, NEW e \in Entries
  PROVE  /\ e \in Elements
         /\ e.id \in Nat /\ e.key \in Nat /\ e.recent \in Nat /\ e.mapped \in BOOLEAN
<1>1. PICK n \in DOMAIN received : e = received[n]
  BY DEF Entries
<1>2. e \in Elements
  BY <1>1 DEF Typed
<1> QED
  BY <1>2 DEF Elements

\* What each part tells stays true when the server changes entries.
LEMMA FollowsServing ==
  ASSUME Follows, Serves
  PROVE  Follows'
<1> USE DEF Follows
<1>1. /\ arrayKey \in Nat /\ lastID \in Nat /\ lastKey = lastID /\ arrayKey' = arrayKey + 1
      /\ lastID' \in Nat /\ lastID <= lastID'
  BY DEF Serves, Typed, Numbered
<1>2. \A id \in DOMAIN served' :
        /\ id \in 1 .. lastID' /\ served'[id].key = id /\ served'[id].rep \in 1 .. arrayKey'
        /\ served'[id].rep <= arrayKey => id \in DOMAIN served /\ served'[id] = served[id]
  BY DEF Serves
<1>3. Bases' = Bases /\ Entries' = Entries /\ \A i : Reached(i)' <=> Reached(i)
  BY DEF Serves, Bases, Entries, Reached
<1>4. UNCHANGED <<base, retired, flight, answers, losses, received, itemMap, proxies>>
  BY DEF Serves
<1>5. Typed'
  BY <1>4 DEF Serves, Typed
<1>6. Numbered'
  BY <1>4 DEF Serves, Numbered
<1>7. BasesGoUp'
  BY <1>1, <1>3, <1>4 DEF BasesGoUp
<1>a. \A i \in DOMAIN Bases : Bases[i].array <= arrayKey
  <2> SUFFICES ASSUME NEW i \in DOMAIN Bases PROVE Bases[i].array <= arrayKey
    OBVIOUS
  <2>1. CASE Bases[i] = Stale
    BY <1>1, <2>1, StatesAre
  <2>2. CASE Bases[i] # Stale
    BY <1>1, <2>2 DEF BasesGoUp
  <2> QED
    BY <2>1, <2>2
<1>b. \A i \in DOMAIN Bases : Bases[i].array \in Int
  BY BasesAre
<1>8. BasesTell'
  <2> SUFFICES ASSUME NEW i \in DOMAIN Bases PROVE Tells(Bases[i])'
    BY <1>3 DEF BasesTell
  <2> DEFINE b == Bases[i]
  <2>1. Tells(b) /\ b.array <= arrayKey /\ b.array \in Int
    BY <1>a, <1>b DEF BasesTell
  <2>2. b' = b
    BY <1>3
  <2> HIDE DEF b
  <2>3. \A id \in DOMAIN b.reps : id \in 1 .. lastID' /\ b.reps[id] <= b.array
    BY <1>1, <2>1 DEF Tells
  <2>4. \A id \in DOMAIN served' : served'[id].rep <= b.array =>
          id \in DOMAIN b.reps /\ b.reps[id] = served'[id].rep
    BY <1>1, <1>2, <2>1 DEF Tells
  <2>5. b.array # arrayKey'
    BY <1>1, <2>1
  <2>6. Tells(b)'
    BY <2>2, <2>3, <2>4, <2>5 DEF Tells
  <2> QED
    BY <2>6 DEF b
<1>9. FlightSound'
  <2>1. ASSUME NEW n \in DOMAIN flight PROVE SoundUpdate(flight[n])'
    <3> DEFINE u == flight[n]
    <3>1. /\ SoundUpdate(u) /\ u \in Updates /\ u' = u
      BY <1>4, <2>1 DEF FlightSound, Typed
    <3>2. u.base \in Nat /\ u.array \in Nat
      BY <3>1 DEF Updates
    <3> HIDE DEF u
    <3>3. u.base < u.array /\ u.array <= arrayKey' /\ u.array # arrayKey'
      BY <1>1, <3>1, <3>2 DEF SoundUpdate
    <3>4. \A id \in DOMAIN u.changed : id \in 1 .. lastID' /\ u.changed[id].key = id
      BY <1>1, <3>1 DEF SoundUpdate
    <3>5. ASSUME NEW id \in DOMAIN u.changed \cap DOMAIN served'
          PROVE  /\ u.base < served'[id].rep
                 /\ served'[id].rep <= u.array => u.changed[id].stacks = served'[id].stacks
      <4>1. CASE served'[id].rep <= arrayKey
        BY <1>2, <3>1, <4>1 DEF SoundUpdate
      <4>2. CASE ~(served'[id].rep <= arrayKey)
        BY <1>1, <1>2, <3>1, <3>2, <4>2 DEF SoundUpdate
      <4> QED
        BY <4>1, <4>2
    <3>6. u.deleted \subseteq 1 .. lastID'
      BY <1>1, <3>1 DEF SoundUpdate
    <3>7. u.deleted \cap DOMAIN served' = {}
      BY <3>1 DEF SoundUpdate, Serves
    <3>8. u.deleted \cap DOMAIN u.changed = {}
      BY <3>1 DEF SoundUpdate
    <3>9. SoundUpdate(u)'
      BY <3>1, <3>3, <3>4, <3>5, <3>6, <3>7, <3>8 DEF SoundUpdate
    <3> QED
      BY <3>9 DEF u
  <2> QED
    BY <1>4, <2>1 DEF FlightSound
<1>10. FlightLeads' /\ BasesBehind' /\ SameState'
  BY <1>3, <1>4 DEF FlightLeads, BasesBehind, SameState, Leads
<1>11. ClientSound'
  <2>1. \A e \in Entries : SoundElement(e)'
    <3> SUFFICES ASSUME NEW e \in Entries PROVE SoundElement(e)'
      OBVIOUS
    <3>1. e.recent \in Nat
      BY EntriesAre
    <3> QED
      BY <1>1, <1>4, <3>1 DEF ClientSound, SoundElement
  <2> QED
    BY <1>3, <1>4, <2>1 DEF ClientSound, InOrder, MapOf
<1>12. ClientCovers'
  <2> SUFFICES ASSUME NEW i \in DOMAIN Bases, Reached(i) PROVE Covers(Bases[i])'
    BY <1>3 DEF ClientCovers
  <2> DEFINE b == Bases[i]
  <2>1. Covers(b) /\ b.array <= arrayKey /\ b.array \in Int /\ b' = b
    BY <1>3, <1>a, <1>b DEF ClientCovers
  <2> HIDE DEF b
  <2>2. ASSUME NEW id \in DOMAIN served', served'[id].rep <= b.array
        PROVE  \E e \in Entries : e.id = id /\ e.stacks = served'[id].stacks /\ e.recent <= b.array
    BY <1>1, <1>2, <2>1, <2>2 DEF Covers
  <2>3. Covers(b)'
    BY <1>3, <2>1, <2>2 DEF Covers
  <2> QED
    BY <2>3 DEF b
<1>13. ProxiesHearOfStacks'
  BY <1>3, <1>4 DEF ProxiesHearOfStacks
<1> QED
  BY <1>5, <1>6, <1>7, <1>8, <1>9, <1>10, <1>11, <1>12, <1>13
-----------------------------------------------------------------------------
(* What is sent.                                                            *)

\* The update that is made is sound, and leads from its base to what is served.
LEMMA UpdateIs ==
  ASSUME Follows, base.array # arrayKey,
         NEW c, c = [array |-> arrayKey, reps |-> [id \in DOMAIN served |-> served[id].rep]]
  PROVE  /\ Update \in Updates /\ c \in States /\ c # Stale
         /\ SoundUpdate(Update) /\ Leads(base, Update, c) /\ Tells(c)
         /\ DOMAIN Update.changed \subseteq DOMAIN served
         /\ Update.array = arrayKey /\ Update.base = base.array
         /\ base.array \in Nat /\ base.array < arrayKey /\ DOMAIN c.reps = DOMAIN served
<1> USE DEF Follows
<1>1. /\ DOMAIN served \subseteq Nat
      /\ \A id \in DOMAIN served : id \in Nat /\ served[id] \in ServedEntries
      /\ arrayKey \in Nat /\ lastID \in Nat
      /\ \A id \in DOMAIN served :
           id \in 1 .. lastID /\ served[id].key = id /\ served[id].rep \in 1 .. arrayKey
  BY PartialIs DEF Typed, Numbered
<1>2. Len(retired) + 1 \in DOMAIN Bases /\ Bases[Len(retired) + 1] = base
  BY BasesAre DEF Bases
<1>3. base # Stale /\ base.array \in 0 .. arrayKey /\ Tells(base)
  BY <1>2 DEF BasesGoUp, BasesTell
<1>4. base.array \in Nat /\ base.array < arrayKey
  BY <1>1, <1>3
<1>5. DOMAIN base.reps \subseteq Nat
  BY PartialIs DEF Typed, States
<1> DEFINE new == {id \in DOMAIN served : id \notin DOMAIN base.reps \/ base.reps[id] # served[id].rep}
           changed == [id \in new |-> [key |-> served[id].key, stacks |-> served[id].stacks]]
           gone == DOMAIN base.reps \ DOMAIN served
           reps == [id \in DOMAIN served |-> served[id].rep]
<1>6. Update = [array |-> arrayKey, base |-> base.array, deleted |-> gone, changed |-> changed]
  BY DEF Update
<1>7. DOMAIN changed = new /\ new \subseteq DOMAIN served
  OBVIOUS
<1>8. \A id \in new : changed[id].key = served[id].key /\ changed[id].stacks = served[id].stacks
                      /\ changed[id] \in Contents
  BY <1>1 DEF Contents, ServedEntries
<1>9. changed \in PartialOf(Contents)
  <2>1. changed \in [new -> Contents] /\ new \in SUBSET Nat
    BY <1>1, <1>8
  <2> QED
    BY <2>1, PartialIf
<1>10. gone \in SUBSET Nat
  BY <1>5
<1>11. reps \in PartialOf(Nat) /\ DOMAIN reps = DOMAIN served /\ \A id \in DOMAIN served : reps[id] = served[id].rep
  <2>1. reps \in [DOMAIN served -> Nat]
    BY <1>1
  <2> QED
    BY <1>1, <2>1, PartialIf
<1>12. \A id \in new : base.array < served[id].rep
  BY <1>1, <1>3, <1>4 DEF Tells
<1>13. \A id \in gone : id \in 1 .. lastID /\ id \notin DOMAIN served
  BY <1>3 DEF Tells
<1>14. \A id \in DOMAIN served \ new : id \in DOMAIN base.reps /\ base.reps[id] = served[id].rep
  OBVIOUS
<1>15. DOMAIN base.reps \ gone \subseteq DOMAIN served
  OBVIOUS
<1> HIDE DEF new, changed, gone, reps
<1>16. Update.array = arrayKey /\ Update.base = base.array /\ Update.deleted = gone /\ Update.changed = changed
  BY <1>6
<1>17. c.array = arrayKey /\ c.reps = reps
  BY DEF reps
<1>18. Update \in Updates
  BY <1>1, <1>4, <1>6, <1>9, <1>10 DEF Updates
<1>19. c \in States /\ c # Stale
  <2>1. c \in States
    BY <1>1, <1>11 DEF States, reps
  <2> QED
    BY <1>1, <1>17, <2>1, StatesAre
<1>20. SoundUpdate(Update)
  BY <1>1, <1>4, <1>7, <1>8, <1>12, <1>13, <1>16 DEF SoundUpdate
<1>21. Leads(base, Update, c)
  BY <1>7, <1>11, <1>14, <1>15, <1>16, <1>17 DEF Leads
<1>22. Tells(c)
  BY <1>1, <1>11, <1>17 DEF Tells
<1> QED
  BY <1>4, <1>7, <1>11, <1>16, <1>17, <1>18, <1>19, <1>20, <1>21, <1>22

\* An update is sent.
LEMMA FollowsSend == ASSUME Follows, SendUpdate PROVE Follows'
<1> USE DEF Follows
<1> DEFINE L == Len(retired)
           u == Update
<1>1. /\ base.array # arrayKey
      /\ flight' = Append(flight, u) /\ retired' = Append(retired, base)
      /\ base' = [array |-> arrayKey, reps |-> [id \in DOMAIN served |-> served[id].rep]]
      /\ UNCHANGED <<served, arrayKey, lastKey, lastID, answers, losses, received, itemMap, proxies>>
  BY DEF SendUpdate
<1>2. /\ u \in Updates /\ base' \in States /\ base' # Stale
      /\ SoundUpdate(u) /\ Leads(base, u, base') /\ Tells(base')
      /\ DOMAIN u.changed \subseteq DOMAIN served
      /\ u.array = arrayKey /\ u.base = base.array
      /\ base.array \in Nat /\ base.array < arrayKey /\ DOMAIN base'.reps = DOMAIN served
      /\ base'.array = arrayKey
  BY <1>1, UpdateIs
<1> HIDE DEF u
<1>3. /\ L \in Nat /\ Len(flight) \in Nat /\ Len(answers) \in Nat /\ L = Len(answers) + Len(flight)
      /\ arrayKey \in Nat /\ base # Stale
      /\ DOMAIN flight = 1 .. Len(flight)
  BY DEF Typed, Numbered, BasesGoUp
<1>4. Typed'
  BY <1>1, <1>2 DEF Typed
<1>5. /\ Len(retired') = L + 1 /\ Len(flight') = Len(flight) + 1
      /\ DOMAIN flight' = 1 .. Len(flight) + 1
      /\ \A n \in 1 .. Len(flight) : flight'[n] = flight[n]
      /\ flight'[Len(flight) + 1] = u
      /\ \A n \in 1 .. L : retired'[n] = retired[n]
      /\ retired'[L + 1] = base
  BY <1>1 DEF Typed
<1> HIDE DEF L
<1>6. Numbered'
  BY <1>1, <1>3, <1>5 DEF Numbered, L
<1>7. /\ DOMAIN Bases = 1 .. L + 1 /\ DOMAIN Bases' = 1 .. L + 2
      /\ \A i \in 1 .. L + 1 : Bases'[i] = Bases[i]
      /\ Bases[L + 1] = base /\ Bases'[L + 2] = base'
  BY <1>3, <1>5 DEF Bases, L
<1>a. L + 1 \in 1 .. L + 1 /\ L + 2 \in 1 .. L + 2
  BY <1>3
<1>8. \A i \in 1 .. L + 1 : Bases[i].array < arrayKey /\ Bases[i].array \in Int /\ Bases[i].array <= base.array
  <2> SUFFICES ASSUME NEW i \in 1 .. L + 1
               PROVE  Bases[i].array \in Int /\ Bases[i].array <= base.array
    BY <1>2, <1>3
  <2>1. Bases[i].array \in Int
    BY <1>7, BasesAre
  <2>2. CASE i = L + 1
    BY <1>2, <1>7, <2>2
  <2>3. CASE i # L + 1 /\ Bases[i] = Stale
    BY <1>2, <2>3, StatesAre
  <2>4. CASE i # L + 1 /\ Bases[i] # Stale
    <3>1. i \in 1 .. (L + 1) - 1
      BY <1>3, <2>4
    <3>2. Bases[i].array < Bases[L + 1].array
      BY <1>7, <1>a, <2>4, <3>1 DEF BasesGoUp
    <3> QED
      BY <1>2, <1>7, <2>1, <3>2
  <2> QED
    BY <2>1, <2>2, <2>3, <2>4
<1>9. /\ \A i \in 1 .. L + 1 : Reached(i)' <=> Reached(i)
      /\ \A i \in 1 .. L + 2 : i = L + 2 => ~Reached(i)'
  <2>1. ASSUME NEW i \in 1 .. L + 1 PROVE Reached(i)' <=> Reached(i)
    <3>1. \A j \in 1 .. i - 1 : j \in 1 .. L
      BY <1>3
    <3> QED
      BY <1>1, <1>5, <3>1 DEF Reached
  <2>2. ASSUME NEW i \in 1 .. L + 2, i = L + 2, Reached(i)' PROVE FALSE
    <3>1. L + 1 \in 1 .. i - 1 /\ ~(L + 1 <= Len(answers'))
      BY <1>1, <1>3, <2>2
    <3>2. retired'[L + 1] = Stale \/ (L + 1 <= Len(answers') /\ answers'[L + 1])
      BY <2>2, <3>1 DEF Reached
    <3> QED
      BY <1>3, <1>5, <3>1, <3>2
  <2> QED
    BY <2>1, <2>2
<1>10. BasesGoUp'
  <2>1. \A i \in DOMAIN Bases' : Bases'[i] # Stale => Bases'[i].array \in 0 .. arrayKey'
    <3> SUFFICES ASSUME NEW i \in 1 .. L + 2, Bases'[i] # Stale PROVE Bases'[i].array \in 0 .. arrayKey'
      BY <1>7
    <3>1. CASE i = L + 2
      BY <1>1, <1>2, <1>3, <1>7, <3>1
    <3>2. CASE i # L + 2
      <4>1. i \in 1 .. L + 1
        BY <1>3, <3>2
      <4> QED
        BY <1>1, <1>7, <4>1 DEF BasesGoUp
    <3> QED
      BY <3>1, <3>2
  <2>2. ASSUME NEW j \in 1 .. L + 2, NEW i \in 1 .. j - 1, Bases'[i] # Stale
        PROVE  Bases'[i].array < Bases'[j].array
    <3>1. i \in 1 .. L + 1
      BY <1>3
    <3>2. CASE j = L + 2
      BY <1>2, <1>7, <1>8, <3>1, <3>2
    <3>3. CASE j # L + 2
      <4>1. j \in 1 .. L + 1
        BY <1>3, <3>3
      <4> QED
        BY <1>7, <2>2, <3>1, <4>1 DEF BasesGoUp
    <3> QED
      BY <3>2, <3>3
  <2> QED
    BY <1>2, <1>7, <2>1, <2>2 DEF BasesGoUp
<1>11. BasesTell'
  <2> SUFFICES ASSUME NEW i \in 1 .. L + 2 PROVE Tells(Bases[i])'
    BY <1>7 DEF BasesTell
  <2>1. \A b : Tells(b) => /\ \A id \in DOMAIN b.reps : id \in 1 .. lastID' /\ b.reps[id] <= b.array
                           /\ \A id \in DOMAIN served' : served'[id].rep <= b.array =>
                                id \in DOMAIN b.reps /\ b.reps[id] = served'[id].rep
                           /\ b.array = arrayKey' => DOMAIN b.reps \subseteq DOMAIN served'
    BY <1>1 DEF Tells
  <2>2. Tells(Bases'[i])
    <3>1. CASE i = L + 2
      BY <1>2, <1>7, <3>1
    <3>2. CASE i # L + 2
      <4>1. i \in 1 .. L + 1
        BY <1>3, <3>2
      <4> QED
        BY <1>7, <4>1 DEF BasesTell
    <3> QED
      BY <3>1, <3>2
  <2> QED
    BY <2>1, <2>2 DEF Tells
<1>12. FlightSound'
  <2>1. \A w : SoundUpdate(w)' <=> SoundUpdate(w)
    BY <1>1 DEF SoundUpdate
  <2>2. ASSUME NEW n \in 1 .. Len(flight) + 1 PROVE SoundUpdate(flight'[n])
    <3>1. CASE n = Len(flight) + 1
      BY <1>2, <1>5, <3>1
    <3>2. CASE n # Len(flight) + 1
      <4>1. n \in 1 .. Len(flight)
        BY <1>3, <3>2
      <4> QED
        BY <1>3, <1>5, <4>1 DEF FlightSound
    <3> QED
      BY <3>1, <3>2
  <2>3. ASSUME NEW n \in 1 .. Len(flight) + 1, NEW m \in 1 .. n - 1
        PROVE  flight'[m].array <= flight'[n].array
    <3>1. m \in 1 .. Len(flight)
      BY <1>3
    <3>2. CASE n = Len(flight) + 1
      BY <1>2, <1>3, <1>5, <3>1, <3>2 DEF FlightSound, SoundUpdate
    <3>3. CASE n # Len(flight) + 1
      <4>1. n \in 1 .. Len(flight)
        BY <1>3, <3>3
      <4> QED
        BY <1>3, <1>5, <3>1, <4>1 DEF FlightSound
    <3> QED
      BY <3>2, <3>3
  <2>4. \A n \in DOMAIN flight' : SoundUpdate(flight[n])'
    BY <1>5, <2>1, <2>2 DEF SoundUpdate
  <2> QED
    BY <1>5, <2>3, <2>4 DEF FlightSound
<1>13. FlightLeads'
  <2> SUFFICES ASSUME NEW n \in 1 .. Len(flight) + 1, NEW i \in 1 .. L + 2,
                      i = Len(answers) + n, Bases'[i] # Stale
               PROVE  Leads(Bases'[i], flight'[n], Bases'[i + 1])
    BY <1>1, <1>5, <1>7 DEF FlightLeads, Leads
  <2>1. CASE n = Len(flight) + 1
    <3>1. i = L + 1 /\ i + 1 = L + 2
      BY <1>3, <2>1
    <3> QED
      BY <1>2, <1>5, <1>7, <1>a, <2>1, <3>1
  <2>2. CASE n # Len(flight) + 1
    <3>1. n \in 1 .. Len(flight) /\ i \in 1 .. L + 1 /\ i + 1 \in 1 .. L + 1
      BY <1>3, <2>2
    <3> QED
      BY <1>3, <1>5, <1>7, <3>1 DEF FlightLeads
  <2> QED
    BY <2>1, <2>2
<1>14. BasesBehind'
  <2> SUFFICES ASSUME NEW i \in 1 .. L + 2, Reached(i)', NEW n \in 1 .. Len(flight) + 1
               PROVE  Bases'[i].array <= flight'[n].base
    BY <1>5, <1>7 DEF BasesBehind
  <2>1. i \in 1 .. L + 1 /\ Reached(i)
    <3>1. i # L + 2
      BY <1>9
    <3> QED
      BY <1>3, <1>9, <3>1
  <2>2. CASE n = Len(flight) + 1
    BY <1>2, <1>5, <1>7, <1>8, <2>1, <2>2
  <2>3. CASE n # Len(flight) + 1
    <3>1. n \in 1 .. Len(flight)
      BY <1>3, <2>3
    <3> QED
      BY <1>3, <1>5, <1>7, <2>1, <3>1 DEF BasesBehind
  <2> QED
    BY <2>2, <2>3
<1>15. Entries' = Entries
  BY <1>1 DEF Entries
<1>16. SameState'
  <2>1. ASSUME NEW i \in 1 .. L + 2, NEW n \in 1 .. Len(flight) + 1, flight'[n].array = Bases'[i].array
        PROVE  DOMAIN flight'[n].changed \subseteq DOMAIN Bases'[i].reps
    <3>1. CASE i = L + 2
      <4>1. flight'[n].array = arrayKey
        BY <1>2, <1>7, <2>1, <3>1
      <4>2. CASE n = Len(flight) + 1
        BY <1>2, <1>5, <1>7, <3>1, <4>2
      <4>3. CASE n # Len(flight) + 1
        <5>1. n \in 1 .. Len(flight)
          BY <1>3, <4>3
        <5> QED
          BY <1>2, <1>3, <1>5, <1>7, <3>1, <4>1, <5>1 DEF FlightSound, SoundUpdate
      <4> QED
        BY <4>2, <4>3
    <3>2. CASE i # L + 2
      <4>1. i \in 1 .. L + 1
        BY <1>3, <3>2
      <4>2. n # Len(flight) + 1
        BY <1>2, <1>3, <1>5, <1>7, <1>8, <2>1, <4>1
      <4>3. n \in 1 .. Len(flight)
        BY <1>3, <4>2
      <4> QED
        BY <1>3, <1>5, <1>7, <2>1, <4>1, <4>3 DEF SameState
    <3> QED
      BY <3>1, <3>2
  <2>2. ASSUME NEW i \in 1 .. L + 2, NEW e \in Entries, e.recent = Bases'[i].array
        PROVE  e.id \in DOMAIN Bases'[i].reps
    <3>1. CASE i = L + 2
      BY <1>2, <1>7, <2>2, <3>1 DEF ClientSound, SoundElement
    <3>2. CASE i # L + 2
      <4>1. i \in 1 .. L + 1
        BY <1>3, <3>2
      <4> QED
        BY <1>7, <2>2, <4>1 DEF SameState
    <3> QED
      BY <3>1, <3>2
  <2> QED
    BY <1>5, <1>7, <1>15, <2>1, <2>2 DEF SameState
<1>17. ClientSound'
  <2>1. ASSUME NEW e \in Entries PROVE SoundElement(e)'
    <3>1. SoundElement(e) /\ e.recent \in Nat
      BY EntriesAre DEF ClientSound
    <3>2. \A n \in 1 .. Len(flight) + 1 : e.recent <= flight'[n].array
      <4> SUFFICES ASSUME NEW n \in 1 .. Len(flight) + 1 PROVE e.recent <= flight'[n].array
        OBVIOUS
      <4>1. CASE n = Len(flight) + 1
        BY <1>2, <1>5, <3>1, <4>1 DEF SoundElement
      <4>2. CASE n # Len(flight) + 1
        <5>1. n \in 1 .. Len(flight)
          BY <1>3, <4>2
        <5> QED
          BY <1>3, <1>5, <3>1, <5>1 DEF SoundElement
      <4> QED
        BY <4>1, <4>2
    <3> QED
      BY <1>1, <1>5, <3>1, <3>2 DEF SoundElement
  <2> QED
    BY <1>1, <1>15, <2>1 DEF ClientSound, InOrder, MapOf
<1>18. ClientCovers'
  <2> SUFFICES ASSUME NEW i \in 1 .. L + 2, Reached(i)' PROVE Covers(Bases[i])'
    BY <1>7 DEF ClientCovers
  <2>1. i \in 1 .. L + 1 /\ Reached(i)
    <3>1. i # L + 2
      BY <1>9
    <3> QED
      BY <1>3, <1>9, <3>1
  <2>2. Covers(Bases'[i])
    BY <1>7, <2>1 DEF ClientCovers
  <2> QED
    BY <1>1, <1>15, <2>2 DEF Covers
<1>19. ProxiesHearOfStacks'
  BY <1>1, <1>15 DEF ProxiesHearOfStacks
<1> QED
  BY <1>4, <1>6, <1>10, <1>11, <1>12, <1>13, <1>14, <1>16, <1>17, <1>18, <1>19
-----------------------------------------------------------------------------
(* What is lost.                                                            *)

\* An update that got somewhere is no longer under way: what does not concern
\* the client stays.
LEMMA FlightShifts ==
  ASSUME Follows, flight # <<>>, flight' = Tail(flight),
         NEW v \in BOOLEAN, answers' = Append(answers, v),
         UNCHANGED <<served, arrayKey, lastKey, lastID, base, retired>>
  PROVE  /\ flight' \in Seq(Updates) /\ answers' \in Seq(BOOLEAN)
         /\ Bases' = Bases
         /\ Len(flight) \in Nat /\ Len(flight) >= 1 /\ Len(answers) \in Nat /\ Len(answers') = Len(answers) + 1
         /\ answers'[Len(answers) + 1] = v /\ \A j \in 1 .. Len(answers) : answers'[j] = answers[j]
         /\ DOMAIN flight = 1 .. Len(flight) /\ DOMAIN flight' = 1 .. Len(flight) - 1
         /\ \A n \in 1 .. Len(flight) - 1 : flight'[n] = flight[n + 1] /\ n + 1 \in 1 .. Len(flight)
         /\ Numbered' /\ BasesGoUp' /\ BasesTell' /\ FlightSound' /\ FlightLeads'
         /\ \A i \in DOMAIN Bases : \A n \in DOMAIN flight' :
              flight'[n].array = Bases[i].array => DOMAIN flight'[n].changed \subseteq DOMAIN Bases[i].reps
<1> USE DEF Follows
<1>1. Bases' = Bases
  BY DEF Bases
<1>2. /\ flight \in Seq(Updates) /\ answers \in Seq(BOOLEAN)
      /\ Len(flight) \in Nat /\ Len(flight) >= 1 /\ Len(answers) \in Nat /\ Len(retired) \in Nat
      /\ Len(retired) = Len(answers) + Len(flight)
  BY DEF Typed, Numbered
<1>3. /\ answers' \in Seq(BOOLEAN) /\ Len(answers') = Len(answers) + 1
      /\ answers'[Len(answers) + 1] = v /\ \A j \in 1 .. Len(answers) : answers'[j] = answers[j]
  BY <1>2
<1>4. /\ flight' \in Seq(Updates) /\ Len(flight') = Len(flight) - 1
      /\ DOMAIN flight = 1 .. Len(flight) /\ DOMAIN flight' = 1 .. Len(flight) - 1
  BY <1>2
<1>5. \A n \in 1 .. Len(flight) - 1 : flight'[n] = flight[n + 1] /\ n + 1 \in 1 .. Len(flight)
  BY <1>2
<1>6. Numbered'
  BY <1>2, <1>3, <1>4 DEF Numbered
<1>7. BasesGoUp'
  BY <1>1 DEF BasesGoUp
<1>8. BasesTell'
  BY <1>1 DEF BasesTell, Tells
<1>9. FlightSound'
  <2>1. \A w : SoundUpdate(w)' <=> SoundUpdate(w)
    BY DEF SoundUpdate
  <2>2. \A n \in DOMAIN flight' : SoundUpdate(flight'[n])
    BY <1>4, <1>5 DEF FlightSound
  <2>3. ASSUME NEW n \in 1 .. Len(flight) - 1, NEW m \in 1 .. n - 1
        PROVE  flight'[m].array <= flight'[n].array
    <3>1. m \in 1 .. Len(flight) - 1 /\ m + 1 \in 1 .. (n + 1) - 1
      BY <1>2
    <3>2. flight'[m] = flight[m + 1] /\ flight'[n] = flight[n + 1] /\ n + 1 \in 1 .. Len(flight)
      BY <1>5, <3>1
    <3> QED
      BY ONLY FlightSound, <1>4, <3>1, <3>2 DEF FlightSound
  <2>4. \A n \in DOMAIN flight' : SoundUpdate(flight[n])'
    BY <2>1, <2>2 DEF SoundUpdate
  <2> QED
    BY <1>4, <2>3, <2>4 DEF FlightSound
<1>10. FlightLeads'
  <2>1. ASSUME NEW n \in DOMAIN flight', NEW i \in DOMAIN Bases,
               i = Len(answers') + n, Bases[i] # Stale
        PROVE  Leads(Bases[i], flight'[n], Bases[i + 1])
    <3>1. flight'[n] = flight[n + 1] /\ n + 1 \in DOMAIN flight /\ i = Len(answers) + (n + 1)
      BY <1>2, <1>3, <1>4, <1>5, <2>1
    <3> QED
      BY <2>1, <3>1 DEF FlightLeads
  <2> QED
    BY ONLY <1>1, <2>1 DEF FlightLeads, Leads
<1>11. \A i \in DOMAIN Bases : \A n \in DOMAIN flight' :
         flight'[n].array = Bases[i].array => DOMAIN flight'[n].changed \subseteq DOMAIN Bases[i].reps
  BY <1>4, <1>5 DEF SameState
<1> QED
  BY <1>1, <1>2, <1>3, <1>4, <1>5, <1>6, <1>7, <1>8, <1>9, <1>10, <1>11

\* An update is lost.
LEMMA FollowsLoss == ASSUME Follows, LoseUpdate PROVE Follows'
<1> USE DEF Follows
<1>1. /\ flight # <<>> /\ flight' = Tail(flight) /\ answers' = Append(answers, FALSE)
      /\ losses' = losses + 1
      /\ UNCHANGED <<served, arrayKey, lastKey, lastID, base, retired>>
      /\ UNCHANGED <<received, itemMap, proxies>>
  BY DEF LoseUpdate
<1>2. /\ flight' \in Seq(Updates) /\ answers' \in Seq(BOOLEAN)
      /\ Bases' = Bases
      /\ Len(flight) \in Nat /\ Len(flight) >= 1 /\ Len(answers) \in Nat /\ Len(answers') = Len(answers) + 1
      /\ answers'[Len(answers) + 1] = FALSE /\ \A j \in 1 .. Len(answers) : answers'[j] = answers[j]
      /\ DOMAIN flight = 1 .. Len(flight) /\ DOMAIN flight' = 1 .. Len(flight) - 1
      /\ \A n \in 1 .. Len(flight) - 1 : flight'[n] = flight[n + 1] /\ n + 1 \in 1 .. Len(flight)
      /\ Numbered' /\ BasesGoUp' /\ BasesTell' /\ FlightSound' /\ FlightLeads'
      /\ \A i \in DOMAIN Bases : \A n \in DOMAIN flight' :
           flight'[n].array = Bases[i].array => DOMAIN flight'[n].changed \subseteq DOMAIN Bases[i].reps
  BY <1>1, FlightShifts
<1>3. Typed'
  BY <1>1, <1>2 DEF Typed
<1>4. Entries' = Entries
  BY <1>1 DEF Entries
<1>5. \A i \in DOMAIN Bases : Reached(i)' => Reached(i)
  <2> SUFFICES ASSUME NEW i \in DOMAIN Bases, Reached(i)', NEW j \in 1 .. i - 1
               PROVE  retired[j] = Stale \/ (j <= Len(answers) /\ answers[j])
    BY DEF Reached
  <2>1. retired[j] = Stale \/ (j <= Len(answers') /\ answers'[j])
    BY <1>1 DEF Reached
  <2>2. CASE j = Len(answers) + 1
    BY <1>2, <2>1, <2>2
  <2>3. CASE j # Len(answers) + 1 /\ j <= Len(answers')
    <3>1. i \in Int
      BY BasesAre
    <3>2. j \in 1 .. Len(answers)
      BY <1>2, <2>3, <3>1
    <3> QED
      BY <1>2, <2>1, <3>2
  <2> QED
    BY <2>1, <2>2, <2>3
<1>6. BasesBehind'
  BY <1>2, <1>5 DEF BasesBehind
<1>7. SameState'
  BY <1>2, <1>4 DEF SameState
<1>8. ClientSound'
  <2>1. ASSUME NEW e \in Entries PROVE SoundElement(e)'
    <3>1. SoundElement(e)
      BY DEF ClientSound
    <3> QED
      BY <1>1, <1>2, <3>1 DEF SoundElement
  <2> QED
    BY <1>1, <1>4, <2>1 DEF ClientSound, InOrder, MapOf
<1>9. ClientCovers'
  <2>1. \A b : Covers(b) => /\ \A id \in DOMAIN served' : served'[id].rep <= b.array =>
                                 \E e \in Entries' : e.id = id /\ e.stacks = served'[id].stacks /\ e.recent <= b.array
                            /\ \A e \in Entries' : e.recent <= b.array => e.id \in DOMAIN b.reps
    BY <1>1, <1>4 DEF Covers
  <2> SUFFICES ASSUME NEW i \in DOMAIN Bases, Reached(i)' PROVE Covers(Bases[i])'
    BY <1>2 DEF ClientCovers
  <2>2. Covers(Bases[i]) /\ Bases'[i] = Bases[i]
    BY <1>2, <1>5 DEF ClientCovers
  <2> QED
    BY <2>1, <2>2 DEF Covers
<1>10. ProxiesHearOfStacks'
  BY <1>1, <1>4 DEF ProxiesHearOfStacks
<1> QED
  BY <1>2, <1>3, <1>6, <1>7, <1>8, <1>9, <1>10

-----------------------------------------------------------------------------
(* What is answered.                                                        *)

\* An update is answered for, with its arrival, or no longer counts.
LEMMA FollowsArrival ==
  ASSUME Follows, HearAnswer, Passed
  PROVE  Follows'
<1> USE DEF Follows
<1> DEFINE L == Len(retired)
<1>1. /\ answers # <<>> /\ answers' = Tail(answers) /\ retired' = Tail(retired)
      /\ UNCHANGED <<base, served, arrayKey, lastKey, lastID, flight, losses, received, itemMap, proxies>>
  BY DEF HearAnswer
<1>2. /\ Len(answers) \in Nat /\ Len(answers) >= 1 /\ L \in Nat /\ L >= 1 /\ L = Len(answers) + Len(flight)
      /\ Len(flight) \in Nat /\ DOMAIN flight = 1 .. Len(flight)
  BY <1>1 DEF Typed, Numbered
<1>3. /\ answers' \in Seq(BOOLEAN) /\ Len(answers') = Len(answers) - 1
      /\ \A j \in 1 .. Len(answers) - 1 : answers'[j] = answers[j + 1]
      /\ answers[1] = Head(answers)
  BY <1>1, <1>2 DEF Typed
<1>4. /\ retired' \in Seq(States) /\ Len(retired') = L - 1
      /\ \A j \in 1 .. L - 1 : retired'[j] = retired[j + 1]
      /\ retired[1] = Head(retired)
  <2>1. retired \in Seq(States) /\ retired' = Tail(retired) /\ L \in Nat /\ L >= 1
    BY <1>1, <1>2 DEF Typed
  <2> QED
    BY ONLY <2>1
<1>5. Typed'
  BY <1>1, <1>3, <1>4 DEF Typed
<1> HIDE DEF L
<1>6. Numbered'
  BY <1>1, <1>2, <1>3, <1>4 DEF Numbered, L
<1>7. /\ DOMAIN Bases = 1 .. L + 1 /\ DOMAIN Bases' = 1 .. L
      /\ \A i \in 1 .. L : Bases'[i] = Bases[i + 1] /\ i + 1 \in 1 .. L + 1
  <2>1. DOMAIN Bases = 1 .. L + 1 /\ DOMAIN Bases' = 1 .. L
    BY <1>2, <1>4 DEF Bases, L
  <2>2. ASSUME NEW i \in 1 .. L PROVE Bases'[i] = Bases[i + 1] /\ i + 1 \in 1 .. L + 1
    <3>1. i + 1 \in 1 .. L + 1
      BY <1>2
    <3>2. CASE i = L
      BY <1>1, <1>2, <1>4, <2>1, <3>1, <3>2 DEF Bases, L
    <3>3. CASE i # L
      <4>1. i \in 1 .. L - 1 /\ i <= Len(retired') /\ i + 1 <= Len(retired)
        BY <1>2, <1>4, <3>3 DEF L
      <4> QED
        BY <1>4, <2>1, <3>1, <4>1 DEF Bases
    <3> QED
      BY <3>2, <3>3
  <2> QED
    BY <2>1, <2>2
<1>8. \A i \in 1 .. L : Reached(i)' => \A k : k = i + 1 => Reached(k)
  <2> SUFFICES ASSUME NEW i \in 1 .. L, Reached(i)', NEW j \in 1 .. (i + 1) - 1
               PROVE  retired[j] = Stale \/ (j <= Len(answers) /\ answers[j])
    BY DEF Reached
  <2>1. CASE j = 1
    BY <1>2, <1>3, <1>4, <2>1 DEF Passed
  <2>2. CASE j # 1
    <3> DEFINE k == j - 1
    <3>1. k \in 1 .. i - 1 /\ k \in 1 .. L - 1 /\ k + 1 = j
      BY <1>2, <2>2
    <3> HIDE DEF k
    <3>2. retired'[k] = Stale \/ (k <= Len(answers') /\ answers'[k])
      BY <3>1 DEF Reached
    <3>3. CASE retired'[k] = Stale
      BY <1>4, <3>1, <3>3
    <3>4. CASE k <= Len(answers') /\ answers'[k]
      <4>1. k \in 1 .. Len(answers) - 1 /\ j <= Len(answers)
        BY <1>2, <1>3, <3>1, <3>4
      <4> QED
        BY <1>3, <3>1, <3>4, <4>1
    <3> QED
      BY <3>2, <3>3, <3>4
  <2> QED
    BY <2>1, <2>2
<1>9. BasesGoUp'
  <2>1. ASSUME NEW j \in 1 .. L, NEW i \in 1 .. j - 1, Bases'[i] # Stale
        PROVE  Bases'[i].array < Bases'[j].array
    <3>1. i \in 1 .. L /\ i + 1 \in 1 .. (j + 1) - 1
      BY <1>2
    <3>2. Bases'[i] = Bases[i + 1] /\ Bases'[j] = Bases[j + 1] /\ j + 1 \in 1 .. L + 1
      BY <1>7, <3>1
    <3> QED
      BY ONLY BasesGoUp, <1>7, <2>1, <3>1, <3>2 DEF BasesGoUp
  <2> QED
    BY <1>1, <1>7, <2>1 DEF BasesGoUp
<1>10. BasesTell'
  <2>1. \A b : Tells(b)' <=> Tells(b)
    BY <1>1 DEF Tells
  <2>2. \A i \in DOMAIN Bases' : Tells(Bases'[i])
    BY <1>7 DEF BasesTell
  <2>3. \A i \in DOMAIN Bases' : Tells(Bases[i])'
    BY <2>1, <2>2 DEF Tells
  <2> QED
    BY <2>3 DEF BasesTell
<1>11. FlightSound'
  BY <1>1 DEF FlightSound, SoundUpdate
<1>12. FlightLeads'
  <2> SUFFICES ASSUME NEW n \in DOMAIN flight, NEW i \in 1 .. L,
                      i = Len(answers') + n, Bases'[i] # Stale
               PROVE  Leads(Bases'[i], flight[n], Bases'[i + 1])
    BY <1>1, <1>7 DEF FlightLeads, Leads
  <2>1. i + 1 = Len(answers) + n /\ i + 1 \in 1 .. L /\ (i + 1) + 1 \in 1 .. L + 1
    <3>1. n \in 1 .. Len(flight) /\ i \in 1 .. L /\ i = Len(answers') + n
      BY <1>2
    <3>2. Len(answers') = Len(answers) - 1
      BY <1>3
    <3> QED
      BY ONLY <1>2, <3>1, <3>2, SMTT(30)
  <2>2. Bases'[i] = Bases[i + 1] /\ Bases'[i + 1] = Bases[(i + 1) + 1] /\ i + 1 \in DOMAIN Bases
    BY <1>2, <1>7, <2>1
  <2> QED
    BY <2>1, <2>2 DEF FlightLeads
<1>13. BasesBehind'
  BY <1>1, <1>7, <1>8 DEF BasesBehind
<1>14. Entries' = Entries
  BY <1>1 DEF Entries
<1>15. SameState'
  BY <1>1, <1>7, <1>14 DEF SameState
<1>16. ClientSound'
  <2>1. \A e : SoundElement(e)' <=> SoundElement(e)
    BY <1>1 DEF SoundElement
  <2>2. InOrder(received)' /\ MapOf(received)' = MapOf(received)
    BY <1>1 DEF ClientSound, InOrder, MapOf
  <2> QED
    BY <1>1, <1>14, <2>1, <2>2 DEF ClientSound
<1>17. ClientCovers'
  <2> SUFFICES ASSUME NEW i \in 1 .. L, Reached(i)' PROVE Covers(Bases[i])'
    BY <1>7 DEF ClientCovers
  <2>1. Covers(Bases'[i])
    BY <1>7, <1>8 DEF ClientCovers
  <2> QED
    BY <1>1, <1>14, <2>1 DEF Covers
<1>18. ProxiesHearOfStacks'
  BY <1>1, <1>14 DEF ProxiesHearOfStacks
<1> QED
  BY <1>5, <1>6, <1>9, <1>10, <1>11, <1>12, <1>13, <1>15, <1>16, <1>17, <1>18

\* The loss of an update is heard: all sent after it no longer counts, and what
\* the client reached is what the first of them was made from.
LEMMA FollowsRefusal ==
  ASSUME Follows, HearAnswer, ~Passed
  PROVE  Follows'
<1> USE DEF Follows
<1> DEFINE L == Len(retired)
<1>1. /\ answers # <<>> /\ answers' = Tail(answers)
      /\ retired' = [n \in 1 .. L - 1 |-> Stale] /\ base' = Head(retired)
      /\ UNCHANGED <<served, arrayKey, lastKey, lastID, flight, losses, received, itemMap, proxies>>
  BY DEF HearAnswer
<1>2. /\ Len(answers) \in Nat /\ Len(answers) >= 1 /\ L \in Nat /\ L >= 1 /\ L = Len(answers) + Len(flight)
      /\ Len(flight) \in Nat /\ DOMAIN flight = 1 .. Len(flight)
  BY <1>1 DEF Typed, Numbered
<1>3. answers' \in Seq(BOOLEAN) /\ Len(answers') = Len(answers) - 1
  BY <1>1, <1>2 DEF Typed
<1>4. /\ retired' \in Seq(States) /\ Len(retired') = L - 1
      /\ \A j \in 1 .. L - 1 : retired'[j] = Stale
      /\ retired[1] = Head(retired) /\ 1 \in DOMAIN retired /\ retired[1] \in States
  BY <1>1, <1>2, StatesAre DEF Typed
<1>5. Typed'
  BY <1>1, <1>3, <1>4 DEF Typed
<1> HIDE DEF L
<1>6. Numbered'
  BY <1>1, <1>2, <1>3, <1>4 DEF Numbered, L
<1>7. /\ DOMAIN Bases = 1 .. L + 1 /\ DOMAIN Bases' = 1 .. L
      /\ Bases'[L] = Bases[1] /\ Bases[1] # Stale
      /\ \A i \in 1 .. L : i # L => Bases'[i] = Stale
  <2>1. DOMAIN Bases = 1 .. L + 1 /\ DOMAIN Bases' = 1 .. L /\ L \in 1 .. L /\ 1 \in 1 .. L + 1
    BY <1>2, <1>4 DEF Bases, L
  <2>2. Bases[1] = retired[1]
    BY <1>2, <2>1 DEF Bases, L
  <2>3. Bases'[L] = base'
    BY <1>2, <1>4, <2>1 DEF Bases, L
  <2>4. \A i \in 1 .. L : i # L => Bases'[i] = Stale
    BY <1>2, <1>4, <2>1 DEF Bases, L
  <2> QED
    BY <1>1, <1>4, <2>1, <2>2, <2>3, <2>4 DEF Passed
<1>8. 1 \in DOMAIN Bases /\ Reached(1)
  BY <1>2, <1>7 DEF Reached
<1>a. \A i \in 1 .. L : Bases'[i] # Stale => i = L
  BY <1>7
<1>b. L \in 1 .. L /\ arrayKey \in Nat /\ Bases[1].array \in 0 .. arrayKey
  <2>1. L \in 1 .. L
    BY <1>2
  <2>2. arrayKey \in Nat
    BY DEF Typed
  <2>3. Bases[1].array \in 0 .. arrayKey
    BY ONLY BasesGoUp, <1>7, <1>8 DEF BasesGoUp
  <2> QED
    BY ONLY <2>1, <2>2, <2>3
<1>9. BasesGoUp'
  <2>1. \A i \in 1 .. L : Bases'[i] # Stale => Bases'[i].array \in 0 .. arrayKey
    BY <1>7, <1>a, <1>b
  <2>2. ASSUME NEW j \in 1 .. L, NEW i \in 1 .. j - 1 PROVE Bases'[i] = Stale
    <3>1. i \in 1 .. L /\ i # L
      BY <1>2
    <3> QED
      BY <1>7, <3>1
  <2>3. base' # Stale
    BY <1>1, <1>4, <1>7 DEF Passed
  <2>4. arrayKey' = arrayKey
    BY <1>1
  <2> QED
    BY ONLY <1>7, <2>1, <2>2, <2>3, <2>4 DEF BasesGoUp
<1>10. BasesTell'
  <2>1. Tells(Stale)
    <3>1. \A id \in DOMAIN served : ~(served[id].rep <= -1)
      BY <1>b DEF Numbered
    <3> QED
      BY <1>b, <3>1, StatesAre DEF Tells
  <2>2. \A i \in 1 .. L : Tells(Bases'[i])
    BY <1>7, <1>8, <2>1 DEF BasesTell
  <2>3. \A i \in 1 .. L : Tells(Bases[i])'
    BY <1>1, <2>2 DEF Tells
  <2> QED
    BY <1>7, <2>3 DEF BasesTell
<1>11. FlightSound'
  BY <1>1 DEF FlightSound, SoundUpdate
<1>12. FlightLeads'
  <2> SUFFICES ASSUME NEW n \in DOMAIN flight, NEW i \in 1 .. L, i = Len(answers') + n
               PROVE  Bases'[i] = Stale
    BY <1>1, <1>7 DEF FlightLeads
  <2>1. i # L
    BY <1>2, <1>3
  <2> QED
    BY <1>7, <2>1
<1>13. BasesBehind'
  <2> SUFFICES ASSUME NEW i \in 1 .. L, NEW n \in DOMAIN flight PROVE Bases'[i].array <= flight[n].base
    BY <1>1, <1>7 DEF BasesBehind
  <2>1. flight[n] \in Updates
    BY DEF Typed
  <2>2. flight[n].base \in Nat
    BY <2>1 DEF Updates
  <2>3. CASE i = L
    BY <1>7, <1>8, <2>3 DEF BasesBehind
  <2>4. CASE i # L
    BY <1>7, <2>2, <2>4, StatesAre
  <2> QED
    BY <2>3, <2>4
<1>14. Entries' = Entries
  BY <1>1 DEF Entries
<1>15. SameState'
  <2>1. ASSUME NEW i \in 1 .. L
        PROVE  /\ \A n \in DOMAIN flight :
                    flight[n].array = Bases'[i].array => DOMAIN flight[n].changed \subseteq DOMAIN Bases'[i].reps
               /\ \A e \in Entries : e.recent = Bases'[i].array => e.id \in DOMAIN Bases'[i].reps
    <3>1. CASE i = L
      BY <1>7, <1>8, <3>1 DEF SameState
    <3>2. CASE i # L
      <4>1. Bases'[i].array = -1
        BY <1>7, <3>2, StatesAre
      <4>2. \A n \in DOMAIN flight : flight[n] \in Updates
        BY DEF Typed
      <4>3. \A n \in DOMAIN flight : flight[n].array \in Nat
        BY <4>2 DEF Updates
      <4>4. \A e \in Entries : e.recent \in Nat
        BY EntriesAre
      <4> QED
        BY <4>1, <4>3, <4>4
    <3> QED
      BY <3>1, <3>2
  <2> QED
    BY <1>1, <1>7, <1>14, <2>1 DEF SameState
<1>16. ClientSound'
  <2>1. \A e : SoundElement(e)' <=> SoundElement(e)
    BY <1>1 DEF SoundElement
  <2>2. InOrder(received)' /\ MapOf(received)' = MapOf(received)
    BY <1>1 DEF ClientSound, InOrder, MapOf
  <2> QED
    BY <1>1, <1>14, <2>1, <2>2 DEF ClientSound
<1>17. ClientCovers'
  <2> SUFFICES ASSUME NEW i \in 1 .. L PROVE Covers(Bases[i])'
    BY <1>7 DEF ClientCovers
  <2>1. Covers(Bases'[i])
    <3>1. CASE i = L
      BY <1>7, <1>8, <3>1 DEF ClientCovers
    <3>2. CASE i # L
      <4>1. \A id \in DOMAIN served : ~(served[id].rep <= -1)
        BY <1>b DEF Numbered
      <4>2. \A e \in Entries : ~(e.recent <= -1)
        BY EntriesAre
      <4>3. Bases'[i].array = -1
        BY <1>7, <3>2, StatesAre
      <4> QED
        BY <4>1, <4>2, <4>3 DEF Covers
    <3> QED
      BY <3>1, <3>2
  <2> QED
    BY <1>1, <1>14, <2>1 DEF Covers
<1>18. ProxiesHearOfStacks'
  BY <1>1, <1>14 DEF ProxiesHearOfStacks
<1> QED
  BY <1>5, <1>6, <1>9, <1>10, <1>11, <1>12, <1>13, <1>15, <1>16, <1>17, <1>18
-----------------------------------------------------------------------------
(* What is received.                                                        *)

\* An element of the update, as the client has it afterwards.
Reading(u, arrived, id) ==
    [id |-> id, key |-> u.changed[id].key, stacks |-> u.changed[id].stacks, recent |-> u.array,
     mapped |-> id \in arrived \/ \E x \in Entries : x.id = id /\ x.mapped]

Known == {e.id : e \in Entries}

\* The elements of the client are those of its list, each with an identifier
\* of its own, which the map leads to.
LEMMA ListIs ==
  ASSUME Follows
  PROVE  /\ ConditionalRebuildItemMap = MapOf(received)
         /\ DOMAIN MapOf(received) = Known
         /\ \A e, f \in Entries : e.id = f.id => e = f
         /\ \A n \in DOMAIN received : received[n] \in Entries /\ MapOf(received)[received[n].id] = n
         /\ \A n, m \in DOMAIN received : received[n].id = received[m].id => n = m
<1> USE DEF Follows
<1>1. received \in Seq(Elements) /\ itemMap \in {None, MapOf(received)} /\ InOrder(received)
  BY DEF Typed, ClientSound
<1>2. \A n \in DOMAIN received : received[n] \in Entries
  BY DEF Entries
<1>3. \A n \in DOMAIN received : received[n].key = received[n].id
  BY <1>2 DEF ClientSound, SoundElement
<1>4. /\ DOMAIN MapOf(received) = {received[n].id : n \in DOMAIN received}
      /\ \A n, m \in DOMAIN received : received[n].id = received[m].id => n = m
      /\ \A n \in DOMAIN received : MapOf(received)[received[n].id] = n
  BY ONLY <1>1, <1>3, MapIs
<1>5. ConditionalRebuildItemMap = MapOf(received)
  BY <1>1, MapUsed
<1>6. {received[n].id : n \in DOMAIN received} = Known
  BY DEF Entries, Known
<1>7. \A e, f \in Entries : e.id = f.id => e = f
  BY <1>4 DEF Entries
<1> QED
  BY <1>2, <1>4, <1>5, <1>6, <1>7

\* Reading keeps what the update does not name, and takes what it names.
LEMMA ReadIs ==
  ASSUME Follows, NEW u \in Updates, SoundUpdate(u), NEW arrived \in SUBSET DOMAIN u.changed,
         NEW read, read = ReadElements(u, MapOf(received), arrived)
  PROVE  /\ \A e \in read :
              /\ e \in Elements /\ e.key = e.id /\ e.id \in 1 .. lastID
              /\ e.id \in DOMAIN u.changed => e = Reading(u, arrived, e.id)
              /\ e.id \notin DOMAIN u.changed => e \in Entries
         /\ \A e \in Entries : e.id \notin DOMAIN u.changed => e \in read
         /\ \A id \in DOMAIN u.changed : Reading(u, arrived, id) \in read /\ Reading(u, arrived, id).id = id
         /\ \A e, f \in read : e.id = f.id => e = f
<1> USE DEF Follows
<1> DEFINE map == MapOf(received)
           new == DOMAIN u.changed \ DOMAIN map
           At(n) == {id \in DOMAIN u.changed \ new : map[id] = n}
           InPlace(n) == IF At(n) = {} THEN received[n]
                         ELSE ReadElement(u, CHOOSE id \in At(n) : TRUE, arrived, received[n].mapped)
<1>1. /\ DOMAIN map = Known /\ Known = {e.id : e \in Entries}
      /\ \A e, f \in Entries : e.id = f.id => e = f
      /\ \A n \in DOMAIN received : received[n] \in Entries /\ map[received[n].id] = n
      /\ \A n, m \in DOMAIN received : received[n].id = received[m].id => n = m
  BY ListIs DEF Known
<1>2. \A e \in Entries : \E n \in DOMAIN received : e = received[n]
  BY DEF Entries
<1>3. read = {InPlace(n) : n \in DOMAIN received} \cup {ReadElement(u, id, arrived, FALSE) : id \in new}
  BY DEF ReadElements
<1>4. /\ DOMAIN u.changed \subseteq Nat
      /\ \A id \in DOMAIN u.changed : u.changed[id] \in Contents /\ u.changed[id].key = id /\ id \in 1 .. lastID
      /\ u.array \in Nat
  BY PartialIs DEF Updates, SoundUpdate
<1>5. ASSUME NEW id \in DOMAIN u.changed
      PROVE  /\ Reading(u, arrived, id) \in Elements
             /\ Reading(u, arrived, id).id = id /\ Reading(u, arrived, id).key = id
  BY <1>4 DEF Reading, Elements, Contents
<1>6. ASSUME NEW id \in new PROVE ReadElement(u, id, arrived, FALSE) = Reading(u, arrived, id)
  <2>1. ~\E x \in Entries : x.id = id /\ x.mapped
    BY <1>1
  <2> QED
    BY <2>1 DEF ReadElement, Reading
<1>7. ASSUME NEW n \in DOMAIN received, received[n].id \in DOMAIN u.changed
      PROVE  InPlace(n) = Reading(u, arrived, received[n].id)
  <2> DEFINE id == received[n].id
  <2>1. id \in DOMAIN map /\ map[id] = n
    BY <1>1
  <2>2. id \in At(n)
    BY <1>7, <2>1
  <2>3. ASSUME NEW other \in At(n) PROVE other = id
    <3>1. other \in DOMAIN map /\ map[other] = n
      BY <2>3
    <3>2. PICK e \in Entries : e.id = other
      BY <1>1, <3>1
    <3>3. PICK m \in DOMAIN received : e = received[m]
      BY <1>2
    <3> QED
      BY <1>1, <3>1, <3>2, <3>3
  <2>4. (CHOOSE x \in At(n) : TRUE) = id
    BY <2>2, <2>3
  <2>5. InPlace(n) = ReadElement(u, id, arrived, received[n].mapped)
    BY <2>2, <2>4
  <2>6. received[n].mapped <=> \E x \in Entries : x.id = id /\ x.mapped
    BY <1>1
  <2>7. received[n].mapped \in BOOLEAN
    BY <1>1, EntriesAre
  <2>8. (id \in arrived \/ received[n].mapped) = (id \in arrived \/ \E x \in Entries : x.id = id /\ x.mapped)
    BY <2>6, <2>7
  <2> HIDE DEF id, InPlace
  <2> QED
    BY <2>5, <2>8 DEF ReadElement, Reading, id
<1>8. ASSUME NEW n \in DOMAIN received, received[n].id \notin DOMAIN u.changed
      PROVE  InPlace(n) = received[n]
  <2>1. At(n) = {}
    <3> SUFFICES ASSUME NEW id \in At(n) PROVE FALSE
      OBVIOUS
    <3>1. id \in DOMAIN map /\ map[id] = n /\ id \in DOMAIN u.changed
      OBVIOUS
    <3>2. PICK e \in Entries : e.id = id
      BY <1>1, <3>1
    <3>3. PICK m \in DOMAIN received : e = received[m]
      BY <1>2
    <3> QED
      BY <1>1, <1>8, <3>1, <3>2, <3>3
  <2> QED
    BY <2>1
<1> HIDE DEF InPlace, new, map, At
<1>9. ASSUME NEW e \in read
      PROVE  /\ e \in Elements /\ e.key = e.id /\ e.id \in 1 .. lastID
             /\ e.id \in DOMAIN u.changed => e = Reading(u, arrived, e.id)
             /\ e.id \notin DOMAIN u.changed => e \in Entries
  <2>1. CASE \E id \in DOMAIN u.changed : e = Reading(u, arrived, id)
    BY <1>4, <1>5, <2>1
  <2>2. CASE \E n \in DOMAIN received : e = received[n] /\ received[n].id \notin DOMAIN u.changed
    <3>1. e \in Entries
      BY <1>1, <2>2
    <3> QED
      BY <2>2, <3>1, EntriesAre DEF ClientSound, SoundElement
  <2>3. CASE \E id \in new : e = ReadElement(u, id, arrived, FALSE)
    BY <1>6, <2>1, <2>3 DEF new
  <2>4. CASE \E n \in DOMAIN received : e = InPlace(n)
    BY <1>7, <1>8, <2>1, <2>2, <2>4
  <2> QED
    BY <1>3, <2>3, <2>4
<1>10. ASSUME NEW e \in Entries, e.id \notin DOMAIN u.changed PROVE e \in read
  <2>1. PICK n \in DOMAIN received : e = received[n]
    BY <1>2
  <2>2. InPlace(n) = e
    BY <1>8, <1>10, <2>1
  <2>3. InPlace(n) \in read
    BY <1>3
  <2> QED
    BY <2>2, <2>3
<1>11. ASSUME NEW id \in DOMAIN u.changed PROVE Reading(u, arrived, id) \in read
  <2>1. CASE id \in new
    BY <1>3, <1>6, <2>1
  <2>2. CASE id \notin new
    <3>1. PICK e \in Entries : e.id = id
      BY <1>1, <2>2 DEF new
    <3> QED
      BY <1>2, <1>3, <1>7, <3>1
  <2> QED
    BY <2>1, <2>2
<1>12. ASSUME NEW e \in read, NEW f \in read, e.id = f.id PROVE e = f
  BY <1>1, <1>9, <1>12
<1> QED
  BY <1>5, <1>9, <1>10, <1>11, <1>12
\* The client has an update, reads it, and cleans up after it.
Receives(u, arrived, read, known) ==
    /\ u \in Updates /\ SoundUpdate(u) /\ arrived \in SUBSET DOMAIN u.changed
    /\ read = ReadElements(u, MapOf(received), arrived) /\ known = Known
    /\ PostReceiveCleanup(u, read, known)

\* What the client holds after an update: what it read, but for what is gone.
LEMMA ReceivedIs ==
  ASSUME Follows, NEW u, NEW arrived, NEW read, NEW known, Receives(u, arrived, read, known)
  PROVE  /\ received' \in Seq(Elements) /\ InOrder(received') /\ itemMap' \in {None, MapOf(received)'}
         /\ \A e : e \in Entries' <=> /\ e \in read /\ e.id \notin u.deleted
                                      /\ ~(e.recent < u.array /\ e.recent > u.base)
         /\ proxies' = TellOfEntries(proxies, read, read \ Entries', With(read, DOMAIN u.changed \ known),
                                     With(read, DOMAIN u.changed \cap known))
<1> DEFINE dropped == KnownDeletions(u, known) \cup ImplicitDeletes(read, u)
           gone == With(read, dropped)
           sent == DOMAIN u.changed
           rest == read \ gone
<1>0. /\ u \in Updates /\ SoundUpdate(u) /\ arrived \in SUBSET DOMAIN u.changed
      /\ read = ReadElements(u, MapOf(received), arrived) /\ known = Known
      /\ PostReceiveCleanup(u, read, known)
  BY DEF Receives
<1>1. /\ proxies' = TellOfEntries(proxies, read, gone, With(read, sent \ known), With(read, sent \cap known))
      /\ received' = SortedByKey(rest)
      /\ itemMap' = IF gone # {} THEN None ELSE MapOf(SortedByKey(read))
  BY <1>0 DEF PostReceiveCleanup
<1>2. /\ \A e \in read :
           /\ e \in Elements /\ e.key = e.id /\ e.id \in 1 .. lastID
           /\ e.id \notin DOMAIN u.changed => e \in Entries
      /\ \A e, f \in read : e.id = f.id => e = f
  BY <1>0, ReadIs
<1>3. u.deleted \cap DOMAIN u.changed = {} /\ lastID \in Nat
  BY <1>0 DEF SoundUpdate, Follows, Typed
<1>4. ASSUME NEW e \in read
      PROVE  e \in gone <=> (e.id \in u.deleted \/ (e.recent < u.array /\ e.recent > u.base))
  <2>1. e \in gone <=> (e.id \in KnownDeletions(u, known) \/ e.id \in ImplicitDeletes(read, u))
    BY <1>4 DEF With
  <2>2. e.id \in KnownDeletions(u, known) <=> e.id \in u.deleted
    BY <1>0, <1>2, <1>3 DEF KnownDeletions, Known
  <2>3. e.id \in ImplicitDeletes(read, u) <=> (e.recent < u.array /\ e.recent > u.base)
    BY <1>2 DEF ImplicitDeletes
  <2> HIDE DEF gone
  <2> QED
    BY <2>1, <2>2, <2>3
<1>5. rest \subseteq read
  OBVIOUS
<1> HIDE DEF gone, dropped
<1>6. /\ \A e \in rest : e.key \in 1 .. lastID
      /\ \A e, f \in rest : e.key = f.key => e = f
  BY <1>2, <1>5
<1> HIDE DEF rest
<1>7. /\ Cardinality(rest) \in Nat
      /\ DOMAIN SortedByKey(rest) = 1 .. Cardinality(rest)
      /\ \A n \in 1 .. Cardinality(rest) : SortedByKey(rest)[n] \in rest
      /\ \A e \in rest : \E n \in 1 .. Cardinality(rest) : SortedByKey(rest)[n] = e
      /\ InOrder(SortedByKey(rest))
  BY ONLY <1>3, <1>6, SortedIs
<1>8. received' \in Seq(Elements)
  <2>1. received' = [n \in 1 .. Cardinality(rest) |-> received'[n]]
    BY ONLY <1>1, <1>7 DEF SortedByKey
  <2>2. \A n \in 1 .. Cardinality(rest) : received'[n] \in Elements
    BY ONLY <1>1, <1>2, <1>5, <1>7
  <2> QED
    BY ONLY <1>7, <2>1, <2>2
<1>9. Entries' = rest
  BY <1>1, <1>7 DEF Entries
<1>10. \A e : e \in Entries' <=> /\ e \in read /\ e.id \notin u.deleted
                                 /\ ~(e.recent < u.array /\ e.recent > u.base)
  BY <1>4, <1>9 DEF rest
<1>11. itemMap' \in {None, MapOf(received)'}
  <2>1. CASE gone # {}
    BY <1>1, <2>1
  <2>2. CASE gone = {}
    <3>1. rest = read
      BY <2>2 DEF rest
    <3>2. itemMap' = MapOf(received')
      BY ONLY <1>1, <2>2, <3>1
    <3>3. MapOf(received') = MapOf(received)'
      BY DEF MapOf
    <3> QED
      BY ONLY <3>2, <3>3
  <2> QED
    BY <2>1, <2>2
<1>12. gone = read \ Entries'
  <2>1. gone \subseteq read
    BY DEF gone, With
  <2> QED
    BY <1>9, <2>1 DEF rest
<1> QED
  BY <1>1, <1>7, <1>8, <1>10, <1>11, <1>12
\* What the proxies are told of an update keeps them in step with what the
\* client then holds.
LEMMA ProxiesHear ==
  ASSUME Follows, NEW u, NEW arrived, NEW read, NEW known, Receives(u, arrived, read, known)
  PROVE  ProxiesHearOfStacks'
<1> DEFINE sent == DOMAIN u.changed
           gone == read \ Entries'
           added == With(read, sent \ known)
           changed == With(read, sent \cap known)
<1>0. /\ u \in Updates /\ SoundUpdate(u) /\ arrived \in SUBSET DOMAIN u.changed
      /\ read = ReadElements(u, MapOf(received), arrived) /\ known = Known
      /\ PostReceiveCleanup(u, read, known)
  BY DEF Receives
<1>1. /\ \A e : e \in Entries' <=> /\ e \in read /\ e.id \notin u.deleted
                                   /\ ~(e.recent < u.array /\ e.recent > u.base)
      /\ proxies' = TellOfEntries(proxies, read, gone, added, changed)
  BY ReceivedIs
<1>2. /\ \A e \in read :
           /\ e \in Elements /\ e.key = e.id
           /\ e.id \in sent => e = Reading(u, arrived, e.id)
           /\ e.id \notin sent => e \in Entries
      /\ \A e \in Entries : e.id \notin sent => e \in read
      /\ \A id \in sent : Reading(u, arrived, id) \in read /\ Reading(u, arrived, id).id = id
      /\ \A e, f \in read : e.id = f.id => e = f
  BY <1>0, ReadIs
<1>3. u.deleted \cap DOMAIN u.changed = {} /\ u.base \in Nat /\ u.array \in Nat
  BY <1>0 DEF SoundUpdate, Updates
<1>4. /\ \A e, f \in Entries : e.id = f.id => e = f
      /\ \A e \in Entries : e.key = e.id
  BY ListIs DEF Follows, ClientSound, SoundElement
<1>5. \A e \in read : e.id \in sent => e \in Entries'
  <2> SUFFICES ASSUME NEW e \in read, e.id \in sent PROVE e \in Entries'
    OBVIOUS
  <2>1. e = Reading(u, arrived, e.id)
    BY <1>2
  <2>2. e.recent = u.array
    BY ONLY <2>1 DEF Reading
  <2> QED
    BY <1>1, <1>3, <2>2
<1> SUFFICES ASSUME NEW a \in Proxied
             PROVE  /\ proxies'[a] = "current" => \E e \in Entries' : ItemArrived(e) /\ a \in Addresses(e)
                    /\ (\E e \in Entries' : ItemArrived(e) /\ a \in Addresses(e)) => proxies'[a] # "untold"
  BY DEF ProxiesHearOfStacks
<1> DEFINE there == \E e \in Entries : ItemArrived(e) /\ a \in Addresses(e)
           now == \E e \in Entries' : ItemArrived(e) /\ a \in Addresses(e)
           t0 == proxies[a]
           t1 == IF \E e \in gone : ItemArrived(e) /\ a \in Addresses(e) THEN "absent" ELSE t0
           t2 == IF t1 # "absent" /\ \E e \in added : ItemArrived(e) /\ a \in Addresses(e)
                 THEN NotifyCreation(read, a[1]) ELSE t1
           t3 == IF t2 = "absent" \/ ~\E e \in changed : ItemArrived(e) /\ a[1] = e.key
                 THEN t2
                 ELSE IF \E e \in changed : ItemArrived(e) /\ a \in Addresses(e) THEN "current" ELSE "absent"
<1>6. proxies'[a] = t3
  BY <1>1 DEF TellOfEntries, PreContentRemoved, PostContentAdded, PostContentChanged
<1>7. (t0 = "current" => there) /\ (there => t0 # "untold")
  BY DEF Follows, ProxiesHearOfStacks
<1>8. \A e \in read \cup Entries : a \in Addresses(e) => e.id = a[1] /\ e.key = a[1]
  BY <1>2, <1>4, KeyOfAddress
<1>9. CASE \A e \in read : e.id # a[1]
  <2>1. \A e \in Entries : e.id # a[1]
    BY <1>2, <1>9
  <2>2. ~there /\ ~now
    BY <1>1, <1>8, <1>9, <2>1
  <2>3. t3 = t0
    BY <1>2, <1>8, <1>9 DEF With
  <2> QED
    BY <1>6, <1>7, <2>2, <2>3
<1>10. CASE \E e \in read : e.id = a[1]
  <2>1. PICK x \in read : x.id = a[1]
    BY <1>10
  <2>2. \A e \in read : e.id = a[1] => e = x
    BY <1>2, <2>1
  <2>3. x.key = a[1] /\ (\A e \in read : e.key = a[1] => e = x)
    BY <1>2, <2>1, <2>2
  <2>4. now <=> (x \in Entries' /\ ItemArrived(x) /\ a \in Addresses(x))
    BY <1>1, <1>8, <2>2
  <2>5. (\E e \in gone : ItemArrived(e) /\ a \in Addresses(e))
           <=> (x \notin Entries' /\ ItemArrived(x) /\ a \in Addresses(x))
    BY <1>8, <2>1, <2>2
  <2>6. (\E e \in added : ItemArrived(e) /\ a \in Addresses(e))
           <=> (x.id \in sent \ known /\ ItemArrived(x) /\ a \in Addresses(x))
    BY <1>8, <2>1, <2>2 DEF With
  <2>7. /\ (\E e \in changed : ItemArrived(e) /\ a[1] = e.key) <=> (x.id \in sent \cap known /\ ItemArrived(x))
        /\ (\E e \in changed : ItemArrived(e) /\ a \in Addresses(e))
             <=> (x.id \in sent \cap known /\ ItemArrived(x) /\ a \in Addresses(x))
    BY <1>8, <2>1, <2>2, <2>3 DEF With
  <2>8. ItemArrived(x) => NotifyCreation(read, a[1]) = "current"
    BY <2>1, <2>3 DEF NotifyCreation
  <2>9. x.id \notin sent => x \in Entries /\ (there <=> (ItemArrived(x) /\ a \in Addresses(x)))
    <3> SUFFICES ASSUME x.id \notin sent
                 PROVE  x \in Entries /\ (there <=> (ItemArrived(x) /\ a \in Addresses(x)))
      OBVIOUS
    <3>1. x \in Entries
      BY <1>2, <2>1
    <3>2. \A e \in Entries : e.id = a[1] => e = x
      BY <1>4, <2>1, <3>1
    <3> QED
      BY <1>8, <3>1, <3>2
  <2>10. x.id \notin known => ~there
    BY <1>0, <1>8, <2>1 DEF Known
  <2>11. x.id \in sent /\ ~ItemArrived(x) => ~there
    <3> SUFFICES ASSUME x.id \in sent, ~ItemArrived(x), NEW e \in Entries, ItemArrived(e), a \in Addresses(e)
                 PROVE  FALSE
      OBVIOUS
    <3>1. e.id = x.id
      BY <1>8, <2>1
    <3>2. x = Reading(u, arrived, x.id)
      BY <1>2, <2>1
    <3>3. x.mapped = (x.id \in arrived \/ \E y \in Entries : y.id = x.id /\ y.mapped)
      BY ONLY <3>2 DEF Reading
    <3>4. \E y \in Entries : y.id = x.id /\ y.mapped
      BY <3>1 DEF ItemArrived
    <3> QED
      BY <3>3, <3>4 DEF ItemArrived
  <2>12. x.id \in sent => x \in Entries'
    BY <1>5, <2>1
  <2> DEFINE hears == ItemArrived(x)
             names == a \in Addresses(x)
             stays == x \in Entries'
             new == x.id \in sent \ known
             again == x.id \in sent \cap known
  <2>13. /\ (hears = TRUE \/ hears = FALSE) /\ new \in BOOLEAN /\ again \in BOOLEAN /\ ~(new /\ again)
    BY <1>2, <2>1 DEF ItemArrived, Elements
  <2>14. /\ t1 = IF ~stays /\ hears /\ names THEN "absent" ELSE t0
         /\ t2 = IF t1 # "absent" /\ new /\ hears /\ names THEN "current" ELSE t1
         /\ t3 = IF t2 = "absent" \/ ~(again /\ hears) THEN t2
                 ELSE IF again /\ hears /\ names THEN "current" ELSE "absent"
    <3>1. t1 = IF ~stays /\ hears /\ names THEN "absent" ELSE t0
      BY <2>5
    <3>2. t2 = IF t1 # "absent" /\ new /\ hears /\ names THEN "current" ELSE t1
      <4> HIDE DEF t1, added
      <4> QED
        BY <2>6, <2>8
    <3>3. t3 = IF t2 = "absent" \/ ~(again /\ hears) THEN t2
               ELSE IF again /\ hears /\ names THEN "current" ELSE "absent"
      <4> HIDE DEF t2, changed
      <4> QED
        BY <2>7
    <3> QED
      BY <3>1, <3>2, <3>3
  <2>15. (t3 = "current" => now) /\ (now => t3 # "untold")
    <3>1. now <=> (stays /\ hears /\ names)
      BY <2>4
    <3>2. /\ (new \/ again) => stays
          /\ (~new /\ ~again) => (there <=> (hears /\ names))
          /\ new => ~there
          /\ (again /\ ~hears) => ~there
      BY <2>9, <2>10, <2>11, <2>12
    <3> HIDE DEF now, stays, hears, names, new, again, there, t0, t1, t2, t3
    <3>3. CASE ~new /\ ~again
      BY <1>7, <2>13, <2>14, <3>1, <3>2, <3>3
    <3>4. CASE new
      BY <1>7, <2>13, <2>14, <3>1, <3>2, <3>4
    <3>5. CASE again
      BY <1>7, <2>13, <2>14, <3>1, <3>2, <3>5
    <3> QED
      BY <3>3, <3>4, <3>5
  <2> HIDE DEF t3
  <2> QED
    BY <1>6, <2>15
<1> QED
  BY <1>9, <1>10
\* Who reached a state had its update, or reached the one before and now has it.
LEMMA ReachedNext ==
  ASSUME Follows, flight # <<>>, flight' = Tail(flight), answers' = Append(answers, TRUE),
         UNCHANGED <<served, arrayKey, lastKey, lastID, base, retired>>,
         NEW i \in DOMAIN Bases, Reached(i)', ~Reached(i),
         NEW j, j = Len(answers) + 1
  PROVE  i = j + 1 /\ j \in DOMAIN Bases /\ Reached(j) /\ Bases[j] # Stale
<1> USE DEF Follows
<1>1. /\ Len(flight) \in Nat /\ Len(flight) >= 1 /\ Len(answers) \in Nat /\ Len(answers') = Len(answers) + 1
      /\ \A k \in 1 .. Len(answers) : answers'[k] = answers[k]
  BY FlightShifts
<1>2. Len(retired) \in Nat /\ Len(retired) = Len(answers) + Len(flight) /\ DOMAIN Bases = 1 .. Len(retired) + 1
  BY BasesAre DEF Numbered
<1>3. \A k \in 1 .. i - 1 : retired[k] = Stale \/ (k <= Len(answers') /\ answers'[k])
  BY DEF Reached
<1>4. PICK k \in 1 .. i - 1 : ~(retired[k] = Stale \/ (k <= Len(answers) /\ answers[k]))
  BY DEF Reached
<1>5. k = j
  <2>1. k \in Int /\ k >= 1 /\ k <= Len(answers')
    BY <1>2, <1>3, <1>4
  <2>2. ~(k <= Len(answers))
    <3> SUFFICES ASSUME k <= Len(answers) PROVE FALSE
      OBVIOUS
    <3>1. k \in 1 .. Len(answers)
      BY <1>1, <2>1
    <3> QED
      BY <1>1, <1>3, <1>4, <3>1
  <2> QED
    BY <1>1, <2>1, <2>2
<1>6. j \in 1 .. Len(retired) /\ retired[j] # Stale /\ j \in 1 .. i - 1
  BY <1>1, <1>2, <1>4, <1>5
<1>7. j \in DOMAIN Bases /\ Bases[j] = retired[j] /\ Bases[j] # Stale
  BY <1>2, <1>6 DEF Bases
<1>8. Reached(j)
  <2> SUFFICES ASSUME NEW m \in 1 .. j - 1
               PROVE  retired[m] = Stale \/ (m <= Len(answers) /\ answers[m])
    BY DEF Reached
  <2>1. m \in 1 .. i - 1 /\ m \in 1 .. Len(answers)
    BY <1>1, <1>2, <1>6
  <2> QED
    BY <1>1, <1>3, <2>1
<1>9. i = j + 1
  <2> SUFFICES ASSUME i # j + 1 PROVE FALSE
    OBVIOUS
  <2>1. /\ j + 1 \in 1 .. i - 1 /\ ~(j + 1 <= Len(answers')) /\ j + 1 \in DOMAIN Bases
        /\ j + 1 <= Len(retired) /\ j \in 1 .. (j + 1) - 1
    BY <1>1, <1>2, <1>6
  <2>2. retired[j + 1] = Stale
    BY <1>3, <2>1
  <2>3. Bases[j + 1] = Stale
    BY <1>2, <2>1, <2>2 DEF Bases
  <2>4. Bases[j].array < Bases[j + 1].array /\ Bases[j].array \in 0 .. arrayKey /\ arrayKey \in Nat
    BY ONLY <1>7, <2>1, BasesGoUp, Typed DEF BasesGoUp, Typed
  <2> QED
    BY ONLY <2>3, <2>4, StatesAre
<1> QED
  BY <1>7, <1>8, <1>9

\* What a client holds after an update, told of the state it had reached and of
\* the one it reaches.
LEMMA CoversOn ==
  ASSUME Follows, NEW u \in Updates, SoundUpdate(u), NEW now,
         NEW arrived,
         \A e \in now : /\ e.id \in DOMAIN u.changed => e = Reading(u, arrived, e.id)
                        /\ e.id \notin DOMAIN u.changed => e \in Entries
                        /\ e.id \notin u.deleted /\ ~(e.recent < u.array /\ e.recent > u.base),
         \A id \in DOMAIN u.changed : Reading(u, arrived, id) \in now,
         \A e \in Entries : (/\ e.id \notin DOMAIN u.changed /\ e.id \notin u.deleted
                             /\ ~(e.recent < u.array /\ e.recent > u.base)) => e \in now,
         \A e \in Entries : e.recent <= u.array,
         NEW b \in States, Covers(b)
  PROVE  /\ b.array <= u.base =>
              /\ \A id \in DOMAIN served : served[id].rep <= b.array =>
                    \E e \in now : e.id = id /\ e.stacks = served[id].stacks /\ e.recent <= b.array
              /\ \A e \in now : e.recent <= b.array => e.id \in DOMAIN b.reps
         /\ \A c \in States :
              (/\ Leads(b, u, c) /\ Tells(b) /\ Tells(c)
               /\ DOMAIN u.changed \subseteq DOMAIN c.reps
               /\ \A e \in Entries : e.recent = c.array => e.id \in DOMAIN c.reps) =>
              /\ \A id \in DOMAIN served : served[id].rep <= c.array =>
                    \E e \in now : e.id = id /\ e.stacks = served[id].stacks /\ e.recent <= c.array
              /\ \A e \in now : e.recent <= c.array => e.id \in DOMAIN c.reps
<1>1. u.base \in Nat /\ u.array \in Nat /\ b.array \in Int /\ u.base < u.array
  BY DEF Updates, States, SoundUpdate
<1>2. \A id : /\ Reading(u, arrived, id).id = id /\ Reading(u, arrived, id).recent = u.array
              /\ Reading(u, arrived, id).stacks = u.changed[id].stacks
  BY DEF Reading
<1>3. \A e \in now : e.id \in DOMAIN u.changed => e.recent = u.array
  BY <1>2
<1>4. \A e \in Entries : e.recent \in Nat
  BY EntriesAre DEF Follows
<1>5. \A id \in DOMAIN served : served[id].rep \in Int
  BY DEF Follows, Numbered
<1>6. ASSUME b.array <= u.base, NEW id \in DOMAIN served, served[id].rep <= b.array
      PROVE  \E e \in now : e.id = id /\ e.stacks = served[id].stacks /\ e.recent <= b.array
  <2>1. PICK e \in Entries : e.id = id /\ e.stacks = served[id].stacks /\ e.recent <= b.array
    BY <1>6 DEF Covers
  <2>2. id \notin DOMAIN u.changed
    BY <1>1, <1>5, <1>6 DEF SoundUpdate
  <2>3. id \notin u.deleted
    BY DEF SoundUpdate
  <2>4. ~(e.recent > u.base)
    BY <1>1, <1>4, <1>6, <2>1
  <2> QED
    BY <2>1, <2>2, <2>3, <2>4
<1>7. ASSUME b.array <= u.base, NEW e \in now, e.recent <= b.array PROVE e.id \in DOMAIN b.reps
  <2>1. e.id \notin DOMAIN u.changed
    BY <1>1, <1>3, <1>7
  <2> QED
    BY <1>7, <2>1 DEF Covers
<1>8. ASSUME NEW c \in States, Leads(b, u, c), Tells(b), Tells(c),
             NEW id \in DOMAIN served, served[id].rep <= c.array
      PROVE  \E e \in now : e.id = id /\ e.stacks = served[id].stacks /\ e.recent <= c.array
  <2>1. u.base = b.array /\ u.array = c.array
    BY <1>8 DEF Leads
  <2>2. CASE id \in DOMAIN u.changed
    <3>1. u.changed[id].stacks = served[id].stacks
      BY <1>8, <2>1, <2>2 DEF SoundUpdate
    <3>2. Reading(u, arrived, id) \in now
      BY <2>2
    <3> QED
      BY <1>1, <1>2, <2>1, <3>1, <3>2
  <2>3. CASE id \notin DOMAIN u.changed
    <3>1. id \in DOMAIN c.reps /\ c.reps[id] = served[id].rep
      BY <1>8 DEF Tells
    <3>2. id \in DOMAIN b.reps /\ b.reps[id] = served[id].rep
      BY <1>8, <2>3, <3>1 DEF Leads
    <3>3. served[id].rep <= b.array
      BY <1>8, <3>2 DEF Tells
    <3>4. PICK e \in Entries : e.id = id /\ e.stacks = served[id].stacks /\ e.recent <= b.array
      BY <3>3 DEF Covers
    <3>5. id \notin u.deleted
      BY DEF SoundUpdate
    <3>6. ~(e.recent > u.base) /\ e.recent <= c.array
      BY <1>1, <1>4, <2>1, <3>4
    <3> QED
      BY <2>3, <3>4, <3>5, <3>6
  <2> QED
    BY <2>2, <2>3
<1>9. ASSUME NEW c \in States, Leads(b, u, c), Tells(c), DOMAIN u.changed \subseteq DOMAIN c.reps,
             \A e \in Entries : e.recent = c.array => e.id \in DOMAIN c.reps,
             NEW e \in now, e.recent <= c.array
      PROVE  e.id \in DOMAIN c.reps
  <2>1. u.base = b.array /\ u.array = c.array
    BY <1>9 DEF Leads
  <2>2. CASE e.id \in DOMAIN u.changed
    BY <1>9, <2>2
  <2>3. CASE e.id \notin DOMAIN u.changed
    <3>1. e \in Entries /\ e.id \notin u.deleted /\ ~(e.recent < u.array /\ e.recent > u.base)
      BY <2>3
    <3>2. CASE e.recent <= b.array
      <4>1. e.id \in DOMAIN b.reps
        BY <3>1, <3>2 DEF Covers
      <4> QED
        BY <1>9, <3>1, <4>1 DEF Leads
    <3>3. CASE ~(e.recent <= b.array)
      <4>1. e.recent = c.array
        BY <1>1, <1>4, <2>1, <3>1, <3>3
      <4> QED
        BY <1>9, <3>1, <4>1
    <3> QED
      BY <3>2, <3>3
  <2> QED
    BY <2>2, <2>3
<1> QED
  BY <1>6, <1>7, <1>8, <1>9

\* What proxies are told is one of four things.
LEMMA ToldIs ==
  ASSUME NEW told \in [Proxied -> Told], NEW elements, NEW gone, NEW added, NEW changed
  PROVE  /\ PostContentChanged(told, changed) \in [Proxied -> Told]
         /\ TellOfEntries(told, elements, gone, added, changed) \in [Proxied -> Told]
<1>1. \A key : NotifyCreation(elements, key) \in Told
  BY DEF NotifyCreation, Told
<1>2. \A t \in [Proxied -> Told] : PostContentChanged(t, changed) \in [Proxied -> Told]
  BY DEF PostContentChanged, Told
<1>3. PreContentRemoved(told, gone) \in [Proxied -> Told]
  BY DEF PreContentRemoved, Told
<1>4. \A t \in [Proxied -> Told] : PostContentAdded(t, elements, added) \in [Proxied -> Told]
  BY <1>1 DEF PostContentAdded
<1> QED
  BY <1>2, <1>3, <1>4 DEF TellOfEntries

\* An update arrives.
LEMMA FollowsReceipt == ASSUME Follows, ReceiveUpdate PROVE Follows'
<1> DEFINE u == Head(flight)
           A == Len(answers)
<1>1. /\ flight # <<>> /\ flight' = Tail(flight) /\ answers' = Append(answers, TRUE)
      /\ UNCHANGED <<served, arrayKey, lastKey, lastID, base, retired>> /\ losses' = losses
  BY DEF ReceiveUpdate
<1>2. /\ flight' \in Seq(Updates) /\ answers' \in Seq(BOOLEAN)
      /\ Bases' = Bases
      /\ Len(flight) \in Nat /\ Len(flight) >= 1 /\ A \in Nat
      /\ DOMAIN flight = 1 .. Len(flight) /\ DOMAIN flight' = 1 .. Len(flight) - 1
      /\ \A n \in 1 .. Len(flight) - 1 : flight'[n] = flight[n + 1] /\ n + 1 \in 1 .. Len(flight)
      /\ Numbered' /\ BasesGoUp' /\ BasesTell' /\ FlightSound' /\ FlightLeads'
      /\ \A i \in DOMAIN Bases : \A n \in DOMAIN flight' :
           flight'[n].array = Bases[i].array => DOMAIN flight'[n].changed \subseteq DOMAIN Bases[i].reps
  BY <1>1, FlightShifts
<1>3. u \in Updates /\ u = flight[1] /\ SoundUpdate(u) /\ 1 \in DOMAIN flight
  <2>1. flight \in Seq(Updates) /\ FlightSound
    BY DEF Follows, Typed
  <2>2. 1 \in DOMAIN flight
    BY ONLY <1>2
  <2>3. u = flight[1] /\ flight[1] \in Updates
    BY ONLY <1>1, <2>1, <2>2
  <2>4. SoundUpdate(flight[1])
    BY ONLY <2>1, <2>2 DEF FlightSound
  <2> QED
    BY ONLY <2>2, <2>3, <2>4
<1>4. /\ ConditionalRebuildItemMap = MapOf(received)
      /\ DOMAIN MapOf(received) = Known
  BY ListIs
<1>5. PICK arrived \in SUBSET DOMAIN u.changed :
         PostReceiveCleanup(u, ReadElements(u, MapOf(received), arrived), Known)
  BY <1>4 DEF ReceiveUpdate
<1> DEFINE read == ReadElements(u, MapOf(received), arrived)
           known == Known
<1>6. /\ received' \in Seq(Elements) /\ InOrder(received') /\ itemMap' \in {None, MapOf(received)'}
      /\ \A e : e \in Entries' <=> /\ e \in read /\ e.id \notin u.deleted
                                   /\ ~(e.recent < u.array /\ e.recent > u.base)
      /\ \E gone, added, changed : proxies' = TellOfEntries(proxies, read, gone, added, changed)
  <2>1. Receives(u, arrived, read, known)
    BY <1>3, <1>5 DEF Receives
  <2> HIDE DEF u, read, known
  <2>2. /\ received' \in Seq(Elements) /\ InOrder(received') /\ itemMap' \in {None, MapOf(received)'}
        /\ \A e : e \in Entries' <=> /\ e \in read /\ e.id \notin u.deleted
                                     /\ ~(e.recent < u.array /\ e.recent > u.base)
        /\ proxies' = TellOfEntries(proxies, read, read \ Entries', With(read, DOMAIN u.changed \ known),
                                    With(read, DOMAIN u.changed \cap known))
    BY <2>1, ReceivedIs
  <2> QED
    BY ONLY <2>2
<1>7. ProxiesHearOfStacks'
  <2>1. Receives(u, arrived, read, known)
    BY <1>3, <1>5 DEF Receives
  <2> QED
    BY ONLY Follows, <2>1, ProxiesHear
<1>8. /\ \A e \in read :
           /\ e \in Elements /\ e.key = e.id /\ e.id \in 1 .. lastID
           /\ e.id \in DOMAIN u.changed => e = Reading(u, arrived, e.id)
           /\ e.id \notin DOMAIN u.changed => e \in Entries
      /\ \A e \in Entries : e.id \notin DOMAIN u.changed => e \in read
      /\ \A id \in DOMAIN u.changed : Reading(u, arrived, id) \in read /\ Reading(u, arrived, id).id = id
  BY <1>3, ReadIs
<1>a. \A id : Reading(u, arrived, id).recent = u.array
  BY DEF Reading
<1>b. /\ u.base \in Nat /\ u.array \in Nat /\ u.base < u.array /\ u.array <= arrayKey /\ arrayKey \in Nat
      /\ u.deleted \cap DOMAIN u.changed = {}
      /\ u.array = arrayKey => DOMAIN u.changed \subseteq DOMAIN served
  BY <1>3 DEF Updates, SoundUpdate, Typed, Follows
<1> HIDE DEF u, read, A
<1> USE DEF Follows
<1>9. ASSUME NEW e \in Entries'
      PROVE  /\ e \in Elements /\ e.key = e.id /\ e.id \in 1 .. lastID
             /\ e.id \in DOMAIN u.changed => e = Reading(u, arrived, e.id) /\ e.recent = u.array
             /\ e.id \notin DOMAIN u.changed => e \in Entries
             /\ e.id \notin u.deleted /\ ~(e.recent < u.array /\ e.recent > u.base)
  BY <1>6, <1>8, <1>a
<1>10. \A id \in DOMAIN u.changed : Reading(u, arrived, id) \in Entries'
  BY <1>6, <1>8, <1>a, <1>b
<1>11. \A e \in Entries : (/\ e.id \notin DOMAIN u.changed /\ e.id \notin u.deleted
                           /\ ~(e.recent < u.array /\ e.recent > u.base)) => e \in Entries'
  BY <1>6, <1>8
<1>12. \A e \in Entries : SoundElement(e) /\ e.recent <= u.array
  BY <1>3 DEF ClientSound, SoundElement
<1>13. Typed'
  <2>1. proxies' \in [Proxied -> Told]
    <3>1. PICK gone, added, changed : proxies' = TellOfEntries(proxies, read, gone, added, changed)
      BY ONLY <1>6
    <3>2. proxies \in [Proxied -> Told]
      BY DEF Typed
    <3> HIDE DEF read
    <3>3. TellOfEntries(proxies, read, gone, added, changed) \in [Proxied -> Told]
      BY ONLY <3>2, ToldIs
    <3> QED
      BY ONLY <3>1, <3>3
  <2>2. flight' \in Seq(Updates) /\ answers' \in Seq(BOOLEAN) /\ received' \in Seq(Elements)
    BY ONLY <1>2, <1>6
  <2>3. /\ served \in PartialOf(ServedEntries)
        /\ arrayKey \in Nat /\ lastKey \in Nat /\ lastID \in Nat /\ losses \in Nat
        /\ base \in States /\ retired \in Seq(States)
    BY DEF Typed
  <2>4. UNCHANGED <<served, arrayKey, lastKey, lastID, losses, base, retired>>
    BY ONLY <1>1
  <2> QED
    BY ONLY <2>1, <2>2, <2>3, <2>4 DEF Typed
<1>14. ClientSound'
  <2>1. ASSUME NEW e \in Entries' PROVE SoundElement(e)'
    <3>1. /\ e.id \in 1 .. lastID /\ e.key = e.id /\ e.recent <= arrayKey
          /\ e.recent = arrayKey => e.id \in DOMAIN served
      <4>1. CASE e.id \in DOMAIN u.changed
        BY <1>9, <1>b, <4>1
      <4>2. CASE e.id \notin DOMAIN u.changed
        BY <1>9, <1>12, <4>2 DEF SoundElement
      <4> QED
        BY <4>1, <4>2
    <3>2. ASSUME NEW n \in DOMAIN flight' PROVE e.recent <= flight'[n].array
      <4>1. flight'[n] = flight[n + 1] /\ n + 1 \in DOMAIN flight /\ 1 \in 1 .. (n + 1) - 1
        BY <1>2
      <4>2. u.array <= flight[n + 1].array
        BY <1>3, <4>1 DEF FlightSound
      <4>3. CASE e.id \in DOMAIN u.changed
        BY <1>9, <4>1, <4>2, <4>3
      <4>4. CASE e.id \notin DOMAIN u.changed
        BY <1>9, <1>12, <4>1, <4>4 DEF SoundElement
      <4> QED
        BY <4>3, <4>4
    <3> QED
      BY <1>1, <3>1, <3>2 DEF SoundElement
  <2>2. InOrder(received)'
    BY <1>6 DEF InOrder
  <2> QED
    BY <1>6, <2>1, <2>2 DEF ClientSound
<1>15. SameState'
  <2> SUFFICES ASSUME NEW i \in DOMAIN Bases, NEW e \in Entries', e.recent = Bases[i].array
               PROVE  e.id \in DOMAIN Bases[i].reps
    BY <1>2 DEF SameState
  <2>1. CASE e.id \in DOMAIN u.changed
    BY <1>3, <1>9, <2>1 DEF SameState
  <2>2. CASE e.id \notin DOMAIN u.changed
    BY <1>9, <2>2 DEF SameState
  <2> QED
    BY <2>1, <2>2
<1>16. ASSUME NEW i \in DOMAIN Bases, Reached(i)', ~Reached(i)
       PROVE  \E j \in DOMAIN Bases : /\ j = A + 1 /\ i = j + 1 /\ Reached(j)
                                      /\ Bases[j].array \in 0 .. arrayKey /\ Bases[j] # Stale
  <2>1. A + 1 \in DOMAIN Bases /\ i = (A + 1) + 1 /\ Reached(A + 1) /\ Bases[A + 1] # Stale
    BY <1>1, <1>16, ReachedNext DEF A
  <2> QED
    BY <2>1 DEF BasesGoUp
<1>17. BasesBehind'
  <2> SUFFICES ASSUME NEW i \in DOMAIN Bases, Reached(i)', NEW n \in DOMAIN flight'
               PROVE  Bases[i].array <= flight'[n].base
    BY <1>2 DEF BasesBehind
  <2>1. flight'[n] = flight[n + 1] /\ n + 1 \in DOMAIN flight
    BY <1>2
  <2>2. CASE Reached(i)
    BY <2>1, <2>2 DEF BasesBehind
  <2>3. CASE ~Reached(i)
    <3>1. PICK j \in DOMAIN Bases : /\ j = A + 1 /\ i = j + 1 /\ Reached(j)
                                    /\ Bases[j].array \in 0 .. arrayKey /\ Bases[j] # Stale
      BY <1>16, <2>3
    <3> DEFINE k == j + n
    <3>2. Len(retired) = A + Len(flight) /\ DOMAIN Bases = 1 .. Len(retired) + 1 /\ n \in 1 .. Len(flight) - 1
      BY <1>2, BasesAre DEF Numbered, A
    <3>3. k \in DOMAIN Bases /\ k = A + (n + 1) /\ j \in 1 .. k - 1 /\ (k = i \/ i \in 1 .. k - 1)
      <4>1. A \in Nat /\ Len(flight) \in Nat /\ j = A + 1 /\ i = j + 1
        BY ONLY <1>2, <3>1
      <4> QED
        BY ONLY <3>2, <4>1
    <3> HIDE DEF k
    <3>4. Bases[j].array < Bases[k].array /\ Bases[k].array \in Int /\ arrayKey \in Nat
      BY <3>1, <3>3, BasesAre DEF BasesGoUp, Typed
    <3>5. Bases[k] # Stale
      BY <3>1, <3>4, StatesAre
    <3>6. flight[n + 1].base = Bases[k].array
      <4>1. Leads(Bases[k], flight[n + 1], Bases[k + 1])
        BY <2>1, <3>3, <3>5 DEF FlightLeads, A
      <4> QED
        BY <4>1 DEF Leads
    <3>7. j \in 1 .. i - 1 /\ Bases[i].array \in Int
      <4>1. j \in Nat /\ j >= 1
        BY ONLY <1>2, <3>1 DEF A
      <4>2. j \in 1 .. i - 1
        BY ONLY <3>1, <4>1
      <4> QED
        BY <4>2, BasesAre
    <3>8. Bases[j].array < Bases[i].array
      BY <3>1, <3>7 DEF BasesGoUp
    <3>9. Bases[i] # Stale
      BY <3>1, <3>7, <3>8, StatesAre
    <3>10. Bases[i].array <= Bases[k].array
      BY <3>3, <3>4, <3>7, <3>9 DEF BasesGoUp
    <3> QED
      BY <2>1, <3>6, <3>10
  <2> QED
    BY <2>2, <2>3
<1>18. ClientCovers'
  <2> SUFFICES ASSUME NEW i \in DOMAIN Bases, Reached(i)'
               PROVE  /\ \A id \in DOMAIN served : served[id].rep <= Bases[i].array =>
                            \E e \in Entries' : e.id = id /\ e.stacks = served[id].stacks /\ e.recent <= Bases[i].array
                      /\ \A e \in Entries' : e.recent <= Bases[i].array => e.id \in DOMAIN Bases[i].reps
    BY <1>1, <1>2 DEF ClientCovers, Covers
  <2>1. \A e \in Entries' : /\ e.id \in DOMAIN u.changed => e = Reading(u, arrived, e.id)
                            /\ e.id \notin DOMAIN u.changed => e \in Entries
                            /\ e.id \notin u.deleted /\ ~(e.recent < u.array /\ e.recent > u.base)
    BY <1>9
  <2>2. \A e \in Entries : e.recent <= u.array
    BY <1>12
  <2>3. CASE Reached(i)
    <3>1. Covers(Bases[i]) /\ Bases[i].array <= u.base /\ Bases[i] \in States
      BY <1>3, <2>3, BasesAre DEF ClientCovers, BasesBehind
    <3> QED
      BY ONLY Follows, <1>3, <1>10, <1>11, <2>1, <2>2, <3>1, CoversOn
  <2>4. CASE ~Reached(i)
    <3>1. PICK j \in DOMAIN Bases : /\ j = A + 1 /\ i = j + 1 /\ Reached(j)
                                    /\ Bases[j].array \in 0 .. arrayKey /\ Bases[j] # Stale
      BY <1>16, <2>4
    <3>2. Covers(Bases[j]) /\ Bases[j] \in States /\ Bases[i] \in States /\ Tells(Bases[j]) /\ Tells(Bases[i])
      BY <3>1, BasesAre DEF ClientCovers, BasesTell
    <3>3. Leads(Bases[j], u, Bases[i])
      BY <1>3, <3>1 DEF FlightLeads, A
    <3>4. DOMAIN u.changed \subseteq DOMAIN Bases[i].reps
      <4>1. flight[1].array = Bases[i].array
        BY <1>3, <3>3 DEF Leads
      <4> QED
        BY <1>3, <4>1 DEF SameState
    <3>5. \A e \in Entries : e.recent = Bases[i].array => e.id \in DOMAIN Bases[i].reps
      BY DEF SameState
    <3> QED
      BY ONLY Follows, <1>3, <1>10, <1>11, <2>1, <2>2, <3>2, <3>3, <3>4, <3>5, CoversOn
  <2> QED
    BY <2>3, <2>4
<1> QED
  BY <1>2, <1>7, <1>13, <1>14, <1>15, <1>17, <1>18

\* The object of an entry's item arrives.
LEMMA FollowsItem == ASSUME Follows, NEW n \in DOMAIN received, ItemArrives(n) PROVE Follows'
<1> USE DEF Follows
<1> DEFINE old == received[n]
           new == [id |-> old.id, key |-> old.key, stacks |-> old.stacks, recent |-> old.recent, mapped |-> TRUE]
<1>1. /\ ~old.mapped
      /\ received' = [received EXCEPT ![n] = [@ EXCEPT !.mapped = TRUE]]
      /\ proxies' = PostContentChanged(proxies, {received'[n]})
      /\ itemMap' = ConditionalRebuildItemMap
      /\ UNCHANGED <<served, arrayKey, lastKey, lastID, base, retired, flight, answers, losses>>
  BY DEF ItemArrives
<1>2. /\ received \in Seq(Elements) /\ DOMAIN received = 1 .. Len(received) /\ Len(received) \in Nat
      /\ \A m \in DOMAIN received : received[m] \in Elements
  BY DEF Typed
<1>3. [old EXCEPT !.mapped = TRUE] = new /\ new \in Elements
  <2>1. old \in Elements
    BY <1>2
  <2> HIDE DEF old
  <2> DEFINE x == [old EXCEPT !.mapped = TRUE]
  <2>2. /\ x \in Elements /\ x.mapped = TRUE
        /\ x.id = old.id /\ x.key = old.key /\ x.stacks = old.stacks /\ x.recent = old.recent
    BY ONLY <2>1 DEF Elements
  <2> HIDE DEF x
  <2>3. x = new
    BY ONLY <2>2 DEF Elements, new
  <2> QED
    BY ONLY <2>2, <2>3 DEF x
<1> HIDE DEF new
<1>4. /\ DOMAIN received' = DOMAIN received /\ received'[n] = new
      /\ \A m \in DOMAIN received : m # n => received'[m] = received[m]
  BY <1>1, <1>2, <1>3
<1>5. received' \in Seq(Elements)
  <2>1. received' = [m \in 1 .. Len(received) |-> received'[m]]
    BY <1>1, <1>2
  <2>2. \A m \in 1 .. Len(received) : received'[m] \in Elements
    BY <1>2, <1>3, <1>4
  <2> QED
    BY ONLY <1>2, <2>1, <2>2
<1>6. /\ new.id = old.id /\ new.key = old.key /\ new.stacks = old.stacks /\ new.recent = old.recent
      /\ new.mapped = TRUE
  BY DEF new
<1>7. \A m \in DOMAIN received :
         /\ received'[m].id = received[m].id /\ received'[m].key = received[m].key
         /\ received'[m].stacks = received[m].stacks /\ received'[m].recent = received[m].recent
         /\ received[m].mapped => received'[m].mapped
  BY <1>4, <1>6
<1>8. /\ \A e \in Entries' : \E f \in Entries : /\ e.id = f.id /\ e.key = f.key /\ e.stacks = f.stacks
                                                /\ e.recent = f.recent
      /\ \A f \in Entries : \E e \in Entries' : /\ e.id = f.id /\ e.key = f.key /\ e.stacks = f.stacks
                                                /\ e.recent = f.recent /\ (f.mapped => e.mapped)
  BY <1>4, <1>7 DEF Entries
<1>9. Bases' = Bases /\ \A i : Reached(i)' <=> Reached(i)
  BY <1>1 DEF Bases, Reached
<1>10. Typed'
  <2>1. proxies' \in [Proxied -> Told]
    BY <1>1, ToldIs DEF Typed
  <2> QED
    BY <1>1, <1>5, <2>1 DEF Typed
<1>11. Numbered' /\ BasesGoUp' /\ BasesTell' /\ FlightSound' /\ FlightLeads' /\ BasesBehind'
  <2>1. Numbered' /\ BasesGoUp'
    BY <1>1, <1>9 DEF Numbered, BasesGoUp
  <2>2. BasesTell'
    BY <1>1, <1>9 DEF BasesTell, Tells
  <2>3. FlightSound' /\ FlightLeads' /\ BasesBehind'
    BY <1>1, <1>9 DEF FlightSound, SoundUpdate, FlightLeads, Leads, BasesBehind
  <2> QED
    BY <2>1, <2>2, <2>3
<1>12. SameState'
  <2>1. \A i \in DOMAIN Bases : \A e \in Entries' : e.recent = Bases[i].array => e.id \in DOMAIN Bases[i].reps
    BY <1>8 DEF SameState
  <2> QED
    BY <1>1, <1>9, <2>1 DEF SameState
<1>13. ClientSound'
  <2>1. \A e \in Entries' : SoundElement(e)'
    <3> SUFFICES ASSUME NEW e \in Entries' PROVE SoundElement(e)'
      OBVIOUS
    <3>1. PICK f \in Entries : /\ e.id = f.id /\ e.key = f.key /\ e.stacks = f.stacks /\ e.recent = f.recent
      BY <1>8
    <3>2. SoundElement(f)
      BY DEF ClientSound
    <3> QED
      BY <1>1, <3>1, <3>2 DEF SoundElement
  <2>2. InOrder(received)'
    <3>1. InOrder(received)
      BY DEF ClientSound
    <3> SUFFICES ASSUME NEW k \in DOMAIN received, NEW m \in 1 .. k - 1
                 PROVE  received'[m].key < received'[k].key
      BY <1>4 DEF InOrder
    <3>2. m \in DOMAIN received
      BY <1>2
    <3> QED
      BY <1>7, <3>1, <3>2 DEF InOrder
  <2>3. itemMap' = MapOf(received)'
    <3>1. itemMap' = MapOf(received)
      BY <1>1, ListIs
    <3>2. {received'[m].id : m \in DOMAIN received'} = {received[m].id : m \in DOMAIN received}
      BY <1>4, <1>7
    <3>3. \A id : (CHOOSE m \in DOMAIN received' : received'[m].id = id) = (CHOOSE m \in DOMAIN received : received[m].id = id)
      BY <1>4, <1>7
    <3>4. MapOf(received') = MapOf(received)
      BY <3>2, <3>3 DEF MapOf
    <3>5. MapOf(received') = MapOf(received)'
      BY DEF MapOf
    <3> QED
      BY ONLY <3>1, <3>4, <3>5
  <2> QED
    BY <2>1, <2>2, <2>3 DEF ClientSound
<1>14. ClientCovers'
  <2> SUFFICES ASSUME NEW i \in DOMAIN Bases, Reached(i)
               PROVE  /\ \A id \in DOMAIN served : served[id].rep <= Bases[i].array =>
                            \E e \in Entries' : e.id = id /\ e.stacks = served[id].stacks /\ e.recent <= Bases[i].array
                      /\ \A e \in Entries' : e.recent <= Bases[i].array => e.id \in DOMAIN Bases[i].reps
    BY <1>1, <1>9 DEF ClientCovers, Covers
  <2>1. Covers(Bases[i])
    BY DEF ClientCovers
  <2> QED
    BY <1>8, <2>1 DEF Covers
<1>15. ProxiesHearOfStacks'
  <2> SUFFICES ASSUME NEW a \in Proxied
               PROVE  /\ proxies'[a] = "current" => \E e \in Entries' : ItemArrived(e) /\ a \in Addresses(e)
                      /\ (\E e \in Entries' : ItemArrived(e) /\ a \in Addresses(e)) => proxies'[a] # "untold"
    BY DEF ProxiesHearOfStacks
  <2>1. /\ proxies[a] = "current" => \E e \in Entries : ItemArrived(e) /\ a \in Addresses(e)
        /\ (\E e \in Entries : ItemArrived(e) /\ a \in Addresses(e)) => proxies[a] # "untold"
    BY DEF ProxiesHearOfStacks
  <2>2. proxies'[a] = IF proxies[a] = "absent" \/ ~(ItemArrived(new) /\ a[1] = new.key) THEN proxies[a]
                      ELSE IF ItemArrived(new) /\ a \in Addresses(new) THEN "current" ELSE "absent"
    BY <1>1, <1>4 DEF PostContentChanged
  <2>3. ItemArrived(new) /\ new \in Entries'
    BY <1>4, <1>6 DEF ItemArrived, Entries
  <2>4. ~ItemArrived(old)
    BY <1>1 DEF ItemArrived
  <2>5. \A m \in DOMAIN received : m # n => received'[m] = received[m] /\ received[m].key # new.key
    <3> SUFFICES ASSUME NEW m \in DOMAIN received, m # n PROVE received[m].key # old.key
      BY <1>4, <1>6
    <3>1. m < n \/ n < m
      BY <1>2
    <3>2. received[m].key \in Int /\ old.key \in Int
      BY <1>2 DEF Elements
    <3> QED
      BY <1>2, <3>1, <3>2 DEF ClientSound, InOrder
  <2>6. CASE a[1] # new.key
    <3>1. a \notin Addresses(new)
      BY <2>6, KeyOfAddress
    <3>2. (\E e \in Entries' : ItemArrived(e) /\ a \in Addresses(e)) <=> \E e \in Entries : ItemArrived(e) /\ a \in Addresses(e)
      BY <1>4, <2>4, <2>5, <3>1 DEF Entries
    <3>3. proxies'[a] = proxies[a]
      BY <2>2, <2>6
    <3> QED
      BY <2>1, <3>2, <3>3
  <2>7. CASE a[1] = new.key
    <3>1. \A m \in DOMAIN received : m # n => a \notin Addresses(received[m])
      BY <2>5, <2>7, KeyOfAddress
    <3>2. ~\E e \in Entries : ItemArrived(e) /\ a \in Addresses(e)
      BY <2>4, <3>1 DEF Entries
    <3>3. (\E e \in Entries' : ItemArrived(e) /\ a \in Addresses(e)) <=> a \in Addresses(new)
      BY <1>4, <2>3, <2>5, <3>1 DEF Entries
    <3>4. CASE proxies[a] = "absent"
      <4>1. proxies'[a] = "absent"
        BY <2>2, <3>4
      <4> QED
        BY <4>1
    <3>5. CASE proxies[a] # "absent"
      <4>1. proxies'[a] = IF a \in Addresses(new) THEN "current" ELSE "absent"
        BY <2>2, <2>3, <2>7, <3>5
      <4> QED
        BY <3>3, <4>1
    <3> QED
      BY <3>4, <3>5
  <2> QED
    BY <2>6, <2>7
<1> QED
  BY <1>10, <1>11, <1>12, <1>13, <1>14, <1>15

\* A proxy is asked for.
LEMMA FollowsRequest == ASSUME Follows, NEW a \in Proxied, RequestProxy(a) PROVE Follows'
<1> USE DEF Follows
<1>1. /\ proxies' = [proxies EXCEPT ![a] =
            IF ContainsAddress(a) THEN NotifyCreation(Entries, a[1]) ELSE "untold"]
      /\ UNCHANGED <<served, arrayKey, lastKey, lastID, base, retired, flight, answers,
                     losses, received, itemMap>>
  BY DEF RequestProxy
<1>2. Entries' = Entries /\ Bases' = Bases /\ \A i : Reached(i)' <=> Reached(i)
  BY <1>1 DEF Entries, Bases, Reached
<1>3. Typed'
  <2>1. proxies' \in [Proxied -> Told]
    BY <1>1 DEF Typed, NotifyCreation, Told
  <2> QED
    BY <1>1, <2>1 DEF Typed
<1>4. Numbered' /\ BasesGoUp' /\ BasesTell' /\ FlightSound' /\ FlightLeads' /\ BasesBehind'
  <2>1. Numbered' /\ BasesGoUp'
    BY <1>1, <1>2 DEF Numbered, BasesGoUp
  <2>2. BasesTell'
    BY <1>1, <1>2 DEF BasesTell, Tells
  <2>3. FlightSound' /\ FlightLeads' /\ BasesBehind'
    BY <1>1, <1>2 DEF FlightSound, SoundUpdate, FlightLeads, Leads, BasesBehind
  <2> QED
    BY <2>1, <2>2, <2>3
<1>5. SameState'
  BY <1>1, <1>2 DEF SameState
<1>6. ClientSound'
  <2>1. \A e : SoundElement(e)' <=> SoundElement(e)
    BY <1>1 DEF SoundElement
  <2>2. InOrder(received)' /\ MapOf(received)' = MapOf(received)
    BY <1>1 DEF ClientSound, InOrder, MapOf
  <2> QED
    BY <1>1, <1>2, <2>1, <2>2 DEF ClientSound
<1>7. ClientCovers'
  BY <1>1, <1>2 DEF ClientCovers, Covers
<1>8. ProxiesHearOfStacks'
  <2> SUFFICES ASSUME NEW b \in Proxied
               PROVE  /\ proxies'[b] = "current" => \E e \in Entries : ItemArrived(e) /\ b \in Addresses(e)
                      /\ (\E e \in Entries : ItemArrived(e) /\ b \in Addresses(e)) => proxies'[b] # "untold"
    BY <1>2 DEF ProxiesHearOfStacks
  <2>1. CASE b # a
    BY <1>1, <2>1 DEF ProxiesHearOfStacks, Typed
  <2>2. CASE b = a /\ ~ContainsAddress(a)
    <3>1. proxies'[a] = "untold"
      BY <1>1, <2>2 DEF Typed
    <3>2. ~\E e \in Entries : a \in Addresses(e)
      BY <2>2 DEF ContainsAddress
    <3> QED
      BY <2>2, <3>1, <3>2
  <2>3. CASE b = a /\ ContainsAddress(a)
    <3>1. proxies'[a] = IF \E e \in Entries : e.key = a[1] /\ ItemArrived(e) THEN "current" ELSE "created"
      BY <1>1, <2>3 DEF NotifyCreation, Typed
    <3>2. PICK x \in Entries : a \in Addresses(x)
      BY <2>3 DEF ContainsAddress
    <3>3. \A e \in Entries : e.key = a[1] => e = x
      BY <3>2, ListIs, KeyOfAddress DEF ClientSound, SoundElement
    <3>4. proxies'[a] # "untold"
      BY <3>1
    <3>5. proxies'[a] = "current" => ItemArrived(x)
      BY <3>1, <3>3
    <3> QED
      BY <2>3, <3>2, <3>4, <3>5
  <2> QED
    BY <2>1, <2>2, <2>3
<1> QED
  BY <1>3, <1>4, <1>5, <1>6, <1>7, <1>8

\* Nothing happens.
LEMMA FollowsStill == ASSUME Follows, UNCHANGED replicationVars PROVE Follows'
<1> USE DEF Follows
<1>1. /\ UNCHANGED <<served, arrayKey, lastKey, lastID, base, retired, flight, answers, losses>>
      /\ UNCHANGED <<received, itemMap, proxies>>
  BY DEF replicationVars
<1>2. Entries' = Entries /\ Bases' = Bases /\ \A i : Reached(i)' <=> Reached(i)
  BY <1>1 DEF Entries, Bases, Reached
<1>3. Typed' /\ Numbered' /\ BasesGoUp'
  BY <1>1, <1>2 DEF Typed, Numbered, BasesGoUp
<1>4. BasesTell'
  BY <1>1, <1>2 DEF BasesTell, Tells
<1>5. FlightSound' /\ FlightLeads' /\ BasesBehind' /\ SameState'
  BY <1>1, <1>2 DEF FlightSound, SoundUpdate, FlightLeads, Leads, BasesBehind, SameState
<1>6. ClientSound'
  <2>1. \A e : SoundElement(e)' <=> SoundElement(e)
    BY <1>1 DEF SoundElement
  <2>2. InOrder(received)' /\ MapOf(received)' = MapOf(received)
    BY <1>1 DEF ClientSound, InOrder, MapOf
  <2> QED
    BY <1>1, <1>2, <2>1, <2>2 DEF ClientSound
<1>7. ClientCovers' /\ ProxiesHearOfStacks'
  BY <1>1, <1>2 DEF ClientCovers, Covers, ProxiesHearOfStacks
<1> QED
  BY <1>3, <1>4, <1>5, <1>6, <1>7

-----------------------------------------------------------------------------
(* The theorems.                                                            *)

\* No step ends it.
LEMMA FollowsOn == Follows /\ [ReplicationNext]_replicationVars => Follows'
<1> SUFFICES ASSUME Follows, [ReplicationNext]_replicationVars PROVE Follows'
  OBVIOUS
<1>1. CASE \E held \in SomeStacks : AppendEntry(held) \/ \E id \in DOMAIN served : ChangeEntry(id, held)
  BY <1>1, ServerServes, FollowsServing DEF Follows
<1>2. CASE \E id \in DOMAIN served : RemoveEntry(id)
  BY <1>2, ServerServes, FollowsServing DEF Follows
<1>3. CASE SendUpdate
  BY <1>3, FollowsSend
<1>4. CASE LoseUpdate
  BY <1>4, FollowsLoss
<1>5. CASE HearAnswer
  BY <1>5, FollowsArrival, FollowsRefusal
<1>6. CASE ReceiveUpdate
  BY <1>6, FollowsReceipt
<1>7. CASE \E n \in DOMAIN received : ItemArrives(n)
  BY <1>7, FollowsItem
<1>8. CASE \E a \in Proxied : RequestProxy(a)
  BY <1>8, FollowsRequest
<1>9. CASE UNCHANGED replicationVars
  BY <1>9, FollowsStill
<1> QED
  BY <1>1, <1>2, <1>3, <1>4, <1>5, <1>6, <1>7, <1>8, <1>9 DEF ReplicationNext

\* The invariant holds throughout: every state that an update may yet be made
\* from is one the client comes to cover.
THEOREM BasesAreCovered == ReplicationSpec => []Follows
<1>1. ReplicationInit => Follows
  BY FollowsFromStart
<1>2. Follows /\ [ReplicationNext]_replicationVars => Follows'
  BY FollowsOn
<1> QED
  BY <1>1, <1>2, PTL DEF ReplicationSpec

\* It says of a settled state that the client has what is served.
LEMMA FollowsMeans == Follows => ClientsFollowServer
<1> SUFFICES ASSUME Follows PROVE ClientsFollowServer
  OBVIOUS
<1> USE DEF Follows
<1>1. ASSUME NEW n \in DOMAIN received \ {1} PROVE received[n - 1].key <= received[n].key
  <2>1. received \in Seq(Elements) /\ InOrder(received)
    BY DEF Typed, ClientSound
  <2>2. n - 1 \in DOMAIN received /\ n - 1 \in 1 .. n - 1 /\ n \in DOMAIN received
    BY <2>1
  <2>3. received[n - 1].key < received[n].key
    BY <2>1, <2>2 DEF InOrder
  <2>4. received[n - 1] \in Elements /\ received[n] \in Elements
    BY <2>1, <2>2
  <2> QED
    BY <2>3, <2>4 DEF Elements
<1>2. ASSUME Settled
      PROVE  /\ \A id \in DOMAIN served : \E e \in Entries : e.id = id /\ e.key = served[id].key /\ e.stacks = served[id].stacks
             /\ \A e \in Entries : e.id \in DOMAIN served /\ e.key = served[e.id].key /\ e.stacks = served[e.id].stacks
  <2>1. flight = <<>> /\ answers = <<>> /\ base.array = arrayKey /\ Len(retired) = 0
    BY <1>2 DEF Settled, Numbered
  <2>2. 1 \in DOMAIN Bases /\ Bases[1] = base /\ Reached(1)
    BY <2>1, BasesAre DEF Bases, Reached
  <2>3. Covers(base) /\ Tells(base)
    BY <2>2 DEF ClientCovers, BasesTell
  <2>4. \A id \in DOMAIN served : served[id].rep <= base.array /\ served[id].key = id
    BY <2>1 DEF Numbered, Typed
  <2>5. \A e \in Entries : e.recent <= base.array /\ e.key = e.id
    BY <2>1 DEF ClientSound, SoundElement
  <2>6. \A id \in DOMAIN served : \E e \in Entries : e.id = id /\ e.stacks = served[id].stacks
    BY <2>3, <2>4 DEF Covers
  <2>7. \A e \in Entries : e.id \in DOMAIN served
    BY <2>1, <2>3, <2>5 DEF Covers, Tells
  <2>8. \A e, f \in Entries : e.id = f.id => e = f
    BY ListIs
  <2> QED
    BY <2>4, <2>5, <2>6, <2>7, <2>8
<1>3. ASSUME Settled
      PROVE  {[id |-> e.id, key |-> e.key, stacks |-> e.stacks] : e \in Entries}
               = {[id |-> id, key |-> served[id].key, stacks |-> served[id].stacks] : id \in DOMAIN served}
  <2> DEFINE there == {[id |-> e.id, key |-> e.key, stacks |-> e.stacks] : e \in Entries}
             here == {[id |-> id, key |-> served[id].key, stacks |-> served[id].stacks] : id \in DOMAIN served}
  <2>1. there \subseteq here
    <3> SUFFICES ASSUME NEW e \in Entries
                 PROVE  [id |-> e.id, key |-> e.key, stacks |-> e.stacks] \in here
      OBVIOUS
    <3> QED
      BY <1>2, <1>3
  <2>2. here \subseteq there
    <3> SUFFICES ASSUME NEW id \in DOMAIN served
                 PROVE  [id |-> id, key |-> served[id].key, stacks |-> served[id].stacks] \in there
      OBVIOUS
    <3> QED
      BY <1>2, <1>3
  <2> QED
    BY <2>1, <2>2
<1> QED
  BY <1>1, <1>3 DEF ClientsFollowServer, ClientGetsWhatIsServed

\* However updates are lost, a client whose server has nothing left to send
\* holds the server's entries, its array is sorted, and its proxies have heard
\* of their stacks (ClientsFollowServer): for every number of entries, updates
\* under way and losses.
THEOREM ClientsAlwaysFollow == ReplicationSpec => []ClientsFollowServer
<1>1. Follows => ClientsFollowServer
  BY FollowsMeans
<1> QED
  BY <1>1, BasesAreCovered, PTL

-----------------------------------------------------------------------------
(* ContainerSaves: the inductive invariant.                                 *)

\* What is kept about keys, below what a generator gave out, is of the items there.
KeysUpTo(f, last) == \A k \in DOMAIN f : k \in Int /\ KeyGenReset < k /\ k <= last
AboutThese(kept, content) == \A k \in DOMAIN kept \cap DOMAIN content : kept[k].item = content[k]

ContentKeyed ==
    /\ DOMAIN entries = Containers /\ DOMAIN gen = Containers
    /\ \A c \in Containers : gen[c] \in Int /\ KeyGenReset <= gen[c] /\ KeysUpTo(entries[c], gen[c])

\* An array is of an extension that the container reaches; the chest has some
\* only while it is registered, in a Box that Root has.
ArraysOf(group, adopted) ==
    { <<Root, x>> : x \in group } \cup (IF adopted THEN { <<Chest, x>> : x \in {ChestData} \cup group } ELSE {})
ArraysAreReached ==
    /\ dynamic \in {<< >>, <<Later>>} /\ parented \in BOOLEAN /\ ready \subseteq Containers
    /\ parented => ChestInRoot(entries[Root])
    /\ DOMAIN data \subseteq ArraysOf({Metadata} \cup ToSet(dynamic), parented)

KeptWell(d, content) ==
    \A p \in DOMAIN d : DOMAIN d[p] \subseteq DOMAIN content[p[1]] /\ AboutThese(d[p], content[p[1]])
DataHasStacks == KeptWell(data, entries)

\* What a save has under the name of an extension of Root is about Root.
SaveIsOfRoot ==
    saved.there =>
      /\ \A c \in Containers : saved.gen[c] \in Int /\ KeysUpTo(saved.entries[c], saved.gen[c])
      /\ \A x \in {Metadata, Later} : Identifier[x] \in DOMAIN saved.data =>
           /\ DOMAIN saved.data[Identifier[x]] \subseteq DOMAIN saved.entries[Root]
           /\ AboutThese(saved.data[Identifier[x]], saved.entries[Root])
      /\ \A x \in DOMAIN saved.was :
           /\ x \in {Metadata, Later} /\ Identifier[x] \in DOMAIN saved.data
           /\ saved.data[Identifier[x]] = saved.was[x]

\* What Root may claim yet is about keys that its generator does not give again.
UnclaimedIsOfRoot ==
    Root \in holders /\ Identifier[Later] \in DOMAIN unclaimed =>
      LET owed == unclaimed[Identifier[Later]]
      IN  KeysUpTo(owed, gen[Root]) /\ AboutThese(owed, entries[Root])

SavesInv == ContentKeyed /\ ArraysAreReached /\ DataHasStacks /\ SaveIsOfRoot /\ UnclaimedIsOfRoot
DataFollows == ~astray => SavesInv

\* Naturals that are some have a least one.
LEMMA LeastNatural ==
  ASSUME NEW S \in SUBSET Nat, NEW n \in S
  PROVE  \E m \in S : \A k \in S : m <= k
<1> DEFINE less == {p \in Nat \X Nat : p[1] < p[2]}
<1>1. PICK m \in S : \A k \in S : <<k, m>> \notin less
  BY NatLessThanWellFounded, WFMin DEF OpToRel
<1>2. \A k \in S : <<k, m>> \in Nat \X Nat
  OBVIOUS
<1>3. \A k \in S : ~ k < m
  BY <1>1, <1>2
<1> QED
  BY <1>3

-----------------------------------------------------------------------------
(* The operators.                                                           *)

LEMMA EmptyIs == DOMAIN Empty = {}
  BY DEF Empty

LEMMA MergedIs ==
    ASSUME NEW f, NEW g
    PROVE  /\ DOMAIN Merged(f, g) = DOMAIN f \cup DOMAIN g
           /\ \A k \in DOMAIN g : Merged(f, g)[k] = g[k]
           /\ \A k \in DOMAIN f \ DOMAIN g : Merged(f, g)[k] = f[k]
  BY DEF Merged

LEMMA SingleIs ==
    ASSUME NEW k, NEW v
    PROVE  DOMAIN Single(k, v) = {k} /\ Single(k, v)[k] = v
  BY DEF Single

LEMMA WithoutIs ==
    ASSUME NEW f, NEW S
    PROVE  /\ DOMAIN Without(f, S) = DOMAIN f \ S
           /\ \A k \in DOMAIN f \ S : Without(f, S)[k] = f[k]
  BY DEF Without

LEMMA FreshIs ==
    ASSUME NEW d, NEW pairs
    PROVE  /\ DOMAIN Fresh(d, pairs) = DOMAIN d \cup pairs
           /\ \A p \in DOMAIN d : Fresh(d, pairs)[p] = d[p]
           /\ \A p \in pairs \ DOMAIN d : DOMAIN Fresh(d, pairs)[p] = {}
<1> DEFINE none == [p \in pairs |-> Empty]
<1>1. DOMAIN none = pairs /\ \A p \in pairs : DOMAIN none[p] = {}
  BY EmptyIs
<1>2. Fresh(d, pairs) = Merged(none, d)
  BY DEF Fresh
<1>3. /\ DOMAIN Merged(none, d) = DOMAIN none \cup DOMAIN d
      /\ \A k \in DOMAIN d : Merged(none, d)[k] = d[k]
      /\ \A k \in DOMAIN none \ DOMAIN d : Merged(none, d)[k] = none[k]
  BY MergedIs
<1> HIDE DEF none
<1> QED
  BY <1>1, <1>2, <1>3

\* Sequences of an extension, two or three.
LEMMA JoinedTwo ==
    ASSUME NEW a, NEW b
    PROVE  <<a>> \o <<b>> = <<a, b>>
<1>1. <<a>> \in Seq({a, b}) /\ <<b>> \in Seq({a, b})
  OBVIOUS
<1> DEFINE q == <<a>> \o <<b>>
           r == <<a, b>>
<1>2. q \in Seq({a, b}) /\ Len(q) = 2 /\ q[1] = a /\ q[2] = b
  BY <1>1
<1>3. q = [i \in 1..2 |-> q[i]]
  BY <1>2
<1>4. r = [i \in 1..2 |-> r[i]] /\ r[1] = a /\ r[2] = b
  OBVIOUS
<1>5. \A i \in 1..2 : i = 1 \/ i = 2
  OBVIOUS
<1> HIDE DEF q, r
<1>6. q = r
  BY <1>2, <1>3, <1>4, <1>5
<1> QED
  BY <1>6 DEF q, r

LEMMA JoinedThree ==
    ASSUME NEW a, NEW b, NEW c
    PROVE  <<a>> \o <<b, c>> = <<a, b, c>>
<1>1. <<a>> \in Seq({a, b, c}) /\ <<b, c>> \in Seq({a, b, c})
  OBVIOUS
<1> DEFINE q == <<a>> \o <<b, c>>
           r == <<a, b, c>>
<1>2. q \in Seq({a, b, c}) /\ Len(q) = 3 /\ q[1] = a /\ q[2] = b /\ q[3] = c
  BY <1>1
<1>3. q = [i \in 1..3 |-> q[i]]
  BY <1>2
<1>4. r = [i \in 1..3 |-> r[i]] /\ r[1] = a /\ r[2] = b /\ r[3] = c
  OBVIOUS
<1>5. \A i \in 1..3 : i = 1 \/ i = 2 \/ i = 3
  OBVIOUS
<1> HIDE DEF q, r
<1>6. q = r
  BY <1>2, <1>3, <1>4, <1>5
<1> QED
  BY <1>6 DEF q, r

LEMMA SetsOfShort ==
    ASSUME NEW a, NEW b
    PROVE  ToSet(<< >>) = {} /\ ToSet(<<a>>) = {a} /\ ToSet(<<a, b>>) = {a, b}
  BY DEF ToSet

LEMMA SetOfThree ==
  ASSUME NEW a, NEW b, NEW c
  PROVE  ToSet(<<a, b, c>>) = {a, b, c}
<1> DEFINE q == <<a, b, c>>
<1>1. DOMAIN q = 1..3 /\ 1..3 = {1, 2, 3} /\ q[1] = a /\ q[2] = b /\ q[3] = c
  OBVIOUS
<1>2. ToSet(q) = { q[i] : i \in DOMAIN q }
  BY DEF ToSet
<1> HIDE DEF q
<1>3. ToSet(q) = {a, b, c}
  BY <1>1, <1>2
<1> QED
  BY <1>3 DEF q

LEMMA GroupsAre ==
    ASSUME dynamic \in {<< >>, <<Later>>}
    PROVE  /\ ToSet(RootGroup) = {Metadata} \cup ToSet(dynamic)
           /\ ToSet(dynamic) = IF dynamic = << >> THEN {} ELSE {Later}
           /\ \A a \in BOOLEAN : RecursiveExtensions(Root, a) = RootGroup
           /\ ToSet(RecursiveExtensions(Chest, FALSE)) = {ChestData}
           /\ ToSet(RecursiveExtensions(Chest, TRUE)) = {ChestData} \cup ToSet(RootGroup)
           /\ RootGroup = IF dynamic = << >> THEN <<Metadata>> ELSE <<Metadata, Later>>
<1>1. CASE dynamic = << >>
  <2>1. RootGroup = <<Metadata>>
    BY <1>1 DEF RootGroup
  <2>2. OwnGroup(Root) = RootGroup /\ OwnGroup(Chest) = <<ChestData>>
    BY ContainerSavesAssumption DEF OwnGroup
  <2>3. <<Metadata>> \o << >> = <<Metadata>> /\ <<ChestData>> \o << >> = <<ChestData>>
    OBVIOUS
  <2>4. \A a \in BOOLEAN : RecursiveExtensions(Root, a) = RootGroup
    BY <2>1, <2>2, <2>3, ContainerSavesAssumption DEF RecursiveExtensions
  <2>5. RecursiveExtensions(Chest, FALSE) = <<ChestData>>
    BY <2>2, <2>3 DEF RecursiveExtensions
  <2>6. RecursiveExtensions(Chest, TRUE) = <<ChestData>> \o <<Metadata>>
    BY <2>1, <2>2 DEF RecursiveExtensions
  <2>7. RecursiveExtensions(Chest, TRUE) = <<ChestData, Metadata>>
    BY <2>6, JoinedTwo
  <2>8. ToSet(<< >>) = {} /\ ToSet(<<Metadata>>) = {Metadata} /\ ToSet(<<ChestData>>) = {ChestData}
    BY ONLY SetsOfShort
  <2>9. ToSet(<<ChestData, Metadata>>) = {ChestData, Metadata}
    BY ONLY SetsOfShort
  <2> QED
    BY <1>1, <2>1, <2>4, <2>5, <2>7, <2>8, <2>9
<1>2. CASE dynamic = <<Later>>
  <2>1. RootGroup = <<Metadata, Later>>
    BY <1>2, JoinedTwo DEF RootGroup
  <2>2. OwnGroup(Root) = RootGroup /\ OwnGroup(Chest) = <<ChestData>>
    BY ContainerSavesAssumption DEF OwnGroup
  <2>3. <<Metadata, Later>> \o << >> = <<Metadata, Later>> /\ <<ChestData>> \o << >> = <<ChestData>>
    OBVIOUS
  <2>4. \A a \in BOOLEAN : RecursiveExtensions(Root, a) = RootGroup
    BY <2>1, <2>2, <2>3, ContainerSavesAssumption DEF RecursiveExtensions
  <2>5. RecursiveExtensions(Chest, FALSE) = <<ChestData>>
    BY <2>2, <2>3 DEF RecursiveExtensions
  <2>6. RecursiveExtensions(Chest, TRUE) = <<ChestData>> \o <<Metadata, Later>>
    BY <2>1, <2>2 DEF RecursiveExtensions
  <2>7. RecursiveExtensions(Chest, TRUE) = <<ChestData, Metadata, Later>>
    BY <2>6, JoinedThree
  <2>8. dynamic # << >>
    BY <1>2
  <2>9. /\ ToSet(dynamic) = {Later} /\ ToSet(RootGroup) = {Metadata, Later}
        /\ ToSet(RecursiveExtensions(Chest, FALSE)) = {ChestData}
        /\ ToSet(RecursiveExtensions(Chest, TRUE)) = {ChestData, Metadata, Later}
    <3>1. ToSet(<<Later>>) = {Later} /\ ToSet(<<Metadata, Later>>) = {Metadata, Later}
      BY ONLY SetsOfShort
    <3>2. ToSet(<<ChestData>>) = {ChestData}
      BY ONLY SetsOfShort
    <3>3. ToSet(<<ChestData, Metadata, Later>>) = {ChestData, Metadata, Later}
      BY ONLY SetOfThree, Zenon
    <3> QED
      BY <1>2, <2>1, <2>5, <2>7, <3>1, <3>2, <3>3
  <2> HIDE <1>2
  <2> QED
    BY <2>1, <2>4, <2>8, <2>9
<1> QED
  BY <1>1, <1>2

\* Pairs of a container and an extension are told apart by either.
LEMMA PairsAre ==
    ASSUME NEW group
    PROVE  /\ \A x \in group : <<Root, x>> \in ArraysOf(group, TRUE) /\ <<Root, x>> \in ArraysOf(group, FALSE)
           /\ \A a \in BOOLEAN : \A p \in ArraysOf(group, a) :
                /\ p = <<p[1], p[2]>>
                /\ \/ p[1] = Root /\ p[2] \in group
                   \/ a /\ p[1] = Chest /\ p[2] \in {ChestData} \cup group
  BY DEF ArraysOf

\* A container that is told of all its extensions' arrays has them all.
LEMMA WrappedIs ==
    ASSUME dynamic \in {<< >>, <<Later>>}
    PROVE  LET group == {Metadata} \cup ToSet(dynamic)
           IN  /\ Wrapped(Root, RootGroup) = ArraysOf(group, FALSE)
               /\ Wrapped(Root, RootGroup) \cup Wrapped(Chest, RecursiveExtensions(Chest, TRUE)) = ArraysOf(group, TRUE)
               /\ Wrapped(Chest, RecursiveExtensions(Chest, TRUE)) = { <<Chest, x>> : x \in {ChestData} \cup group }
  BY GroupsAre DEF Wrapped, ArraysOf

LEMMA FewerArrays ==
    ASSUME NEW group, NEW a \in BOOLEAN, NEW b \in BOOLEAN, a => b, NEW smaller \in SUBSET group
    PROVE  ArraysOf(smaller, a) \subseteq ArraysOf(group, b)
  BY DEF ArraysOf

-----------------------------------------------------------------------------
(* What is done to arrays keeps them about the stacks that are there.       *)

LEMMA FreshKeeps ==
    ASSUME NEW d, NEW pairs, NEW content, KeptWell(d, content)
    PROVE  KeptWell(Fresh(d, pairs), content)
<1> SUFFICES ASSUME NEW p \in DOMAIN Fresh(d, pairs)
             PROVE  /\ DOMAIN Fresh(d, pairs)[p] \subseteq DOMAIN content[p[1]]
                    /\ AboutThese(Fresh(d, pairs)[p], content[p[1]])
  BY DEF KeptWell
<1>0. /\ DOMAIN Fresh(d, pairs) = DOMAIN d \cup pairs
      /\ \A q \in DOMAIN d : Fresh(d, pairs)[q] = d[q]
      /\ \A q \in pairs \ DOMAIN d : DOMAIN Fresh(d, pairs)[q] = {}
  BY FreshIs
<1>1. CASE p \in DOMAIN d
  BY <1>0, <1>1 DEF KeptWell
<1>2. CASE p \notin DOMAIN d
  <2>1. DOMAIN Fresh(d, pairs)[p] = {}
    BY <1>0, <1>2
  <2> QED
    BY <2>1 DEF AboutThese
<1> QED
  BY <1>1, <1>2

LEMMA WithoutKeeps ==
    ASSUME NEW d, NEW pairs, NEW content, KeptWell(d, content)
    PROVE  KeptWell(Without(d, pairs), content)
<1>1. /\ DOMAIN Without(d, pairs) = DOMAIN d \ pairs
      /\ \A q \in DOMAIN d \ pairs : Without(d, pairs)[q] = d[q]
  BY WithoutIs
<1> QED
  BY <1>1 DEF KeptWell

\* What is kept about stacks that stay does not mind those that come.
LEMMA MoreKeeps ==
    ASSUME NEW d, NEW content, NEW more, KeptWell(d, content),
           \A p \in DOMAIN d : /\ DOMAIN content[p[1]] \subseteq DOMAIN more[p[1]]
                               /\ \A k \in DOMAIN content[p[1]] : more[p[1]][k] = content[p[1]][k]
    PROVE  KeptWell(d, more)
  BY DEF KeptWell, AboutThese

LEMMA PostRemovalKeeps ==
    ASSUME ArraysAreReached, ContentKeyed, NEW c \in Containers, NEW keys, KeptWell(data, entries),
           NEW content, content = [entries EXCEPT ![c] = Without(@, keys)]
    PROVE  DOMAIN PostRemoval(data, c, keys) = DOMAIN data /\ KeptWell(PostRemoval(data, c, keys), content)
<1>1. DOMAIN PostRemoval(data, c, keys) = DOMAIN data
  BY DEF PostRemoval
<1> SUFFICES ASSUME NEW p \in DOMAIN data
             PROVE  LET d == PostRemoval(data, c, keys)
                    IN  DOMAIN d[p] \subseteq DOMAIN content[p[1]] /\ AboutThese(d[p], content[p[1]])
  BY <1>1 DEF KeptWell
<1> DEFINE d == PostRemoval(data, c, keys)
<1>2. d[p] = IF p[1] = c /\ p[2] \in ToSet(RecursiveExtensions(c, parented)) THEN Without(data[p], keys) ELSE data[p]
  BY DEF PostRemoval
<1>3. p[1] \in Containers /\ p[2] \in ToSet(RecursiveExtensions(p[1], parented))
  <2>1. p \in ArraysOf({Metadata} \cup ToSet(dynamic), parented) /\ parented \in BOOLEAN
    BY DEF ArraysAreReached
  <2>2. \/ p[1] = Root /\ p[2] \in {Metadata} \cup ToSet(dynamic)
        \/ parented /\ p[1] = Chest /\ p[2] \in {ChestData} \cup {Metadata} \cup ToSet(dynamic)
    <3> DEFINE group == {Metadata} \cup ToSet(dynamic)
    <3>1. \A a \in BOOLEAN : \A q \in ArraysOf(group, a) :
            \/ q[1] = Root /\ q[2] \in group
            \/ a /\ q[1] = Chest /\ q[2] \in {ChestData} \cup group
      BY PairsAre
    <3> HIDE DEF group
    <3>2. \/ p[1] = Root /\ p[2] \in group
          \/ parented /\ p[1] = Chest /\ p[2] \in {ChestData} \cup group
      BY <2>1, <3>1 DEF group
    <3> QED
      BY <3>2 DEF group
  <2>3. /\ ToSet(RecursiveExtensions(Root, parented)) = {Metadata} \cup ToSet(dynamic)
        /\ parented => ToSet(RecursiveExtensions(Chest, parented)) = {ChestData} \cup {Metadata} \cup ToSet(dynamic)
    BY GroupsAre DEF ArraysAreReached
  <2> QED
    BY <2>2, <2>3 DEF Containers
<1>4. DOMAIN data[p] \subseteq DOMAIN entries[p[1]] /\ AboutThese(data[p], entries[p[1]])
  BY DEF KeptWell
<1> HIDE DEF d
<1>5. CASE p[1] = c
  <2>1. d[p] = Without(data[p], keys)
    BY <1>2, <1>3, <1>5
  <2>2. content[p[1]] = Without(entries[p[1]], keys)
    BY <1>3, <1>5 DEF ContentKeyed
  <2>3. /\ DOMAIN d[p] = DOMAIN data[p] \ keys /\ \A k \in DOMAIN d[p] : d[p][k] = data[p][k]
        /\ DOMAIN content[p[1]] = DOMAIN entries[p[1]] \ keys
        /\ \A k \in DOMAIN content[p[1]] : content[p[1]][k] = entries[p[1]][k]
    <3>1. /\ DOMAIN Without(data[p], keys) = DOMAIN data[p] \ keys
          /\ \A k \in DOMAIN data[p] \ keys : Without(data[p], keys)[k] = data[p][k]
      BY WithoutIs
    <3>2. /\ DOMAIN Without(entries[p[1]], keys) = DOMAIN entries[p[1]] \ keys
          /\ \A k \in DOMAIN entries[p[1]] \ keys : Without(entries[p[1]], keys)[k] = entries[p[1]][k]
      BY WithoutIs
    <3> QED
      BY <2>1, <2>2, <3>1, <3>2
  <2>4. DOMAIN d[p] \subseteq DOMAIN content[p[1]] /\ AboutThese(d[p], content[p[1]])
    BY <1>4, <2>3 DEF AboutThese
  <2> QED
    BY <2>4 DEF d
<1>6. CASE p[1] # c
  <2>1. d[p] = data[p] /\ content[p[1]] = entries[p[1]]
    BY <1>2, <1>3, <1>6 DEF ContentKeyed
  <2> QED
    BY <1>4, <2>1 DEF d
<1> QED
  BY <1>5, <1>6

-----------------------------------------------------------------------------
(* The calls, one by one.                                                   *)

LEMMA SavesFromStart == Init => SavesInv
<1> SUFFICES ASSUME Init PROVE SavesInv
  OBVIOUS
<1>1. /\ DOMAIN data = {} /\ DOMAIN unclaimed = {} /\ ~saved.there /\ holders = {}
      /\ \A c \in Containers : DOMAIN entries[c] = {} /\ gen[c] = KeyGenReset
      /\ DOMAIN entries = Containers /\ DOMAIN gen = Containers
  BY EmptyIs DEF Init, NoSave
<1>2. ContentKeyed
  BY <1>1 DEF ContentKeyed, KeysUpTo, KeyGenReset
<1>3. ArraysAreReached
  BY <1>1 DEF ArraysAreReached, Init
<1>4. DataHasStacks
  BY <1>1 DEF DataHasStacks, KeptWell
<1>5. SaveIsOfRoot /\ UnclaimedIsOfRoot
  BY <1>1 DEF SaveIsOfRoot, UnclaimedIsOfRoot
<1> QED
  BY <1>2, <1>3, <1>4, <1>5 DEF SavesInv

LEMMA SavesRegister == ASSUME SavesInv, InitializeNetObject PROVE SavesInv'
<1> DEFINE group == {Metadata} \cup ToSet(dynamic)
<1>1. /\ ready' = ready \cup {Root} /\ data' = Fresh(data, Wrapped(Root, RootGroup))
      /\ UNCHANGED <<contentVars, dynamic, parented, saveVars>>
  BY DEF InitializeNetObject
<1>2. ContentKeyed' /\ SaveIsOfRoot' /\ UnclaimedIsOfRoot'
  BY <1>1 DEF SavesInv, ContentKeyed, SaveIsOfRoot, UnclaimedIsOfRoot, contentVars, saveVars, Containers
<1>3. ArraysAreReached'
  <2>1. DOMAIN data' = DOMAIN data \cup ArraysOf(group, FALSE)
    <3>1. Wrapped(Root, RootGroup) = ArraysOf(group, FALSE)
      BY WrappedIs DEF SavesInv, ArraysAreReached
    <3>2. DOMAIN Fresh(data, Wrapped(Root, RootGroup)) = DOMAIN data \cup Wrapped(Root, RootGroup)
      BY FreshIs
    <3> QED
      BY <1>1, <3>1, <3>2
  <2>2. ArraysOf(group, FALSE) \subseteq ArraysOf(group, parented)
    BY FewerArrays DEF SavesInv, ArraysAreReached
  <2> HIDE DEF group
  <2>3. DOMAIN data' \subseteq ArraysOf(group, parented)
    BY <2>1, <2>2 DEF SavesInv, ArraysAreReached, group
  <2> QED
    BY <1>1, <2>3 DEF SavesInv, ArraysAreReached, contentVars, Containers, group
<1>4. DataHasStacks'
  BY <1>1, FreshKeeps DEF SavesInv, DataHasStacks, contentVars
<1> QED
  BY <1>2, <1>3, <1>4 DEF SavesInv

LEMMA SavesDeregister == ASSUME SavesInv, DeinitializeNetObject PROVE SavesInv'
<1>1. /\ ready' = ready \ {Root} /\ data' = Without(data, Wrapped(Root, RootGroup))
      /\ UNCHANGED <<contentVars, dynamic, parented, saveVars>>
  BY DEF DeinitializeNetObject
<1>2. ContentKeyed' /\ SaveIsOfRoot' /\ UnclaimedIsOfRoot'
  BY <1>1 DEF SavesInv, ContentKeyed, SaveIsOfRoot, UnclaimedIsOfRoot, contentVars, saveVars, Containers
<1>3. ArraysAreReached'
  <2>1. DOMAIN Without(data, Wrapped(Root, RootGroup)) = DOMAIN data \ Wrapped(Root, RootGroup)
    BY WithoutIs
  <2> QED
    BY <1>1, <2>1 DEF SavesInv, ArraysAreReached, contentVars, Containers
<1>4. DataHasStacks'
  BY <1>1, WithoutKeeps DEF SavesInv, DataHasStacks, contentVars
<1> QED
  BY <1>2, <1>3, <1>4 DEF SavesInv

\* A key that is new leaves what is kept where it was.
LEMMA AddedStack ==
    ASSUME SavesInv, NEW c \in Containers, NEW item,
           entries' = [entries EXCEPT ![c] = Merged(@, Single(gen[c] + 1, item))],
           gen' = [gen EXCEPT ![c] = @ + 1]
    PROVE  /\ ContentKeyed'
           /\ \A b \in Containers :
                /\ DOMAIN entries[b] \subseteq DOMAIN entries'[b]
                /\ \A k \in DOMAIN entries[b] : entries'[b][k] = entries[b][k]
           /\ \A k \in DOMAIN entries'[c] : k \in DOMAIN entries[c] \/ k = gen[c] + 1
           /\ gen[c] + 1 \in DOMAIN entries'[c] /\ entries'[c][gen[c] + 1] = item
           /\ \A b \in Containers : gen[b] <= gen'[b] /\ (b # c => entries'[b] = entries[b])
           /\ gen'[c] = gen[c] + 1
<1> DEFINE k == gen[c] + 1
           grown == Merged(entries[c], Single(k, item))
<1>1. /\ DOMAIN entries = Containers /\ DOMAIN gen = Containers
      /\ \A b \in Containers : gen[b] \in Int /\ KeyGenReset <= gen[b] /\ KeysUpTo(entries[b], gen[b])
  BY DEF SavesInv, ContentKeyed
<1>2. entries'[c] = grown /\ gen'[c] = k /\ k \in Int /\ DOMAIN entries' = Containers /\ DOMAIN gen' = Containers
  BY <1>1
<1>3. \A b \in Containers : b # c => entries'[b] = entries[b] /\ gen'[b] = gen[b]
  BY <1>1
<1>4. k \notin DOMAIN entries[c]
  BY <1>1 DEF KeysUpTo
<1>5. DOMAIN Single(k, item) = {k} /\ Single(k, item)[k] = item
  BY SingleIs
<1>6. /\ DOMAIN grown = DOMAIN entries[c] \cup DOMAIN Single(k, item)
      /\ \A j \in DOMAIN Single(k, item) : grown[j] = Single(k, item)[j]
      /\ \A j \in DOMAIN entries[c] \ DOMAIN Single(k, item) : grown[j] = entries[c][j]
  BY MergedIs
<1> HIDE DEF grown
<1>7. DOMAIN grown = DOMAIN entries[c] \cup {k} /\ grown[k] = item /\ \A j \in DOMAIN entries[c] : grown[j] = entries[c][j]
  BY <1>4, <1>5, <1>6
<1>8. ContentKeyed'
  <2>1. SUFFICES ASSUME NEW b \in Containers
                 PROVE  gen'[b] \in Int /\ KeyGenReset <= gen'[b] /\ KeysUpTo(entries'[b], gen'[b])
    BY <1>2 DEF ContentKeyed, Containers
  <2>2. CASE b = c
    BY <1>1, <1>2, <1>7, <2>2 DEF KeysUpTo, KeyGenReset
  <2>3. CASE b # c
    BY <1>1, <1>3, <2>3
  <2> QED
    BY <2>2, <2>3
<1>9. \A b \in Containers : gen[b] <= gen'[b]
  BY <1>1, <1>2, <1>3
<1> QED
  BY <1>2, <1>3, <1>7, <1>8, <1>9

LEMMA SavesAdd == ASSUME SavesInv, NEW c \in Containers, NEW item, AddItemStack(c, item) PROVE SavesInv'
<1> DEFINE group == {Metadata} \cup ToSet(dynamic)
<1>1. /\ entries' = [entries EXCEPT ![c] = Merged(@, Single(gen[c] + 1, item))]
      /\ gen' = [gen EXCEPT ![c] = @ + 1]
      /\ item = Box => c = Root
      /\ ready' = IF item = Box THEN ready \cup {Chest} ELSE ready
      /\ parented' = (parented \/ item = Box)
      /\ data' = IF item = Box THEN TakeOwnership(data) ELSE data
      /\ UNCHANGED <<dynamic, saveVars>>
  BY DEF AddItemStack
<1>2. /\ ContentKeyed'
      /\ \A b \in Containers :
           /\ DOMAIN entries[b] \subseteq DOMAIN entries'[b]
           /\ \A k \in DOMAIN entries[b] : entries'[b][k] = entries[b][k]
      /\ \A k \in DOMAIN entries'[c] : k \in DOMAIN entries[c] \/ k = gen[c] + 1
      /\ gen[c] + 1 \in DOMAIN entries'[c] /\ entries'[c][gen[c] + 1] = item
      /\ \A b \in Containers : gen[b] <= gen'[b] /\ (b # c => entries'[b] = entries[b])
      /\ gen'[c] = gen[c] + 1
  BY <1>1, AddedStack
<1>3. /\ dynamic \in {<< >>, <<Later>>} /\ parented \in BOOLEAN /\ ready \subseteq Containers
      /\ parented => ChestInRoot(entries[Root])
      /\ DOMAIN data \subseteq ArraysOf(group, parented) /\ KeptWell(data, entries)
  BY DEF SavesInv, ArraysAreReached, DataHasStacks
<1>4. DOMAIN data' \subseteq ArraysOf(group, parented') /\ KeptWell(data', entries)
  <2>1. CASE item = Box
    <3>1. data' = Fresh(data, Wrapped(Chest, RecursiveExtensions(Chest, TRUE))) /\ parented'
      BY <1>1, <2>1 DEF TakeOwnership
    <3>2. DOMAIN data' = DOMAIN data \cup Wrapped(Chest, RecursiveExtensions(Chest, TRUE))
      BY <3>1, FreshIs
    <3>3. Wrapped(Chest, RecursiveExtensions(Chest, TRUE)) \subseteq ArraysOf(group, TRUE)
      BY <1>3, WrappedIs
    <3>4. ArraysOf(group, parented) \subseteq ArraysOf(group, TRUE)
      BY <1>3, FewerArrays
    <3>5. parented' = TRUE
      BY <1>1, <2>1
    <3> HIDE DEF group
    <3>6. DOMAIN data' \subseteq ArraysOf(group, parented')
      BY <1>3, <3>2, <3>3, <3>4, <3>5
    <3> QED
      BY <1>3, <3>1, <3>6, FreshKeeps
  <2>2. CASE item # Box
    <3>1. parented' = parented
      BY <1>1, <1>3, <2>2
    <3> QED
      BY <1>1, <1>3, <2>2, <3>1
  <2> QED
    BY <2>1, <2>2
<1>5. ArraysAreReached'
  <2>1. parented' => ChestInRoot(entries'[Root])
    <3>1. CASE item = Box
      BY <1>1, <1>2, <3>1 DEF ChestInRoot
    <3>2. CASE item # Box
      BY <1>1, <1>2, <1>3, <3>2 DEF ChestInRoot, Containers
    <3> QED
      BY <3>1, <3>2
  <2>2. ready' \subseteq Containers' /\ parented' \in BOOLEAN
    BY <1>1, <1>3 DEF Containers
  <2> QED
    BY <1>1, <1>3, <1>4, <2>1, <2>2 DEF ArraysAreReached
<1>6. DataHasStacks'
  <2>1. \A p \in DOMAIN data' : p[1] \in Containers
    <3>1. \A a \in BOOLEAN : \A q \in ArraysOf(group, a) : q[1] \in Containers
      BY PairsAre DEF Containers
    <3> HIDE DEF group
    <3> QED
      BY <1>1, <1>3, <1>4, <3>1
  <2>2. KeptWell(data', entries')
    BY <1>2, <1>4, <2>1, MoreKeeps
  <2> QED
    BY <2>2 DEF DataHasStacks
<1>7. SaveIsOfRoot'
  BY <1>1 DEF SavesInv, SaveIsOfRoot, saveVars, Containers
<1>8. UnclaimedIsOfRoot'
  <2> DEFINE owed == unclaimed[Identifier[Later]]
  <2>1. SUFFICES ASSUME Root \in holders, Identifier[Later] \in DOMAIN unclaimed
                 PROVE  KeysUpTo(owed, gen'[Root]) /\ AboutThese(owed, entries'[Root])
    BY <1>1 DEF UnclaimedIsOfRoot, saveVars
  <2>2. KeysUpTo(owed, gen[Root]) /\ AboutThese(owed, entries[Root])
    BY <2>1 DEF SavesInv, UnclaimedIsOfRoot
  <2>3. gen[Root] \in Int /\ gen'[Root] \in Int /\ gen[Root] <= gen'[Root]
    BY <1>2 DEF SavesInv, ContentKeyed, Containers
  <2> HIDE DEF owed
  <2>4. KeysUpTo(owed, gen'[Root])
    BY <2>2, <2>3 DEF KeysUpTo
  <2>5. AboutThese(owed, entries'[Root])
    <3>1. CASE c = Root
      <4>1. \A k \in DOMAIN owed \cap DOMAIN entries'[Root] : k \in DOMAIN entries[Root]
        BY <1>2, <2>2, <2>3, <3>1 DEF KeysUpTo
      <4> QED
        BY <1>2, <2>2, <4>1 DEF AboutThese, Containers
    <3>2. CASE c # Root
      BY <1>2, <2>2, <3>2 DEF Containers
    <3> QED
      BY <3>1, <3>2
  <2> QED
    BY <2>4, <2>5
<1> QED
  BY <1>2, <1>5, <1>6, <1>7, <1>8 DEF SavesInv

LEMMA SavesRemove ==
    ASSUME SavesInv, NEW c \in Containers, NEW k, NEW reason, RemoveStack(c, k, reason)
    PROVE  SavesInv'
<1> DEFINE group == {Metadata} \cup ToSet(dynamic)
           kept == PostRemoval(data, c, {k})
<1>1. /\ k \in DOMAIN entries[c]
      /\ entries' = [entries EXCEPT ![c] = Without(@, {k})]
      /\ IF entries[c][k] = Box
         THEN data' = ReleaseOwnership(kept) /\ ready' = ready \ {Chest} /\ parented' = FALSE
         ELSE data' = kept /\ UNCHANGED <<ready, parented>>
      /\ UNCHANGED <<gen, dynamic, saveVars>>
  BY DEF RemoveStack
<1>2. /\ dynamic \in {<< >>, <<Later>>} /\ parented \in BOOLEAN /\ ready \subseteq Containers
      /\ parented => ChestInRoot(entries[Root])
      /\ DOMAIN data \subseteq ArraysOf(group, parented) /\ KeptWell(data, entries)
      /\ ArraysAreReached /\ ContentKeyed
  BY DEF SavesInv, ArraysAreReached, DataHasStacks
<1>3. DOMAIN kept = DOMAIN data /\ KeptWell(kept, entries')
  BY <1>1, <1>2, PostRemovalKeeps
<1>4. /\ DOMAIN entries' = Containers /\ \A b \in Containers : b # c => entries'[b] = entries[b]
      /\ DOMAIN entries'[c] = DOMAIN entries[c] \ {k}
      /\ \A j \in DOMAIN entries'[c] : entries'[c][j] = entries[c][j]
  <2>1. /\ DOMAIN Without(entries[c], {k}) = DOMAIN entries[c] \ {k}
        /\ \A j \in DOMAIN entries[c] \ {k} : Without(entries[c], {k})[j] = entries[c][j]
    BY WithoutIs
  <2> QED
    BY <1>1, <1>2, <2>1 DEF ContentKeyed
<1> HIDE DEF kept
<1>5. ContentKeyed'
  BY <1>1, <1>2, <1>4 DEF ContentKeyed, KeysUpTo, Containers
<1>6. DOMAIN data' \subseteq ArraysOf(group, parented') /\ KeptWell(data', entries')
  <2>1. CASE entries[c][k] = Box
    <3> DEFINE chests == Wrapped(Chest, RecursiveExtensions(Chest, TRUE))
    <3>1. data' = Without(kept, chests) /\ parented' = FALSE
      BY <1>1, <2>1 DEF ReleaseOwnership
    <3>2. DOMAIN Without(kept, chests) = DOMAIN kept \ chests
      BY WithoutIs
    <3>3. ArraysOf(group, parented) \subseteq ArraysOf(group, TRUE)
      BY <1>2, FewerArrays
    <3>4. ArraysOf(group, TRUE) = ArraysOf(group, FALSE) \cup chests
      BY <1>2, WrappedIs
    <3> HIDE DEF chests, group
    <3>5. DOMAIN data' \subseteq ArraysOf(group, parented')
      BY <1>2, <1>3, <3>1, <3>2, <3>3, <3>4
    <3> QED
      BY <1>3, <3>1, <3>5, WithoutKeeps
  <2>2. CASE entries[c][k] # Box
    BY <1>1, <1>2, <1>3, <2>2
  <2> QED
    BY <2>1, <2>2
<1>7. ArraysAreReached'
  <2>1. parented' => ChestInRoot(entries'[Root])
    <3>1. SUFFICES ASSUME parented' PROVE ChestInRoot(entries'[Root])
      OBVIOUS
    <3>2. parented /\ entries[c][k] # Box
      BY <1>1, <3>1
    <3>3. PICK j \in DOMAIN entries[Root] : entries[Root][j] = Box
      BY <1>2, <3>2 DEF ChestInRoot
    <3>4. j \in DOMAIN entries'[Root] /\ entries'[Root][j] = Box
      BY <1>4, <3>2, <3>3 DEF Containers
    <3> QED
      BY <3>4 DEF ChestInRoot
  <2>2. ready' \subseteq Containers' /\ parented' \in BOOLEAN
    BY <1>1, <1>2 DEF Containers
  <2> QED
    BY <1>1, <1>2, <1>6, <2>1, <2>2 DEF ArraysAreReached
<1>8. DataHasStacks'
  BY <1>6 DEF DataHasStacks
<1>9. SaveIsOfRoot'
  BY <1>1 DEF SavesInv, SaveIsOfRoot, saveVars, Containers
<1>10. UnclaimedIsOfRoot'
  BY <1>1, <1>4 DEF SavesInv, UnclaimedIsOfRoot, saveVars, AboutThese, KeysUpTo, Containers
<1> QED
  BY <1>5, <1>7, <1>8, <1>9, <1>10 DEF SavesInv

LEMMA SavesEdit ==
    ASSUME SavesInv, NEW p \in DOMAIN data, NEW k, NEW tags, EditDataForHandle(p, k, tags), ~astray'
    PROVE  SavesInv'
<1> DEFINE value == IF k \in DOMAIN data[p] THEN Value(tags, data[p][k].item) ELSE Value(tags, ItemAt(p[1], k))
           edited == Merged(data[p], Single(k, value))
<1>1. /\ data' = [data EXCEPT ![p] = edited] /\ k \in DOMAIN entries[p[1]]
      /\ UNCHANGED <<contentVars, groupVars, saveVars>>
  BY DEF EditDataForHandle
<1>2. value.item = entries[p[1]][k]
  <2>1. k \in DOMAIN data[p] => data[p][k].item = entries[p[1]][k]
    BY <1>1 DEF SavesInv, DataHasStacks, KeptWell, AboutThese
  <2>2. \A t, i : Value(t, i).item = i
    BY DEF Value
  <2>3. ItemAt(p[1], k) = entries[p[1]][k]
    BY <1>1 DEF ItemAt
  <2> QED
    BY <2>1, <2>2, <2>3
<1>3. /\ DOMAIN edited = DOMAIN data[p] \cup {k} /\ edited[k] = value
      /\ \A j \in DOMAIN data[p] : j # k => edited[j] = data[p][j]
  <2> HIDE DEF value
  <2>1. DOMAIN Single(k, value) = {k} /\ Single(k, value)[k] = value
    BY SingleIs
  <2>2. /\ DOMAIN Merged(data[p], Single(k, value)) = DOMAIN data[p] \cup DOMAIN Single(k, value)
        /\ \A j \in DOMAIN Single(k, value) : Merged(data[p], Single(k, value))[j] = Single(k, value)[j]
        /\ \A j \in DOMAIN data[p] \ DOMAIN Single(k, value) : Merged(data[p], Single(k, value))[j] = data[p][j]
    BY MergedIs
  <2> QED
    BY <2>1, <2>2
<1> HIDE DEF value, edited
<1>4. DataHasStacks'
  <2>1. SUFFICES ASSUME NEW q \in DOMAIN data
                 PROVE  DOMAIN data'[q] \subseteq DOMAIN entries[q[1]] /\ AboutThese(data'[q], entries[q[1]])
    BY <1>1 DEF DataHasStacks, KeptWell, contentVars
  <2>2. DOMAIN data[q] \subseteq DOMAIN entries[q[1]] /\ AboutThese(data[q], entries[q[1]])
    BY DEF SavesInv, DataHasStacks, KeptWell
  <2>3. CASE q = p
    BY <1>1, <1>2, <1>3, <2>2, <2>3 DEF AboutThese
  <2>4. CASE q # p
    BY <1>1, <2>2, <2>4
  <2> QED
    BY <2>3, <2>4
<1>5. DOMAIN data' = DOMAIN data
  BY <1>1
<1>6. ArraysAreReached'
  BY <1>1, <1>5 DEF SavesInv, ArraysAreReached, contentVars, groupVars, Containers
<1>7. ContentKeyed' /\ SaveIsOfRoot' /\ UnclaimedIsOfRoot'
  BY <1>1 DEF SavesInv, ContentKeyed, SaveIsOfRoot, UnclaimedIsOfRoot, contentVars, saveVars, Containers
<1> QED
  BY <1>4, <1>6, <1>7 DEF SavesInv

LEMMA SavesForget == ASSUME SavesInv, RemoveExtension PROVE SavesInv'
<1> DEFINE lost == { <<c, Later>> : c \in Containers }
<1>1. PICK n \in DOMAIN dynamic : dynamic[n] = Later /\ dynamic' = RemoveAt(dynamic, n)
  BY DEF RemoveExtension
<1>2. data' = Without(data, lost) /\ UNCHANGED <<contentVars, ready, parented, saveVars>>
  BY DEF RemoveExtension
<1>3. ToSet(dynamic) = {Later} /\ dynamic' = << >> /\ ToSet(dynamic') = {}
  <2>1. dynamic = <<Later>>
    BY <1>1 DEF SavesInv, ArraysAreReached
  <2>2. n = 1
    BY <1>1, <2>1
  <2>3. RemoveAt(<<Later>>, 1) = << >>
    BY DEF RemoveAt
  <2> QED
    BY <1>1, <2>1, <2>2, <2>3, SetsOfShort
<1>4. ContentKeyed' /\ SaveIsOfRoot' /\ UnclaimedIsOfRoot'
  BY <1>2 DEF SavesInv, ContentKeyed, SaveIsOfRoot, UnclaimedIsOfRoot, contentVars, saveVars, Containers
<1>5. DOMAIN data' \subseteq ArraysOf({Metadata} \cup ToSet(dynamic'), parented)
  <2>1. DOMAIN data' = DOMAIN data \ lost
    BY <1>2, WithoutIs
  <2>2. DOMAIN data \subseteq ArraysOf({Metadata, Later}, parented)
    BY <1>3 DEF SavesInv, ArraysAreReached
  <2>3. ArraysOf({Metadata, Later}, parented) \ lost \subseteq ArraysOf({Metadata}, parented)
    BY DEF ArraysOf, Containers
  <2>4. {Metadata} \cup ToSet(dynamic') = {Metadata}
    BY <1>3
  <2> QED
    BY <2>1, <2>2, <2>3, <2>4
<1>6. ArraysAreReached'
  BY <1>2, <1>3, <1>5 DEF SavesInv, ArraysAreReached, contentVars, Containers
<1>7. DataHasStacks'
  BY <1>2, WithoutKeeps DEF SavesInv, DataHasStacks, contentVars
<1> QED
  BY <1>4, <1>6, <1>7 DEF SavesInv

-----------------------------------------------------------------------------
(* Saving.                                                                  *)

LEMMA IdentifiersAreOwn ==
    ASSUME NEW x \in {Metadata, ChestData, Later}, NEW y \in {Metadata, ChestData, Later}, Identifier[x] = Identifier[y]
    PROVE  x = y
  BY ContainerSavesAssumption

LEMMA ExtensionsInLine ==
    ASSUME dynamic \in {<< >>, <<Later>>}, NEW c \in Containers, NEW a \in BOOLEAN
    PROVE  RecursiveExtensions(c, a) \in Seq({Metadata, ChestData, Later})
<1>1. /\ <<Metadata>> \in Seq({Metadata, ChestData, Later}) /\ <<ChestData>> \in Seq({Metadata, ChestData, Later})
      /\ dynamic \in Seq({Metadata, ChestData, Later})
  <2>1. << >> \in Seq({Metadata, ChestData, Later}) /\ <<Later>> \in Seq({Metadata, ChestData, Later})
    OBVIOUS
  <2>2. <<Metadata>> \in Seq({Metadata, ChestData, Later}) /\ <<ChestData>> \in Seq({Metadata, ChestData, Later})
    OBVIOUS
  <2> QED
    BY <2>1, <2>2
<1>2. RootGroup \in Seq({Metadata, ChestData, Later})
  BY <1>1 DEF RootGroup
<1>3. OwnGroup(c) \in Seq({Metadata, ChestData, Later})
  BY <1>1, <1>2 DEF OwnGroup
<1>4. (IF c = Chest /\ a THEN RootGroup ELSE << >>) \in Seq({Metadata, ChestData, Later})
  BY <1>2
<1> QED
  BY <1>3, <1>4 DEF RecursiveExtensions

\* What a container adds is its own, and leaves what was there.
LEMMA ExtractedIs ==
    ASSUME dynamic \in {<< >>, <<Later>>}, parented \in BOOLEAN, NEW ravelled, NEW c \in Containers
    PROVE  LET xs == RecursiveExtensions(c, parented)
               all == Extracted(ravelled, c)
           IN  /\ DOMAIN ravelled \subseteq DOMAIN all
               /\ \A i \in DOMAIN ravelled : all[i] = ravelled[i]
               /\ \A i \in DOMAIN all \ DOMAIN ravelled :
                    \E x \in ToSet(xs) : HasData(c, x) /\ Identifier[x] = i /\ all[i] = data[<<c, x>>]
<1> DEFINE xs == RecursiveExtensions(c, parented)
           reads == { n \in DOMAIN xs : HasData(c, xs[n]) /\ \A j \in 1 .. n : ~Met(ravelled, c, xs, j) }
           read == { xs[k] : k \in reads }
           new == [ i \in { Identifier[x] : x \in read } |-> data[<<c, CHOOSE x \in read : Identifier[x] = i>>] ]
<1>1. Extracted(ravelled, c) = Merged(ravelled, new)
  BY DEF Extracted
<1>2. \A i \in DOMAIN new : \E x \in read : Identifier[x] = i /\ new[i] = data[<<c, x>>]
  <2>1. SUFFICES ASSUME NEW i \in { Identifier[x] : x \in read }
                 PROVE  \E x \in read : Identifier[x] = i /\ new[i] = data[<<c, x>>]
    OBVIOUS
  <2> DEFINE x == CHOOSE x \in read : Identifier[x] = i
  <2> HIDE DEF read
  <2>2. x \in read /\ Identifier[x] = i
    OBVIOUS
  <2>3. new[i] = data[<<c, x>>]
    OBVIOUS
  <2> QED
    BY <2>2, <2>3
<1>3. read \subseteq ToSet(xs) /\ \A x \in read : HasData(c, x)
  BY DEF ToSet
<1>4. \A x \in read : Identifier[x] \notin DOMAIN ravelled
  <2>1. SUFFICES ASSUME NEW n \in reads PROVE Identifier[xs[n]] \notin DOMAIN ravelled
    OBVIOUS
  <2>2. n \in 1 .. n
    <3>1. xs \in Seq({Metadata, ChestData, Later})
      BY ExtensionsInLine
    <3> HIDE DEF xs
    <3>2. n \in 1 .. Len(xs)
      BY <3>1
    <3> QED
      BY <3>2
  <2>3. ~Met(ravelled, c, xs, n)
    BY <2>2
  <2> QED
    BY <2>3 DEF Met
<1>5. /\ DOMAIN Merged(ravelled, new) = DOMAIN ravelled \cup DOMAIN new
      /\ \A k \in DOMAIN new : Merged(ravelled, new)[k] = new[k]
      /\ \A k \in DOMAIN ravelled \ DOMAIN new : Merged(ravelled, new)[k] = ravelled[k]
  <2> HIDE DEF new
  <2> QED
    BY MergedIs
<1>6. DOMAIN new \cap DOMAIN ravelled = {}
  <2> HIDE DEF read
  <2> QED
    BY <1>4
<1> HIDE DEF new, read
<1> QED
  BY <1>1, <1>2, <1>3, <1>5, <1>6

\* Root's come first, and none of them is met before.
LEMMA ExtractedOfRoot ==
    ASSUME dynamic \in {<< >>, <<Later>>}, parented \in BOOLEAN,
           NEW x \in ToSet(RootGroup), HasData(Root, x)
    PROVE  /\ Identifier[x] \in DOMAIN Extracted(Empty, Root)
           /\ Extracted(Empty, Root)[Identifier[x]] = data[<<Root, x>>]
<1> DEFINE xs == RecursiveExtensions(Root, parented)
           reads == { n \in DOMAIN xs : HasData(Root, xs[n]) /\ \A j \in 1 .. n : ~Met(Empty, Root, xs, j) }
           read == { xs[k] : k \in reads }
           new == [ i \in { Identifier[y] : y \in read } |-> data[<<Root, CHOOSE y \in read : Identifier[y] = i>>] ]
<1>1. Extracted(Empty, Root) = Merged(Empty, new)
  BY DEF Extracted
<1>2. xs = IF dynamic = << >> THEN <<Metadata>> ELSE <<Metadata, Later>>
  BY GroupsAre
<1>3. /\ DOMAIN xs \subseteq {1, 2}
      /\ \A m, n \in DOMAIN xs : Identifier[xs[m]] = Identifier[xs[n]] => m = n
      /\ \A m, n \in DOMAIN xs : Identifier[xs[m]] = Identifier[xs[n]] => xs[m] = xs[n]
      /\ \A n \in DOMAIN xs : \A j \in 1 .. n : j \in DOMAIN xs
  <2> HIDE DEF xs
  <2>1. CASE xs = <<Metadata>>
    BY <2>1, ContainerSavesAssumption
  <2>2. CASE xs = <<Metadata, Later>>
    BY <2>2, ContainerSavesAssumption
  <2> QED
    BY <1>2, <2>1, <2>2
<1>4. PICK n \in DOMAIN xs : xs[n] = x
  <2>1. x \in ToSet(xs)
    BY GroupsAre
  <2> QED
    BY <2>1 DEF ToSet
<1> HIDE DEF xs
<1>5. x \in read
  <2>1. SUFFICES ASSUME NEW j \in 1 .. n PROVE ~Met(Empty, Root, xs, j)
    BY <1>4
  <2>2. j \in DOMAIN xs /\ \A i \in 1 .. j - 1 : i \in DOMAIN xs /\ i # j
    BY <1>3, <1>4
  <2> QED
    BY <1>3, <2>2, EmptyIs DEF Met
<1>6. \A y \in read : Identifier[y] = Identifier[x] => y = x
  BY <1>3, <1>4
<1> HIDE DEF read
<1>7. Identifier[x] \in DOMAIN new /\ new[Identifier[x]] = data[<<Root, x>>]
  BY <1>5, <1>6
<1> HIDE DEF new
<1>8. /\ DOMAIN Merged(Empty, new) = DOMAIN Empty \cup DOMAIN new
      /\ \A k \in DOMAIN new : Merged(Empty, new)[k] = new[k]
  BY MergedIs
<1> QED
  BY <1>1, <1>7, <1>8

LEMMA SavesSave == ASSUME SavesInv, MakeSaveData, ~astray' PROVE SavesInv'
<1> DEFINE all == RavelExtensionData
           own == Extracted(Empty, Root)
           had == { y \in ToSet(RootGroup) : <<Root, y>> \in DOMAIN data }
<1>1. /\ saved' = [ there |-> TRUE, entries |-> entries, gen |-> gen, data |-> all,
                    was |-> [ x \in had |-> data[<<Root, x>>] ] ]
      /\ \A x \in ToSet(RootGroup) : Identifier[x] \in DOMAIN all => HasData(Root, x)
      /\ UNCHANGED <<contentVars, groupVars, data, unclaimed, holders>>
  BY DEF MakeSaveData, HasData
<1> DEFINE was == [ x \in had |-> data[<<Root, x>>] ]
<1>2. saved'.entries = entries /\ saved'.gen = gen /\ saved'.data = all /\ saved'.was = was
  <2> HIDE DEF was, all
  <2> QED
    BY <1>1 DEF was
<1>3. dynamic \in {<< >>, <<Later>>} /\ parented \in BOOLEAN /\ ToSet(RootGroup) \subseteq {Metadata, Later}
  BY GroupsAre DEF SavesInv, ArraysAreReached
<1>4. \A x \in had : Identifier[x] \in DOMAIN own /\ own[Identifier[x]] = data[<<Root, x>>]
  BY <1>3, ExtractedOfRoot DEF HasData
<1>5. \A i \in DOMAIN own : \E x \in had : Identifier[x] = i /\ own[i] = data[<<Root, x>>]
  <2>1. \A i \in DOMAIN own \ DOMAIN Empty :
          \E x \in ToSet(RecursiveExtensions(Root, parented)) :
            HasData(Root, x) /\ Identifier[x] = i /\ own[i] = data[<<Root, x>>]
    BY <1>3, ExtractedIs DEF Containers
  <2>2. RecursiveExtensions(Root, parented) = RootGroup
    BY <1>3, GroupsAre
  <2> QED
    BY <2>1, <2>2, EmptyIs DEF HasData
<1>6. /\ DOMAIN own \subseteq DOMAIN all /\ \A i \in DOMAIN own : all[i] = own[i]
      /\ \A i \in DOMAIN all \ DOMAIN own : \E x \in {ChestData} \cup ToSet(RootGroup) : Identifier[x] = i
  <2>1. CASE ~ChestInRoot(entries[Root])
    BY <2>1 DEF RavelExtensionData
  <2>2. CASE ChestInRoot(entries[Root])
    <3>1. all = Extracted(own, Chest)
      BY <2>2 DEF RavelExtensionData
    <3>2. ToSet(RecursiveExtensions(Chest, parented)) \subseteq {ChestData} \cup ToSet(RootGroup)
      BY <1>3, GroupsAre
    <3> HIDE DEF own
    <3>a. Chest \in Containers
      BY DEF Containers
    <3>3. /\ DOMAIN own \subseteq DOMAIN Extracted(own, Chest)
          /\ \A i \in DOMAIN own : Extracted(own, Chest)[i] = own[i]
          /\ \A i \in DOMAIN Extracted(own, Chest) \ DOMAIN own :
               \E x \in ToSet(RecursiveExtensions(Chest, parented)) : Identifier[x] = i
      <4>1. dynamic \in {<< >>, <<Later>>} /\ parented \in BOOLEAN
        BY <1>3
      <4>2. /\ DOMAIN own \subseteq DOMAIN Extracted(own, Chest)
            /\ \A i \in DOMAIN own : Extracted(own, Chest)[i] = own[i]
            /\ \A i \in DOMAIN Extracted(own, Chest) \ DOMAIN own :
                 \E x \in ToSet(RecursiveExtensions(Chest, parented)) :
                   /\ HasData(Chest, x) /\ Identifier[x] = i
                   /\ Extracted(own, Chest)[i] = data[<<Chest, x>>]
        BY ONLY <4>1, <3>a, ExtractedIs, SMTT(30)
      <4> QED
        BY ONLY <4>2
    <3> QED
      BY ONLY <3>1, <3>2, <3>3
  <2> QED
    BY <2>1, <2>2
<1> HIDE DEF own, all
<1>7. \A x \in {Metadata, Later} : Identifier[x] \in DOMAIN all =>
        x \in had /\ all[Identifier[x]] = data[<<Root, x>>]
  <2>1. SUFFICES ASSUME NEW x \in {Metadata, Later}, Identifier[x] \in DOMAIN all
                 PROVE  x \in had /\ all[Identifier[x]] = data[<<Root, x>>]
    OBVIOUS
  <2>2. x \in ToSet(RootGroup)
    <3>1. PICK y \in {ChestData} \cup ToSet(RootGroup) : Identifier[y] = Identifier[x]
      BY <1>5, <1>6, <2>1
    <3>2. y = x
      BY <1>3, <3>1, IdentifiersAreOwn
    <3> QED
      BY <3>1, <3>2, ContainerSavesAssumption
  <2>3. x \in had
    BY <1>1, <2>1, <2>2 DEF HasData
  <2> QED
    BY <1>4, <1>6, <2>3
<1>8. SaveIsOfRoot'
  <2>1. \A c \in Containers' : saved'.gen[c] \in Int /\ KeysUpTo(saved'.entries[c], saved'.gen[c])
    BY <1>2 DEF SavesInv, ContentKeyed, Containers
  <2>2. \A x \in {Metadata, Later} : Identifier[x] \in DOMAIN all =>
           /\ DOMAIN all[Identifier[x]] \subseteq DOMAIN entries[Root]
           /\ AboutThese(all[Identifier[x]], entries[Root])
    BY <1>7 DEF SavesInv, DataHasStacks, KeptWell
  <2>3. \A x \in had : x \in {Metadata, Later} /\ Identifier[x] \in DOMAIN all /\ all[Identifier[x]] = was[x]
    BY <1>3, <1>4, <1>6
  <2>4. DOMAIN was = had
    OBVIOUS
  <2> HIDE DEF was, had
  <2> QED
    BY <1>2, <2>1, <2>2, <2>3, <2>4 DEF SaveIsOfRoot
<1>9. ContentKeyed' /\ ArraysAreReached' /\ DataHasStacks' /\ UnclaimedIsOfRoot'
  BY <1>1 DEF SavesInv, ContentKeyed, ArraysAreReached, DataHasStacks, UnclaimedIsOfRoot, contentVars, groupVars, Containers
<1> QED
  BY <1>8, <1>9 DEF SavesInv

-----------------------------------------------------------------------------
(* Loading.                                                                 *)

LEMMA LastKeyIs ==
    ASSUME NEW content, NEW last \in Int, KeysUpTo(content, last)
    PROVE  LastKey(content) \in Int /\ KeyGenReset <= LastKey(content) /\ KeysUpTo(content, LastKey(content))
<1>1. CASE DOMAIN content = {}
  BY <1>1 DEF LastKey, KeysUpTo, KeyGenReset
<1>2. CASE DOMAIN content # {}
  <2> DEFINE below == { last - k : k \in DOMAIN content }
  <2>1. below \in SUBSET Nat /\ below # {}
    BY <1>2 DEF KeysUpTo
  <2>2. PICK m \in below : \A n \in below : m <= n
    BY <2>1, LeastNatural
  <2>3. PICK k \in DOMAIN content : m = last - k
    BY <2>2
  <2>4. \A j \in DOMAIN content : j <= k
    BY <2>2, <2>3 DEF KeysUpTo
  <2>5. /\ LastKey(content) \in DOMAIN content
        /\ \A j \in DOMAIN content : j <= LastKey(content)
    BY <1>2, <2>3, <2>4 DEF LastKey
  <2> QED
    BY <2>5 DEF KeysUpTo, KeyGenReset
<1> QED
  BY <1>1, <1>2

\* Extensions of identifiers of their own claim what is saved under them.
LEMMA UnravelIs ==
    ASSUME NEW acc, NEW c, NEW xs, NEW X, xs \in Seq(X),
           \A m, n \in DOMAIN xs : Identifier[xs[m]] = Identifier[xs[n]] => m = n
    PROVE  LET done == UnravelExtensionData(acc, c, xs)
           IN  /\ DOMAIN done.data = DOMAIN acc.data
               /\ \A p \in DOMAIN acc.data :
                    done.data[p] = IF p[1] = c /\ p[2] \in ToSet(xs) /\ Identifier[p[2]] \in DOMAIN acc.unclaimed
                                   THEN acc.unclaimed[Identifier[p[2]]] ELSE acc.data[p]
               /\ DOMAIN done.unclaimed \subseteq DOMAIN acc.unclaimed
               /\ \A i \in DOMAIN done.unclaimed : done.unclaimed[i] = acc.unclaimed[i]
<1> DEFINE first == { n \in DOMAIN xs : /\ Identifier[xs[n]] \in DOMAIN acc.unclaimed
                                       /\ \A j \in 1 .. n - 1 : Identifier[xs[j]] # Identifier[xs[n]] }
           claiming == { xs[k] : k \in first }
           lost == { Identifier[x] : x \in claiming }
           data_ == [ p \in DOMAIN acc.data |->
                        IF p[1] = c /\ p[2] \in claiming THEN acc.unclaimed[Identifier[p[2]]] ELSE acc.data[p] ]
<1>1. UnravelExtensionData(acc, c, xs) = [unclaimed |-> Without(acc.unclaimed, lost), data |-> data_]
  BY DEF UnravelExtensionData
<1>2. first = { n \in DOMAIN xs : Identifier[xs[n]] \in DOMAIN acc.unclaimed }
  <2>1. \A n \in DOMAIN xs : \A j \in 1 .. n - 1 : j \in DOMAIN xs /\ j # n
    OBVIOUS
  <2> QED
    BY <2>1
<1>3. claiming = { x \in ToSet(xs) : Identifier[x] \in DOMAIN acc.unclaimed }
  <2> HIDE DEF first
  <2> QED
    BY <1>2 DEF ToSet
<1> HIDE DEF claiming, first
<1>4. /\ DOMAIN data_ = DOMAIN acc.data
      /\ \A p \in DOMAIN acc.data :
           data_[p] = IF p[1] = c /\ p[2] \in ToSet(xs) /\ Identifier[p[2]] \in DOMAIN acc.unclaimed
                      THEN acc.unclaimed[Identifier[p[2]]] ELSE acc.data[p]
  BY <1>3
<1> HIDE DEF lost, data_
<1>5. /\ DOMAIN Without(acc.unclaimed, lost) = DOMAIN acc.unclaimed \ lost
      /\ \A i \in DOMAIN acc.unclaimed \ lost : Without(acc.unclaimed, lost)[i] = acc.unclaimed[i]
  BY WithoutIs
<1> DEFINE done == UnravelExtensionData(acc, c, xs)
<1>6. done.unclaimed = Without(acc.unclaimed, lost) /\ done.data = data_
  BY <1>1
<1> HIDE DEF done
<1>7. /\ DOMAIN done.data = DOMAIN acc.data
      /\ DOMAIN done.unclaimed \subseteq DOMAIN acc.unclaimed
      /\ \A i \in DOMAIN done.unclaimed : done.unclaimed[i] = acc.unclaimed[i]
  BY <1>4, <1>5, <1>6
<1>8. \A p \in DOMAIN acc.data :
        done.data[p] = IF p[1] = c /\ p[2] \in ToSet(xs) /\ Identifier[p[2]] \in DOMAIN acc.unclaimed
                       THEN acc.unclaimed[Identifier[p[2]]] ELSE acc.data[p]
  BY <1>4, <1>6
<1> QED
  BY <1>7, <1>8 DEF done

\* Before data is unravelled, Root's arrays are empty and there are no others.
LEMMA NothingStays ==
    ASSUME SavesInv
    PROVE  LET fresh == Fresh(Without(ClearedRoot, Wrapped(Root, RootGroup)), Wrapped(Root, RootGroup))
           IN  /\ DOMAIN fresh = { <<Root, x>> : x \in {Metadata} \cup ToSet(dynamic) }
               /\ \A p \in DOMAIN fresh : DOMAIN fresh[p] = {}
<1> DEFINE group == {Metadata} \cup ToSet(dynamic)
           kept == PostRemoval(data, Root, DOMAIN entries[Root])
           roots == Wrapped(Root, RootGroup)
           chests == Wrapped(Chest, RecursiveExtensions(Chest, TRUE))
<1>1. /\ dynamic \in {<< >>, <<Later>>} /\ parented \in BOOLEAN
      /\ parented => ChestInRoot(entries[Root])
      /\ DOMAIN data \subseteq ArraysOf(group, parented)
  BY DEF SavesInv, ArraysAreReached
<1>2. roots = ArraysOf(group, FALSE) /\ ArraysOf(group, TRUE) = roots \cup chests
  BY <1>1, WrappedIs
<1>3. DOMAIN kept = DOMAIN data
  BY DEF PostRemoval
<1>4. ClearedRoot = IF ChestInRoot(entries[Root]) THEN Without(kept, chests) ELSE kept
  BY DEF ClearedRoot, ReleaseOwnership
<1>5. roots = { <<Root, x>> : x \in group }
  BY <1>2 DEF ArraysOf
<1> HIDE DEF kept, roots, chests, group
<1>6. DOMAIN Without(kept, chests) = DOMAIN kept \ chests
  BY WithoutIs
<1>7. DOMAIN ClearedRoot \subseteq roots
  <2>1. CASE parented
    BY <1>1, <1>2, <1>3, <1>4, <1>6, <2>1
  <2>2. CASE ~parented
    <3>1. DOMAIN data \subseteq roots
      BY <1>1, <1>2, <2>2
    <3> QED
      BY <1>3, <1>4, <1>6, <3>1
  <2> QED
    BY <2>1, <2>2
<1>8. DOMAIN Without(ClearedRoot, roots) = {}
  <2>1. DOMAIN Without(ClearedRoot, roots) = DOMAIN ClearedRoot \ roots
    BY WithoutIs
  <2> QED
    BY <1>7, <2>1
<1> DEFINE dropped == Without(ClearedRoot, roots)
           fresh == Fresh(dropped, roots)
<1> HIDE DEF dropped
<1>9. /\ DOMAIN fresh = DOMAIN dropped \cup roots
      /\ \A p \in roots \ DOMAIN dropped : DOMAIN fresh[p] = {}
  BY FreshIs
<1> HIDE DEF fresh
<1>10. DOMAIN fresh = roots /\ \A p \in DOMAIN fresh : DOMAIN fresh[p] = {}
  BY <1>8, <1>9 DEF dropped
<1> QED
  BY <1>5, <1>10 DEF fresh, dropped, roots, group

\* After a load Root has the arrays of its extensions, each with what was
\* saved under the extension's identifier if anything was.
LEMMA LoadIs ==
    ASSUME SavesInv, NEW content
    PROVE  LET done == Unravelled(content)
           IN  /\ DOMAIN done.data = { <<Root, x>> : x \in {Metadata} \cup ToSet(dynamic) }
               /\ \A x \in {Metadata} \cup ToSet(dynamic) :
                    IF Identifier[x] \in DOMAIN saved.data
                    THEN done.data[<<Root, x>>] = saved.data[Identifier[x]]
                    ELSE DOMAIN done.data[<<Root, x>>] = {}
               /\ DOMAIN done.unclaimed \subseteq DOMAIN saved.data
               /\ \A i \in DOMAIN done.unclaimed : done.unclaimed[i] = saved.data[i]
<1> DEFINE group == {Metadata} \cup ToSet(dynamic)
           fresh == Fresh(Without(ClearedRoot, Wrapped(Root, RootGroup)), Wrapped(Root, RootGroup))
           acc == [data |-> fresh, unclaimed |-> saved.data]
           fromRoot == UnravelExtensionData(acc, Root, RootGroup)
           fromChest == UnravelExtensionData(fromRoot, Chest, OwnGroup(Chest))
           done == Unravelled(content)
<1>1. done = IF ChestInRoot(content) THEN fromChest ELSE fromRoot
  BY DEF Unravelled
<1>2. dynamic \in {<< >>, <<Later>>}
  BY DEF SavesInv, ArraysAreReached
<1>3. DOMAIN fresh = { <<Root, x>> : x \in group } /\ \A p \in DOMAIN fresh : DOMAIN fresh[p] = {}
  BY NothingStays
<1>4. acc.data = fresh /\ acc.unclaimed = saved.data
  <2> HIDE DEF fresh
  <2> QED
    OBVIOUS
<1>5. ToSet(RootGroup) = group
  BY <1>2, GroupsAre
<1> HIDE DEF acc, fresh, done, group
<1>6. /\ DOMAIN fromRoot.data = DOMAIN fresh
      /\ \A p \in DOMAIN fresh :
           fromRoot.data[p] = IF p[1] = Root /\ p[2] \in group /\ Identifier[p[2]] \in DOMAIN saved.data
                              THEN saved.data[Identifier[p[2]]] ELSE fresh[p]
      /\ DOMAIN fromRoot.unclaimed \subseteq DOMAIN saved.data
      /\ \A i \in DOMAIN fromRoot.unclaimed : fromRoot.unclaimed[i] = saved.data[i]
  <2>1. RootGroup \in Seq({Metadata, ChestData, Later})
    <3>1. RecursiveExtensions(Root, TRUE) \in Seq({Metadata, ChestData, Later})
      BY <1>2, ExtensionsInLine DEF Containers
    <3>2. RecursiveExtensions(Root, TRUE) = RootGroup
      BY <1>2, GroupsAre
    <3> QED
      BY <3>1, <3>2
  <2>2. \A m, n \in DOMAIN RootGroup : Identifier[RootGroup[m]] = Identifier[RootGroup[n]] => m = n
    <3> DEFINE xs == RootGroup
    <3>1. xs = IF dynamic = << >> THEN <<Metadata>> ELSE <<Metadata, Later>>
      BY <1>2, GroupsAre
    <3> HIDE DEF xs
    <3>2. \A m, n \in DOMAIN xs : Identifier[xs[m]] = Identifier[xs[n]] => m = n
      <4>1. CASE xs = <<Metadata>>
        BY <4>1, ContainerSavesAssumption
      <4>2. CASE xs = <<Metadata, Later>>
        BY <4>2, ContainerSavesAssumption
      <4> QED
        BY <3>1, <4>1, <4>2
    <3> QED
      BY <3>2 DEF xs
  <2>3. /\ DOMAIN fromRoot.data = DOMAIN acc.data
        /\ \A p \in DOMAIN acc.data :
             fromRoot.data[p] = IF p[1] = Root /\ p[2] \in ToSet(RootGroup) /\ Identifier[p[2]] \in DOMAIN acc.unclaimed
                                THEN acc.unclaimed[Identifier[p[2]]] ELSE acc.data[p]
        /\ DOMAIN fromRoot.unclaimed \subseteq DOMAIN acc.unclaimed
        /\ \A i \in DOMAIN fromRoot.unclaimed : fromRoot.unclaimed[i] = acc.unclaimed[i]
    BY <2>1, <2>2, UnravelIs
  <2> HIDE DEF fromRoot
  <2> QED
    BY <1>4, <1>5, <2>3
<1> HIDE DEF fromRoot
<1>7. /\ DOMAIN fromChest.data = DOMAIN fresh
      /\ \A p \in DOMAIN fresh : fromChest.data[p] = fromRoot.data[p]
      /\ DOMAIN fromChest.unclaimed \subseteq DOMAIN saved.data
      /\ \A i \in DOMAIN fromChest.unclaimed : fromChest.unclaimed[i] = saved.data[i]
  <2>1. OwnGroup(Chest) = <<ChestData>>
    BY ContainerSavesAssumption DEF OwnGroup
  <2>2. OwnGroup(Chest) \in Seq({ChestData}) /\ \A m, n \in DOMAIN OwnGroup(Chest) : m = n
    BY <2>1
  <2>3. /\ DOMAIN fromChest.data = DOMAIN fromRoot.data
        /\ \A p \in DOMAIN fromRoot.data :
             fromChest.data[p] = IF p[1] = Chest /\ p[2] \in ToSet(OwnGroup(Chest)) /\ Identifier[p[2]] \in DOMAIN fromRoot.unclaimed
                                 THEN fromRoot.unclaimed[Identifier[p[2]]] ELSE fromRoot.data[p]
        /\ DOMAIN fromChest.unclaimed \subseteq DOMAIN fromRoot.unclaimed
        /\ \A i \in DOMAIN fromChest.unclaimed : fromChest.unclaimed[i] = fromRoot.unclaimed[i]
    BY <2>2, UnravelIs
  <2>4. \A p \in DOMAIN fresh : p[1] # Chest
    BY <1>3, ContainerSavesAssumption
  <2> HIDE DEF fromChest
  <2> QED
    BY <1>6, <2>3, <2>4
<1> HIDE DEF fromChest
<1>8. /\ DOMAIN done.data = DOMAIN fresh /\ \A p \in DOMAIN fresh : done.data[p] = fromRoot.data[p]
      /\ DOMAIN done.unclaimed \subseteq DOMAIN saved.data
      /\ \A i \in DOMAIN done.unclaimed : done.unclaimed[i] = saved.data[i]
  BY <1>1, <1>6, <1>7
<1>9. \A x \in group :
        IF Identifier[x] \in DOMAIN saved.data
        THEN done.data[<<Root, x>>] = saved.data[Identifier[x]]
        ELSE DOMAIN done.data[<<Root, x>>] = {}
  BY <1>3, <1>6, <1>8
<1> QED
  BY <1>3, <1>8, <1>9 DEF done, group

LEMMA SavesLoad ==
    ASSUME SavesInv, saved.there, NEW invalid, LoadSaveData(invalid), ~astray'
    PROVE  SavesInv'
<1> DEFINE kept == Without(saved.entries[Root], invalid)
           back == ChestInRoot(kept)
           done == Unravelled(kept)
           group == {Metadata} \cup ToSet(dynamic)
<1>1. /\ entries' = [ c \in Containers |-> IF c = Root THEN kept
                        ELSE IF back THEN saved.entries[Chest] ELSE entries[Chest] ]
      /\ gen' = [ c \in Containers |-> IF c = Root THEN LastKey(kept)
                    ELSE IF back THEN LastKey(saved.entries[Chest]) ELSE gen[Chest] ]
      /\ ready' = {Root} /\ parented' = FALSE
      /\ data' = done.data /\ unclaimed' = done.unclaimed
      /\ \A i \in DOMAIN saved.data : DOMAIN saved.data[i] \cap invalid = {}
      /\ UNCHANGED <<dynamic, saved>>
  BY DEF LoadSaveData
<1>2. /\ DOMAIN done.data = { <<Root, x>> : x \in group }
      /\ \A x \in group : IF Identifier[x] \in DOMAIN saved.data
                          THEN done.data[<<Root, x>>] = saved.data[Identifier[x]]
                          ELSE DOMAIN done.data[<<Root, x>>] = {}
      /\ DOMAIN done.unclaimed \subseteq DOMAIN saved.data
      /\ \A i \in DOMAIN done.unclaimed : done.unclaimed[i] = saved.data[i]
  BY LoadIs
<1> HIDE DEF done, back
<1>3. /\ \A c \in Containers : saved.gen[c] \in Int /\ KeysUpTo(saved.entries[c], saved.gen[c])
      /\ \A x \in {Metadata, Later} : Identifier[x] \in DOMAIN saved.data =>
           /\ DOMAIN saved.data[Identifier[x]] \subseteq DOMAIN saved.entries[Root]
           /\ AboutThese(saved.data[Identifier[x]], saved.entries[Root])
  BY DEF SavesInv, SaveIsOfRoot
<1>4. /\ DOMAIN kept = DOMAIN saved.entries[Root] \ invalid
      /\ \A k \in DOMAIN kept : kept[k] = saved.entries[Root][k]
  <2>1. /\ DOMAIN Without(saved.entries[Root], invalid) = DOMAIN saved.entries[Root] \ invalid
        /\ \A k \in DOMAIN saved.entries[Root] \ invalid :
             Without(saved.entries[Root], invalid)[k] = saved.entries[Root][k]
    BY WithoutIs
  <2> QED
    BY <2>1
<1> HIDE DEF kept
<1>5. KeysUpTo(kept, saved.gen[Root]) /\ saved.gen[Root] \in Int
  BY <1>3, <1>4 DEF KeysUpTo, Containers
<1>6. LastKey(kept) \in Int /\ KeyGenReset <= LastKey(kept) /\ KeysUpTo(kept, LastKey(kept))
  BY <1>5, LastKeyIs
<1>7. entries'[Root] = kept /\ gen'[Root] = LastKey(kept) /\ Root \in Containers
  BY <1>1 DEF Containers
<1>8. ContentKeyed'
  <2>1. SUFFICES ASSUME NEW c \in Containers
                 PROVE  gen'[c] \in Int /\ KeyGenReset <= gen'[c] /\ KeysUpTo(entries'[c], gen'[c])
    BY <1>1 DEF ContentKeyed, Containers
  <2>2. CASE c = Root
    BY <1>6, <1>7, <2>2
  <2>3. CASE c # Root
    <3>1. c = Chest /\ c \in Containers
      BY <2>3 DEF Containers
    <3>2. CASE back
      <4>1. entries'[c] = saved.entries[Chest] /\ gen'[c] = LastKey(saved.entries[Chest])
        BY <1>1, <2>3, <3>1, <3>2
      <4>2. saved.gen[Chest] \in Int /\ KeysUpTo(saved.entries[Chest], saved.gen[Chest])
        BY <1>3, <3>1
      <4> QED
        BY <4>1, <4>2, LastKeyIs
    <3>3. CASE ~back
      <4>1. entries'[c] = entries[c] /\ gen'[c] = gen[c]
        BY <1>1, <2>3, <3>1, <3>3
      <4> QED
        BY <4>1 DEF SavesInv, ContentKeyed
    <3> QED
      BY <3>2, <3>3
  <2> QED
    BY <2>2, <2>3
<1>9. ArraysAreReached'
  <2>1. DOMAIN data' \subseteq ArraysOf(group, FALSE)
    BY <1>1, <1>2 DEF ArraysOf
  <2> QED
    BY <1>1, <2>1 DEF SavesInv, ArraysAreReached, Containers
\* What is saved of an extension of Root is about what came back.
<1>10. \A x \in {Metadata, Later} : Identifier[x] \in DOMAIN saved.data =>
         /\ DOMAIN saved.data[Identifier[x]] \subseteq DOMAIN kept
         /\ AboutThese(saved.data[Identifier[x]], kept)
  BY <1>1, <1>3, <1>4 DEF AboutThese
<1>11. DataHasStacks'
  <2>1. SUFFICES ASSUME NEW x \in group
                 PROVE  /\ DOMAIN done.data[<<Root, x>>] \subseteq DOMAIN kept
                        /\ AboutThese(done.data[<<Root, x>>], kept)
    BY <1>1, <1>2, <1>7 DEF DataHasStacks, KeptWell
  <2>2. x \in {Metadata, Later}
    BY GroupsAre DEF SavesInv, ArraysAreReached
  <2>3. CASE Identifier[x] \in DOMAIN saved.data
    BY <1>2, <1>10, <2>2, <2>3
  <2>4. CASE Identifier[x] \notin DOMAIN saved.data
    BY <1>2, <2>4 DEF AboutThese
  <2> QED
    BY <2>3, <2>4
<1>12. SaveIsOfRoot'
  BY <1>1 DEF SavesInv, SaveIsOfRoot, Containers
<1>13. UnclaimedIsOfRoot'
  <2>1. SUFFICES ASSUME Identifier[Later] \in DOMAIN done.unclaimed
                 PROVE  /\ KeysUpTo(done.unclaimed[Identifier[Later]], LastKey(kept))
                        /\ AboutThese(done.unclaimed[Identifier[Later]], kept)
    BY <1>1, <1>7 DEF UnclaimedIsOfRoot
  <2>2. /\ done.unclaimed[Identifier[Later]] = saved.data[Identifier[Later]]
        /\ Identifier[Later] \in DOMAIN saved.data
    BY <1>2, <2>1
  <2> QED
    BY <1>6, <1>10, <2>2 DEF KeysUpTo
<1> QED
  BY <1>8, <1>9, <1>11, <1>12, <1>13 DEF SavesInv

LEMMA SavesExtend == ASSUME SavesInv, AddExtension, ~astray' PROVE SavesInv'
<1> DEFINE reached == { c \in ready : c = Root \/ parented }
           fresh == Fresh(data, { <<c, Later>> : c \in reached })
           acc == [data |-> fresh, unclaimed |-> unclaimed]
           claimed == UnravelExtensionData(acc, Root, <<Later>>)
           done == IF Root \in holders THEN claimed ELSE acc
<1>1. /\ Later \notin ToSet(dynamic) /\ dynamic' = Append(dynamic, Later)
      /\ data' = done.data /\ unclaimed' = done.unclaimed
      /\ <<Root, Later>> \in DOMAIN done.data => DOMAIN done.data[<<Root, Later>>] \subseteq DOMAIN entries[Root]
      /\ UNCHANGED <<contentVars, ready, parented, holders, saved>>
  BY DEF AddExtension
<1>2. dynamic \in {<< >>, <<Later>>} /\ parented \in BOOLEAN /\ ready \subseteq Containers
  BY DEF SavesInv, ArraysAreReached
<1>3. dynamic = << >> /\ ToSet(dynamic) = {} /\ dynamic' = <<Later>> /\ ToSet(dynamic') = {Later}
  <2>1. ToSet(<<Later>>) = {Later} /\ ToSet(<< >>) = {}
    BY ONLY SetsOfShort
  <2>2. dynamic = << >>
    BY <1>1, <1>2, <2>1
  <2>3. Append(<< >>, Later) = <<Later>>
    OBVIOUS
  <2>4. dynamic' = <<Later>>
    BY <1>1, <2>2, <2>3
  <2> QED
    BY <2>1, <2>2, <2>4
<1>4. acc.data = fresh /\ acc.unclaimed = unclaimed
  <2> HIDE DEF fresh
  <2> QED
    OBVIOUS
<1>5. DOMAIN fresh = DOMAIN data \cup { <<c, Later>> : c \in reached } /\ KeptWell(fresh, entries)
  BY FreshIs, FreshKeeps DEF SavesInv, DataHasStacks
<1>6. DOMAIN fresh \subseteq ArraysOf({Metadata, Later}, parented)
  <2>1. \A c \in reached : c = Root \/ (c = Chest /\ parented)
    <3>1. SUFFICES ASSUME NEW c \in ready, c = Root \/ parented PROVE c = Root \/ (c = Chest /\ parented)
      OBVIOUS
    <3>2. c \in Containers
      BY <1>2
    <3>3. c = Root \/ c = Chest
      BY <3>2 DEF Containers
    <3> QED
      BY <1>2, <3>1, <3>3
  <2>2. { <<c, Later>> : c \in reached } \subseteq ArraysOf({Metadata, Later}, parented)
    BY <2>1 DEF ArraysOf
  <2>3. DOMAIN data \subseteq ArraysOf({Metadata}, parented)
    BY <1>3 DEF SavesInv, ArraysAreReached
  <2>4. ArraysOf({Metadata}, parented) \subseteq ArraysOf({Metadata, Later}, parented)
    BY <1>2, FewerArrays
  <2> QED
    BY <1>5, <2>2, <2>3, <2>4
<1> HIDE DEF reached, fresh, acc
<1>7. /\ DOMAIN done.data = DOMAIN fresh
      /\ \A p \in DOMAIN fresh :
           \/ done.data[p] = fresh[p]
           \/ /\ p[1] = Root /\ p[2] = Later /\ Root \in holders /\ Identifier[Later] \in DOMAIN unclaimed
              /\ done.data[p] = unclaimed[Identifier[Later]]
      /\ DOMAIN done.unclaimed \subseteq DOMAIN unclaimed
      /\ \A i \in DOMAIN done.unclaimed : done.unclaimed[i] = unclaimed[i]
  <2>1. CASE Root \in holders
    <3> DEFINE xs == <<Later>>
    <3>1. xs \in Seq({Later}) /\ \A m, n \in DOMAIN xs : m = n
      OBVIOUS
    <3> DEFINE taken == UnravelExtensionData(acc, Root, xs)
    <3>2. /\ DOMAIN taken.data = DOMAIN acc.data
          /\ \A p \in DOMAIN acc.data :
               taken.data[p] = IF p[1] = Root /\ p[2] \in ToSet(xs) /\ Identifier[p[2]] \in DOMAIN acc.unclaimed
                                 THEN acc.unclaimed[Identifier[p[2]]] ELSE acc.data[p]
          /\ DOMAIN taken.unclaimed \subseteq DOMAIN acc.unclaimed
          /\ \A i \in DOMAIN taken.unclaimed : taken.unclaimed[i] = acc.unclaimed[i]
      <4> HIDE DEF xs
      <4> QED
        BY <3>1, UnravelIs
    <3>3. ToSet(xs) = {Later}
      BY ONLY SetsOfShort
    <3>4. done = taken
      BY <2>1
    <3> HIDE DEF done, taken, xs
    <3> QED
      BY <1>4, <2>1, <3>2, <3>3, <3>4
  <2>2. CASE Root \notin holders
    BY <1>4, <2>2
  <2> QED
    BY <2>1, <2>2
<1> HIDE DEF done
<1>8. ArraysAreReached'
  <2>1. DOMAIN data' \subseteq ArraysOf({Metadata} \cup ToSet(dynamic'), parented)
    BY <1>1, <1>3, <1>6, <1>7
  <2> QED
    BY <1>1, <1>3, <2>1 DEF SavesInv, ArraysAreReached, contentVars, Containers
<1>9. DataHasStacks'
  <2>1. SUFFICES ASSUME NEW p \in DOMAIN fresh
                 PROVE  DOMAIN done.data[p] \subseteq DOMAIN entries[p[1]] /\ AboutThese(done.data[p], entries[p[1]])
    BY <1>1, <1>7 DEF DataHasStacks, KeptWell, contentVars
  <2>2. CASE done.data[p] = fresh[p]
    BY <1>5, <2>2 DEF KeptWell
  <2>3. CASE /\ p[1] = Root /\ p[2] = Later /\ Root \in holders /\ Identifier[Later] \in DOMAIN unclaimed
             /\ done.data[p] = unclaimed[Identifier[Later]]
    <3>1. p = <<p[1], p[2]>>
      BY <1>2, <1>6, PairsAre
    <3>2. p = <<Root, Later>>
      BY <2>3, <3>1
    <3>3. DOMAIN done.data[p] \subseteq DOMAIN entries[Root]
      BY <1>1, <1>7, <3>2
    <3>4. AboutThese(unclaimed[Identifier[Later]], entries[Root])
      BY <2>3 DEF SavesInv, UnclaimedIsOfRoot
    <3> QED
      BY <2>3, <3>3, <3>4
  <2> QED
    BY <1>7, <2>2, <2>3
<1>10. ContentKeyed' /\ SaveIsOfRoot'
  BY <1>1 DEF SavesInv, ContentKeyed, SaveIsOfRoot, contentVars, Containers
<1>11. UnclaimedIsOfRoot'
  BY <1>1, <1>7 DEF SavesInv, UnclaimedIsOfRoot, contentVars
<1> QED
  BY <1>8, <1>9, <1>10, <1>11 DEF SavesInv

-----------------------------------------------------------------------------
(* The theorems.                                                            *)

LEMMA SavesOn == DataFollows /\ [Next]_vars => DataFollows'
<1> SUFFICES ASSUME DataFollows, [Next]_vars, ~astray' PROVE SavesInv'
  BY DEF DataFollows
<1>1. CASE UNCHANGED vars
  <2>1. SavesInv
    BY <1>1 DEF DataFollows, vars
  <2> QED
    BY <1>1, <2>1 DEF SavesInv, ContentKeyed, ArraysAreReached, DataHasStacks, SaveIsOfRoot, UnclaimedIsOfRoot,
                      vars, contentVars, groupVars, saveVars, Containers
<1>2. CASE Next
  <2>1. ~astray /\ \A S : Careful(S) = S
    BY <1>2 DEF Next, Careful
  <2>2. SavesInv
    BY <2>1 DEF DataFollows
  <2>3. CASE InitializeNetObject \/ DeinitializeNetObject \/ RemoveExtension
    BY <2>2, <2>3, SavesRegister, SavesDeregister, SavesForget
  <2>4. CASE AddExtension \/ MakeSaveData
    BY <2>2, <2>4, SavesExtend, SavesSave
  <2>5. ASSUME NEW c \in Containers, NEW item, AddItemStack(c, item) PROVE SavesInv'
    BY <2>2, <2>5, SavesAdd
  <2>6. ASSUME NEW c \in Containers, NEW k, NEW r, RemoveStack(c, k, r) PROVE SavesInv'
    BY <2>2, <2>6, SavesRemove
  <2>7. ASSUME NEW p \in DOMAIN data, NEW k, NEW tags, EditDataForHandle(p, k, tags) PROVE SavesInv'
    BY <2>2, <2>7, SavesEdit
  <2>8. ASSUME NEW invalid, saved.there, LoadSaveData(invalid) PROVE SavesInv'
    BY <2>2, <2>8, SavesLoad
  <2>9. CASE \E c \in Careful(Containers), item \in Items \cup {Box} : AddItemStack(c, item)
    BY <2>1, <2>5, <2>9
  <2>10. CASE \E c \in Careful(Containers) : \E k \in KeysOf(c), r \in Reasons : RemoveStack(c, k, r)
    BY <2>1, <2>6, <2>10
  <2>11. CASE \E p \in Careful(DOMAIN data) : \E k \in KeysOf(p[1]), t \in Tags :
                MarkStackWithTag(p, k, t) \/ ClearTagFromStack(p, k, t)
    BY <2>1, <2>7, <2>11 DEF MarkStackWithTag, ClearTagFromStack
  <2>12. CASE \E p \in Careful(DOMAIN data) : \E k \in KeysOf(p[1]) : TrySetTags(p, k, Tags)
    BY <2>1, <2>7, <2>12 DEF TrySetTags
  <2>13. CASE \E invalid \in Careful(IF saved.there THEN SUBSET DOMAIN saved.entries[Root] ELSE {}) :
                LoadSaveData(invalid)
    BY <2>1, <2>8, <2>13
  <2> QED
    BY <1>2, <2>3, <2>4, <2>9, <2>10, <2>11, <2>12, <2>13 DEF Next
<1> QED
  BY <1>1, <1>2

\* Whatever is edited, removed, saved and loaded: until data is made for an
\* address without a stack, or saved under another's name, what is kept is
\* about the stacks that are there and comes from extensions that are reached.
THEOREM DataAlwaysFollows == Spec => []DataFollows
<1>1. Init => DataFollows
  BY SavesFromStart DEF DataFollows
<1> QED
  BY <1>1, SavesOn, PTL DEF Spec

LEMMA FollowsKeepsTags == DataFollows => TagsStayOnTheirItem
  BY DEF DataFollows, SavesInv, DataHasStacks, KeptWell, AboutThese, TagsStayOnTheirItem

\* Tags stay on the item they were set on: an address never shows what was said
\* of another item.
THEOREM TagsStay == Spec => []TagsStayOnTheirItem
  BY DataAlwaysFollows, FollowsKeepsTags, PTL

LEMMA LoadRestores ==
    ASSUME DataFollows, [Next]_vars,
           NEW invalid \in Careful(IF saved.there THEN SUBSET DOMAIN saved.entries[Root] ELSE {}), LoadSaveData(invalid),
           NEW x \in ToSet(RootGroup) \cap DOMAIN saved.was
    PROVE  data'[<<Root, x>>] = saved.was[x]
<1>1. ~astray /\ saved.there
  BY DEF Careful
<1>2. SavesInv
  BY <1>1 DEF DataFollows
<1>3. data' = Unravelled(Without(saved.entries[Root], invalid)).data
  BY DEF LoadSaveData
<1>4. x \in {Metadata} \cup ToSet(dynamic)
  BY <1>2, GroupsAre DEF SavesInv, ArraysAreReached
<1>5. Identifier[x] \in DOMAIN saved.data /\ saved.data[Identifier[x]] = saved.was[x]
  BY <1>1, <1>2 DEF SavesInv, SaveIsOfRoot
<1>6. data'[<<Root, x>>] = saved.data[Identifier[x]]
  BY <1>2, <1>3, <1>4, <1>5, LoadIs
<1> QED
  BY <1>5, <1>6

\* A load gives each extension of Root what it had about the stacks when they
\* were saved, whatever was done since.
THEOREM LoadsRestoreData == Spec => LoadRestoresData
<1>1. DataFollows /\ [Next]_vars =>
        \A invalid \in Careful(IF saved.there THEN SUBSET DOMAIN saved.entries[Root] ELSE {}) :
          LoadSaveData(invalid) =>
            \A x \in ToSet(RootGroup) \cap DOMAIN saved.was : data'[<<Root, x>>] = saved.was[x]
  BY LoadRestores
<1> QED
  BY <1>1, DataAlwaysFollows, PTL DEF Spec, LoadRestoresData

-----------------------------------------------------------------------------
(* EquipmentManager: the inductive invariant.                               *)

\* A slot has a stack just while it has a key, as has what is saved of one.
Holds(o) ==
    IF o.key = NoKey THEN o.item = NothingEquipped /\ o.copies = 0 ELSE o.item \in Equipment /\ o.copies > 0
SlotObjects ==
    { o \in [id : SlotIDs, item : Equipment \cup {NothingEquipped}, copies : Nat, key : Nat, gen : Nat] : Holds(o) }
SavedSlots ==
    { d \in [id : SlotIDs, key : Nat, item : Equipment \cup {NothingEquipped}, copies : Nat] : Holds(d) }

\* The slots of a manager are objects, of different IDs.
AreSlots(made, slots) ==
    /\ made \in Seq(SlotObjects) /\ slots \in Seq(1 .. Len(made))
    /\ \A a, b \in DOMAIN slots : made[slots[a]].id = made[slots[b]].id => a = b
AreSaved(perSlot) ==
    perSlot \in Seq(SavedSlots) /\ \A a, b \in DOMAIN perSlot : perSlot[a].id = perSlot[b].id => a = b

SlotsAreOwn == AreSlots(objects, managed) /\ (equipSave.there => AreSaved(equipSave.perSlot))

IsManager(m) ==
    m = [objects |-> m.objects, managed |-> m.managed, heard |-> m.heard, replicated |-> m.replicated]

LEMMA NewSlotIs == ASSUME NEW id \in SlotIDs PROVE NewSlot(id) \in SlotObjects /\ NewSlot(id).id = id
  BY DEF NewSlot, SlotObjects, Holds, NoKey, KeyReset

LEMMA StoredIs ==
    ASSUME NEW o \in SlotObjects, NEW item \in Equipment, NEW n \in Nat \ {0}
    PROVE  /\ StoreInto(o, item, n) \in SlotObjects /\ StoreInto(o, item, n).id = o.id
           /\ StoreInto(o, item, n).item = item /\ StoreInto(o, item, n).key # NoKey
           /\ o.item # item => StoreInto(o, item, n).copies = n
<1>1. o \in [id : SlotIDs, item : Equipment \cup {NothingEquipped}, copies : Nat, key : Nat, gen : Nat] /\ Holds(o)
  BY DEF SlotObjects
<1>2. CASE item = o.item
  <2>1. StoreInto(o, item, n) = [o EXCEPT !.copies = @ + n]
    BY <1>2 DEF StoreInto
  <2>2. o.key # NoKey
    BY <1>1, <1>2, ManagerAssumption DEF Holds
  <2> QED
    BY <1>1, <1>2, <2>1, <2>2 DEF SlotObjects, Holds, NoKey
<1>3. CASE item # o.item
  <2>1. StoreInto(o, item, n) = [o EXCEPT !.item = item, !.copies = n, !.key = o.gen + 1, !.gen = o.gen + 1]
    BY <1>3 DEF StoreInto
  <2> DEFINE g == o.gen + 1
  <2>2. g \in Nat /\ g # 0
    BY <1>1
  <2> HIDE DEF g
  <2> DEFINE e == [o EXCEPT !.item = item, !.copies = n, !.key = g, !.gen = g]
  <2>3. e \in [id : SlotIDs, item : Equipment \cup {NothingEquipped}, copies : Nat, key : Nat, gen : Nat]
    BY <1>1, <2>2
  <2>4. e.id = o.id /\ e.item = item /\ e.copies = n /\ e.key = g
    BY <1>1
  <2>5. StoreInto(o, item, n) = e
    BY <2>1 DEF g
  <2> HIDE DEF e
  <2>6. Holds(e)
    BY <2>2, <2>4 DEF Holds, NoKey
  <2> QED
    BY <2>2, <2>3, <2>4, <2>5, <2>6 DEF SlotObjects, NoKey
<1> QED
  BY <1>2, <1>3

LEMMA TakenIs == ASSUME NEW o \in SlotObjects PROVE TakeOut(o) \in SlotObjects /\ TakeOut(o).id = o.id
  BY DEF TakeOut, SlotObjects, Holds, NoKey

LEMMA SavedIs == ASSUME NEW o \in SlotObjects PROVE MakeSlotData(o) \in SavedSlots /\ MakeSlotData(o).id = o.id
  BY DEF MakeSlotData, SlotObjects, SavedSlots, Holds, NoKey

\* What is loaded into a new slot.
LoadedFrom(o, d, invalid) ==
    IF d.item \in invalid \cup {NothingEquipped} THEN ~Occupied(o)
    ELSE o.item = d.item /\ o.copies = d.copies /\ o.key # NoKey

LEMMA LoadedIs ==
    ASSUME NEW d \in SavedSlots, NEW invalid
    PROVE  LET o == LoadSlotData(NewSlot(d.id), d, invalid)
           IN  o \in SlotObjects /\ o.id = d.id /\ LoadedFrom(o, d, invalid)
<1> DEFINE new == NewSlot(d.id)
           o == LoadSlotData(new, d, invalid)
           placed == [new EXCEPT !.gen = d.key]
<1>1. d \in [id : SlotIDs, key : Nat, item : Equipment \cup {NothingEquipped}, copies : Nat] /\ Holds(d)
  BY DEF SavedSlots
<1>2. new \in SlotObjects /\ new.id = d.id /\ new.item = NothingEquipped /\ new.copies = 0 /\ new.key = NoKey
  BY <1>1, NewSlotIs DEF NewSlot
<1> HIDE DEF new
<1>3. ~Occupied(new)
  BY <1>2 DEF Occupied
<1>4. placed \in SlotObjects /\ placed.id = d.id /\ placed.item = NothingEquipped /\ placed.copies = 0 /\ placed.key = NoKey
  BY <1>1, <1>2 DEF SlotObjects, Holds
<1> HIDE DEF placed
<1>5. CASE d.key = NoKey
  <2>1. o = new
    BY <1>3, <1>5 DEF LoadSlotData
  <2> QED
    BY <1>1, <1>2, <1>3, <1>5, <2>1 DEF Holds, LoadedFrom, new
<1>6. CASE d.key # NoKey /\ d.item \in invalid
  <2>1. o = [placed EXCEPT !.key = NoKey]
    BY <1>3, <1>6 DEF LoadSlotData, placed
  <2>2. [placed EXCEPT !.key = NoKey] = placed
    BY <1>4 DEF SlotObjects
  <2> QED
    BY <1>4, <1>6, <2>1, <2>2 DEF Occupied, LoadedFrom, new
<1>7. CASE d.key # NoKey /\ d.item \notin invalid
  <2>1. d.item \in Equipment /\ d.copies \in Nat \ {0}
    BY <1>1, <1>7 DEF Holds
  <2>2. o = StoreInto(placed, d.item, d.copies)
    BY <1>3, <1>7, <2>1 DEF LoadSlotData, placed
  <2>3. d.item # NothingEquipped
    BY <2>1, ManagerAssumption
  <2> HIDE DEF o
  <2>4. o \in SlotObjects /\ o.id = d.id /\ o.item = d.item /\ o.key # NoKey /\ o.copies = d.copies
    BY <1>4, <2>1, <2>2, <2>3, StoredIs
  <2> QED
    BY <1>7, <2>3, <2>4 DEF LoadedFrom, o, new
<1> QED
  BY <1>5, <1>6, <1>7

\* FindSlot finds the slot of an ID, which is the only one, or says there is none.
LEMMA FindSlotIs ==
    ASSUME NEW m, AreSlots(m.objects, m.managed), NEW id
    PROVE  \/ /\ FindSlot(m, id) = 0
              /\ \A n \in DOMAIN m.managed : m.objects[m.managed[n]].id # id
           \/ \E n \in DOMAIN m.managed : FindSlot(m, id) = m.managed[n] /\ m.objects[m.managed[n]].id = id
<1> DEFINE found == {n \in DOMAIN m.managed : m.objects[m.managed[n]].id = id}
<1>1. CASE found = {}
  BY <1>1 DEF FindSlot
<1>2. CASE found # {}
  <2>1. PICK n \in DOMAIN m.managed : m.objects[m.managed[n]].id = id
    BY <1>2
  <2>2. \A k \in found : k = n
    BY <2>1 DEF AreSlots
  <2>3. n \in Nat
    BY <2>1 DEF AreSlots
  <2>4. found = {n}
    BY <2>1, <2>2
  <2>5. FindSlot(m, id) = m.managed[CHOOSE j \in found : \A k \in found : j <= k]
    BY <1>2 DEF FindSlot
  <2> HIDE DEF found
  <2>6. (CHOOSE j \in found : \A k \in found : j <= k) = n
    BY <2>3, <2>4
  <2> QED
    BY <2>1, <2>5, <2>6
<1> QED
  BY <1>1, <1>2

LEMMA FoundIs ==
    ASSUME NEW m, AreSlots(m.objects, m.managed), NEW n \in DOMAIN m.managed
    PROVE  FindSlot(m, m.objects[m.managed[n]].id) = m.managed[n] /\ m.managed[n] # 0
<1>1. m.managed[n] \in 1 .. Len(m.objects)
  BY DEF AreSlots
<1>2. PICK k \in DOMAIN m.managed : /\ FindSlot(m, m.objects[m.managed[n]].id) = m.managed[k]
                                    /\ m.objects[m.managed[k]].id = m.objects[m.managed[n]].id
  BY FindSlotIs
<1>3. k = n
  BY <1>2 DEF AreSlots
<1> QED
  BY <1>1, <1>2, <1>3 DEF AreSlots

\* A slot that is added comes last, and the others stay.
LEMMA AddSlotIs ==
    ASSUME NEW m, AreSlots(m.objects, m.managed), NEW id \in SlotIDs, FindSlot(m, id) = 0
    PROVE  LET w == AddSlot(m, id)
               o == Len(m.objects) + 1
           IN  /\ AreSlots(w.objects, w.managed)
               /\ DOMAIN w.managed = DOMAIN m.managed \cup {Len(m.managed) + 1}
               /\ \A n \in DOMAIN m.managed :
                    w.managed[n] = m.managed[n] /\ w.objects[w.managed[n]] = m.objects[m.managed[n]]
               /\ w.managed[Len(m.managed) + 1] = o /\ w.objects[o] = NewSlot(id)
<1> DEFINE w == AddSlot(m, id)
           o == Len(m.objects) + 1
           made == m.objects
           slots == m.managed
           new == NewSlot(id)
<1>1. w.objects = Append(made, new) /\ w.managed = Append(slots, o)
  BY DEF AddSlot
<1>2. made \in Seq(SlotObjects) /\ slots \in Seq(1 .. Len(made))
      /\ \A a, b \in DOMAIN slots : made[slots[a]].id = made[slots[b]].id => a = b
  BY DEF AreSlots
<1>3. new \in SlotObjects /\ new.id = id
  BY NewSlotIs
<1>4. \A n \in DOMAIN slots : made[slots[n]].id # id /\ slots[n] \in 1 .. Len(made)
  <2>1. \A n \in DOMAIN slots : slots[n] # 0
    BY <1>2
  <2>2. \A n \in DOMAIN slots : made[slots[n]].id # id
    BY <2>1, FindSlotIs
  <2> QED
    BY <1>2, <2>2
<1> HIDE DEF w, made, slots, new
<1>5. /\ w.objects \in Seq(SlotObjects) /\ Len(w.objects) = o /\ o \in 1 .. o
      /\ \A k \in 1 .. Len(made) : w.objects[k] = made[k] /\ k \in 1 .. o
      /\ w.objects[o] = new
  BY <1>1, <1>2, <1>3 DEF made
<1>6. /\ slots \in Seq(1 .. o)
      /\ w.managed \in Seq(1 .. o)
  <2>1. slots \in Seq(1 .. o)
    BY <1>2, <1>4, <1>5
  <2> QED
    BY <1>1, <1>5, <2>1
<1>7. /\ DOMAIN w.managed = DOMAIN slots \cup {Len(slots) + 1}
      /\ \A n \in DOMAIN slots : w.managed[n] = slots[n] /\ n # Len(slots) + 1
      /\ w.managed[Len(slots) + 1] = o
  BY <1>1, <1>2
<1>8. \A n \in DOMAIN slots : w.objects[w.managed[n]] = made[slots[n]]
  BY <1>4, <1>5, <1>7
<1>9. \A a, b \in DOMAIN w.managed : w.objects[w.managed[a]].id = w.objects[w.managed[b]].id => a = b
  <2> DEFINE ids(n) == w.objects[w.managed[n]].id
  <2>1. \A n \in DOMAIN slots : ids(n) = made[slots[n]].id /\ ids(n) # id
    BY <1>4, <1>8
  <2>2. ids(Len(slots) + 1) = id
    BY <1>3, <1>5, <1>7
  <2>3. \A a, b \in DOMAIN slots : ids(a) = ids(b) => a = b
    BY <1>2, <2>1
  <2> HIDE DEF ids
  <2>4. \A a, b \in DOMAIN w.managed : ids(a) = ids(b) => a = b
    BY <1>7, <2>1, <2>2, <2>3
  <2> QED
    BY <2>4 DEF ids
<1>10. AreSlots(w.objects, w.managed)
  BY <1>5, <1>6, <1>9 DEF AreSlots
<1> QED
  BY <1>5, <1>7, <1>8, <1>10 DEF w, made, slots, new

LEMMA JoinIs ==
    ASSUME NEW S, NEW s \in Seq(S), NEW t \in Seq(S)
    PROVE  /\ s \o t \in Seq(S) /\ Len(s \o t) = Len(s) + Len(t)
           /\ \A n \in 1 .. Len(t) : (s \o t)[Len(s) + n] = t[n]
  OBVIOUS

LEMMA DefaultsAre ==
    ASSUME NEW m, m.objects \in Seq(SlotObjects), m.managed = << >>
    PROVE  LET w == AddDefaultSlots(m)
           IN  /\ IsManager(w) /\ AreSlots(w.objects, w.managed)
               /\ \A n \in DOMAIN w.managed : w.objects[w.managed[n]] = NewSlot(w.objects[w.managed[n]].id)
<1> DEFINE w == AddDefaultSlots(m)
           first == Len(m.objects)
           made == m.objects
           new == [n \in DOMAIN DefaultIDs |-> NewSlot(DefaultIDs[n])]
           slots == [n \in DOMAIN DefaultIDs |-> first + n]
           size == Len(DefaultIDs)
<1>1. IsManager(w) /\ w.objects = made \o new /\ w.managed = slots
  BY DEF AddDefaultSlots, IsManager
<1>2. /\ DefaultIDs \in Seq(SlotIDs) /\ size \in Nat /\ DOMAIN DefaultIDs = 1 .. size
      /\ \A a, b \in DOMAIN DefaultIDs : DefaultIDs[a] = DefaultIDs[b] => a = b
  BY ManagerAssumption
<1>3. /\ new \in Seq(SlotObjects) /\ Len(new) = size
      /\ \A n \in 1 .. size : new[n] = NewSlot(DefaultIDs[n]) /\ new[n].id = DefaultIDs[n]
  <2>1. \A n \in DOMAIN DefaultIDs : NewSlot(DefaultIDs[n]) \in SlotObjects /\ NewSlot(DefaultIDs[n]).id = DefaultIDs[n]
    BY <1>2, NewSlotIs
  <2> QED
    BY <1>2, <2>1
<1>4. first \in Nat /\ slots \in Seq(1 .. first + size) /\ DOMAIN slots = 1 .. size
      /\ \A n \in 1 .. size : slots[n] = first + n
  BY <1>2
<1> HIDE DEF w, made, new, slots, size
<1>5. /\ w.objects \in Seq(SlotObjects) /\ Len(w.objects) = first + size
      /\ \A n \in 1 .. size : w.objects[first + n] = new[n]
  <2>1. made \in Seq(SlotObjects) /\ Len(made) = first
    BY DEF made
  <2> HIDE DEF first
  <2>2. /\ made \o new \in Seq(SlotObjects) /\ Len(made \o new) = Len(made) + Len(new)
        /\ \A n \in 1 .. Len(new) : (made \o new)[Len(made) + n] = new[n]
    <3>1. made \in Seq(SlotObjects) /\ new \in Seq(SlotObjects)
      BY <1>3, <2>1
    <3> QED
      BY ONLY <3>1, JoinIs
  <2> QED
    BY <1>1, <1>3, <2>1, <2>2
<1>6. \A n \in 1 .. size : w.objects[w.managed[n]] = NewSlot(DefaultIDs[n]) /\ w.objects[w.managed[n]].id = DefaultIDs[n]
  <2> HIDE DEF first
  <2> SUFFICES ASSUME NEW n \in 1 .. size
               PROVE  w.objects[w.managed[n]] = NewSlot(DefaultIDs[n]) /\ w.objects[w.managed[n]].id = DefaultIDs[n]
    OBVIOUS
  <2>1. w.managed[n] = first + n
    BY ONLY <1>1, <1>4, n \in 1 .. size
  <2>2. w.objects[first + n] = new[n]
    BY ONLY <1>5, n \in 1 .. size
  <2>3. new[n] = NewSlot(DefaultIDs[n]) /\ new[n].id = DefaultIDs[n]
    BY ONLY <1>3, n \in 1 .. size
  <2> QED
    BY ONLY <2>1, <2>2, <2>3
<1> HIDE DEF first
<1>7. AreSlots(w.objects, w.managed)
  <2>1. \A a, b \in DOMAIN w.managed : w.objects[w.managed[a]].id = w.objects[w.managed[b]].id => a = b
    BY <1>1, <1>2, <1>4, <1>6
  <2> QED
    BY <1>1, <1>4, <1>5, <2>1 DEF AreSlots
<1>8. \A n \in DOMAIN w.managed : w.objects[w.managed[n]] = NewSlot(w.objects[w.managed[n]].id)
  BY <1>1, <1>4, <1>6
<1> QED
  BY <1>1, <1>7, <1>8 DEF w

\* What a slot of the save finds: the one that is there, new, or one that is added.
LEMMA LoadedOneIs ==
    ASSUME NEW m, IsManager(m), AreSlots(m.objects, m.managed), NEW d \in SavedSlots, NEW invalid,
           \A n \in DOMAIN m.managed : m.objects[m.managed[n]].id = d.id => m.objects[m.managed[n]] = NewSlot(d.id)
    PROVE  LET w == LoadOneSlot(m, d, invalid)
           IN  /\ IsManager(w) /\ AreSlots(w.objects, w.managed)
               /\ \E n \in DOMAIN w.managed : /\ w.objects[w.managed[n]].id = d.id
                                              /\ LoadedFrom(w.objects[w.managed[n]], d, invalid)
               /\ \A n \in DOMAIN m.managed :
                    /\ n \in DOMAIN w.managed /\ w.managed[n] = m.managed[n]
                    /\ w.objects[w.managed[n]].id = m.objects[m.managed[n]].id
                    /\ m.objects[m.managed[n]].id # d.id => w.objects[w.managed[n]] = m.objects[m.managed[n]]
               /\ \A n \in DOMAIN w.managed \ DOMAIN m.managed : w.objects[w.managed[n]].id = d.id
<1> DEFINE with == IF FindSlot(m, d.id) = 0 THEN AddSlot(m, d.id) ELSE m
           o == FindSlot(with, d.id)
           loaded == LoadSlotData(with.objects[o], d, invalid)
           w == LoadOneSlot(m, d, invalid)
<1>1. w = [with EXCEPT !.objects[o] = loaded]
  BY DEF LoadOneSlot
<1>2. d.id \in SlotIDs
  BY DEF SavedSlots
<1>3. /\ IsManager(with) /\ AreSlots(with.objects, with.managed)
      /\ \A n \in DOMAIN m.managed :
           /\ n \in DOMAIN with.managed /\ with.managed[n] = m.managed[n]
           /\ with.objects[with.managed[n]] = m.objects[m.managed[n]]
      /\ \E n \in DOMAIN with.managed : with.objects[with.managed[n]] = NewSlot(d.id)
      /\ \A n \in DOMAIN with.managed \ DOMAIN m.managed : with.objects[with.managed[n]] = NewSlot(d.id)
  <2>1. CASE FindSlot(m, d.id) = 0
    <3>1. with = AddSlot(m, d.id) /\ IsManager(with)
      BY <2>1 DEF AddSlot, IsManager
    <3>2. /\ AreSlots(with.objects, with.managed)
          /\ DOMAIN with.managed = DOMAIN m.managed \cup {Len(m.managed) + 1}
          /\ \A n \in DOMAIN m.managed :
               with.managed[n] = m.managed[n] /\ with.objects[with.managed[n]] = m.objects[m.managed[n]]
          /\ with.managed[Len(m.managed) + 1] = Len(m.objects) + 1
          /\ with.objects[Len(m.objects) + 1] = NewSlot(d.id)
      BY <1>2, <2>1, <3>1, AddSlotIs
    <3> HIDE DEF with
    <3> QED
      BY <3>1, <3>2
  <2>2. CASE FindSlot(m, d.id) # 0
    <3>1. with = m
      BY <2>2
    <3>2. PICK n \in DOMAIN m.managed : m.objects[m.managed[n]].id = d.id
      BY <2>2, FindSlotIs
    <3> HIDE DEF with
    <3> QED
      BY <3>1, <3>2
  <2> QED
    BY <2>1, <2>2
<1>4. NewSlot(d.id).id = d.id
  BY <1>2, NewSlotIs
<1>5. PICK at \in DOMAIN with.managed : with.objects[with.managed[at]] = NewSlot(d.id)
  BY <1>3
<1>6. o = with.managed[at] /\ with.objects[o] = NewSlot(d.id)
  <2> HIDE DEF with
  <2> QED
    BY <1>3, <1>4, <1>5, FoundIs
<1>7. loaded \in SlotObjects /\ loaded.id = d.id /\ LoadedFrom(loaded, d, invalid)
  BY <1>6, LoadedIs
<1>8. IsManager(w) /\ w.objects = [with.objects EXCEPT ![o] = loaded] /\ w.managed = with.managed
  <2> HIDE DEF with, o, loaded
  <2>1. PICK a, b, c, e : with = [objects |-> a, managed |-> b, heard |-> c, replicated |-> e]
    BY <1>3 DEF IsManager
  <2>2. w = [objects |-> [a EXCEPT ![o] = loaded], managed |-> b, heard |-> c, replicated |-> e]
    BY <1>1, <2>1
  <2> QED
    BY <2>1, <2>2 DEF IsManager
<1> HIDE DEF with, o, loaded, w
<1>9. /\ with.objects \in Seq(SlotObjects) /\ with.managed \in Seq(1 .. Len(with.objects))
      /\ \A a, b \in DOMAIN with.managed : with.objects[with.managed[a]].id = with.objects[with.managed[b]].id => a = b
  BY <1>3 DEF AreSlots
<1>10. o \in 1 .. Len(with.objects) /\ \A n \in DOMAIN with.managed : with.managed[n] \in 1 .. Len(with.objects)
  BY <1>5, <1>6, <1>9
<1>11. /\ w.objects \in Seq(SlotObjects) /\ Len(w.objects) = Len(with.objects)
       /\ w.objects[o] = loaded /\ \A k \in 1 .. Len(with.objects) : k # o => w.objects[k] = with.objects[k]
  BY <1>7, <1>8, <1>9, <1>10
<1>12. \A n \in DOMAIN with.managed : w.objects[w.managed[n]].id = with.objects[with.managed[n]].id
  BY <1>4, <1>6, <1>7, <1>8, <1>10, <1>11
<1>13. AreSlots(w.objects, w.managed)
  BY <1>8, <1>9, <1>11, <1>12 DEF AreSlots
<1>14. \A n \in DOMAIN m.managed :
         /\ n \in DOMAIN w.managed /\ w.managed[n] = m.managed[n]
         /\ w.objects[w.managed[n]].id = m.objects[m.managed[n]].id
         /\ m.objects[m.managed[n]].id # d.id => w.objects[w.managed[n]] = m.objects[m.managed[n]]
  BY <1>3, <1>4, <1>6, <1>8, <1>10, <1>11, <1>12
<1>15. \E n \in DOMAIN w.managed : w.objects[w.managed[n]].id = d.id /\ LoadedFrom(w.objects[w.managed[n]], d, invalid)
  BY <1>5, <1>6, <1>7, <1>8, <1>11
<1>16. \A n \in DOMAIN w.managed \ DOMAIN m.managed : w.objects[w.managed[n]].id = d.id
  BY <1>3, <1>4, <1>8, <1>12
<1> QED
  BY <1>8, <1>13, <1>14, <1>15, <1>16 DEF w

-----------------------------------------------------------------------------
(* The loop over what was saved.                                            *)

IsLoad(f, perSlot, invalid) ==
    f = [n \in 0 .. Len(perSlot) |->
           IF n = 0 THEN AddDefaultSlots(WithoutSlots(Manager))
           ELSE LoadOneSlot(f[n - 1], perSlot[n], invalid)]

\* The loop ends: there is such a function, and the manager becomes its last value.
LEMMA LoadEnds ==
    ASSUME NEW invalid, NEW S, equipSave.perSlot \in Seq(S)
    PROVE  \E f : /\ IsLoad(f, equipSave.perSlot, invalid)
                  /\ LET last == f[Len(equipSave.perSlot)]
                     IN  LoadedManager(invalid) = IF replicating THEN AddSubobjectsForReplication(last) ELSE last
<1> DEFINE perSlot == equipSave.perSlot
           size == Len(perSlot)
           start == AddDefaultSlots(WithoutSlots(Manager))
           step(m, n) == LoadOneSlot(m, perSlot[n], invalid)
           Loads(f, k) == f = [n \in 0 .. k |-> IF n = 0 THEN start ELSE step(f[n - 1], n)]
           stuck == {k \in Nat : ~ \E f : Loads(f, k)}
<1>1. \A f : IsLoad(f, perSlot, invalid) <=> Loads(f, size)
  BY DEF IsLoad
<1>2. size \in Nat
  OBVIOUS
<1>3. \E f : Loads(f, size)
  <2>1. SUFFICES ASSUME NEW one \in stuck PROVE FALSE
    <3> HIDE DEF Loads
    <3> QED
      BY <1>2
  <2>2. PICK k \in stuck : \A j \in stuck : k <= j
    <3>1. stuck \in SUBSET Nat
      <4> HIDE DEF Loads
      <4> QED
        OBVIOUS
    <3> HIDE DEF stuck
    <3> QED
      BY <2>1, <3>1, LeastNatural
  <2> HIDE DEF step, start
  <2>3. CASE k = 0
    <3> DEFINE f == [n \in 0 .. 0 |-> start]
    <3>1. Loads(f, 0)
      OBVIOUS
    <3> HIDE DEF f, Loads
    <3> QED
      BY <2>2, <2>3, <3>1
  <2>4. CASE k # 0
    <3>1. k - 1 \in Nat /\ ~(k <= k - 1) /\ k \in Nat
      BY <2>2, <2>4
    <3>2. PICK f : Loads(f, k - 1)
      <4> HIDE DEF Loads
      <4> QED
        BY <2>2, <3>1
    <3> DEFINE g == [n \in 0 .. k |-> IF n = k THEN step(f[k - 1], k) ELSE f[n]]
    <3>3. \A n \in 0 .. k : g[n] = IF n = 0 THEN start ELSE step(g[n - 1], n)
      <4> TAKE n \in 0 .. k
      <4>1. CASE n = k
        BY <2>4, <3>1, <4>1
      <4>2. CASE n # k
        <5>1. n \in 0 .. (k - 1) /\ (n # 0 => n - 1 \in 0 .. (k - 1) /\ n - 1 # k)
          BY <3>1, <4>2
        <5>2. f[n] = IF n = 0 THEN start ELSE step(f[n - 1], n)
          BY <3>2, <5>1
        <5>3. g[n] = f[n] /\ (n # 0 => g[n - 1] = f[n - 1])
          BY <3>1, <4>2, <5>1
        <5> QED
          BY <5>2, <5>3
      <4> QED
        BY <4>1, <4>2
    <3>4. Loads(g, k)
      <4>1. g = [n \in 0 .. k |-> g[n]]
        OBVIOUS
      <4> HIDE DEF g
      <4> QED
        BY <3>3, <4>1
    <3> HIDE DEF g, Loads
    <3> QED
      BY <2>2, <3>4
  <2> QED
    BY <2>3, <2>4
<1> DEFINE after[n \in 0 .. size] ==
             IF n = 0 THEN AddDefaultSlots(WithoutSlots(Manager)) ELSE LoadOneSlot(after[n - 1], perSlot[n], invalid)
<1>4. after = CHOOSE f : IsLoad(f, perSlot, invalid)
  BY DEF IsLoad, after
<1>5. LoadedManager(invalid) = IF replicating THEN AddSubobjectsForReplication(after[size]) ELSE after[size]
  BY DEF LoadedManager
<1> HIDE DEF after, Loads
<1>6. IsLoad(after, perSlot, invalid)
  BY <1>1, <1>3, <1>4
<1> QED
  BY <1>5, <1>6

\* What the first n slots of a save make of the manager: each is there with what
\* was in it, and other slots are new.
Restored(m, perSlot, n, invalid) ==
    /\ IsManager(m) /\ AreSlots(m.objects, m.managed)
    /\ \A j \in 1 .. n : \E k \in DOMAIN m.managed :
         m.objects[m.managed[k]].id = perSlot[j].id /\ LoadedFrom(m.objects[m.managed[k]], perSlot[j], invalid)
    /\ \A k \in DOMAIN m.managed :
         \/ m.objects[m.managed[k]] = NewSlot(m.objects[m.managed[k]].id)
         \/ \E j \in 1 .. n : perSlot[j].id = m.objects[m.managed[k]].id

LEMMA RestoredNext ==
    ASSUME NEW m, NEW perSlot, NEW n \in Nat, NEW invalid, AreSaved(perSlot), n + 1 \in 1 .. Len(perSlot),
           Restored(m, perSlot, n, invalid)
    PROVE  Restored(LoadOneSlot(m, perSlot[n + 1], invalid), perSlot, n + 1, invalid)
<1> DEFINE d == perSlot[n + 1]
           w == LoadOneSlot(m, d, invalid)
           old(k) == m.objects[m.managed[k]]
           new(k) == w.objects[w.managed[k]]
<1>1. IsManager(m) /\ AreSlots(m.objects, m.managed)
  BY DEF Restored
<1>2. d \in SavedSlots /\ d.id \in SlotIDs
  BY DEF AreSaved, SavedSlots
<1>3. \A j \in 1 .. n : perSlot[j].id # d.id
  BY DEF AreSaved
<1>4. \A j \in 1 .. n : \E k \in DOMAIN m.managed : old(k).id = perSlot[j].id /\ LoadedFrom(old(k), perSlot[j], invalid)
  BY DEF Restored
<1>5. \A k \in DOMAIN m.managed : old(k) = NewSlot(old(k).id) \/ \E j \in 1 .. n : perSlot[j].id = old(k).id
  BY DEF Restored
<1> HIDE DEF d
<1>6. \A k \in DOMAIN m.managed : old(k).id = d.id => old(k) = NewSlot(d.id)
  BY <1>3, <1>5
<1>7. /\ IsManager(w) /\ AreSlots(w.objects, w.managed)
      /\ \E k \in DOMAIN w.managed : new(k).id = d.id /\ LoadedFrom(new(k), d, invalid)
      /\ \A k \in DOMAIN m.managed :
           /\ k \in DOMAIN w.managed /\ w.managed[k] = m.managed[k]
           /\ new(k).id = old(k).id
           /\ old(k).id # d.id => new(k) = old(k)
      /\ \A k \in DOMAIN w.managed \ DOMAIN m.managed : new(k).id = d.id
  BY <1>1, <1>2, <1>6, LoadedOneIs
<1> HIDE DEF w, old, new
<1>8. \A j \in 1 .. n + 1 : \E k \in DOMAIN w.managed : new(k).id = perSlot[j].id /\ LoadedFrom(new(k), perSlot[j], invalid)
  <2> TAKE j \in 1 .. n + 1
  <2>1. CASE j = n + 1
    BY <1>7, <2>1 DEF d
  <2>2. CASE j # n + 1
    <3>1. j \in 1 .. n
      BY <2>2
    <3>2. PICK k \in DOMAIN m.managed : old(k).id = perSlot[j].id /\ LoadedFrom(old(k), perSlot[j], invalid)
      BY <1>4, <3>1
    <3>3. k \in DOMAIN w.managed /\ new(k) = old(k)
      BY <1>3, <1>7, <3>1, <3>2
    <3> QED
      BY <3>2, <3>3
  <2> QED
    BY <2>1, <2>2
<1>9. \A k \in DOMAIN w.managed : new(k) = NewSlot(new(k).id) \/ \E j \in 1 .. n + 1 : perSlot[j].id = new(k).id
  <2> TAKE k \in DOMAIN w.managed
  <2>1. n + 1 \in 1 .. n + 1 /\ \A j \in 1 .. n : j \in 1 .. n + 1
    OBVIOUS
  <2>2. CASE k \notin DOMAIN m.managed
    BY <1>7, <2>1, <2>2 DEF d
  <2>3. CASE k \in DOMAIN m.managed /\ old(k).id # d.id
    BY <1>5, <1>7, <2>1, <2>3
  <2>4. CASE k \in DOMAIN m.managed /\ old(k).id = d.id
    <3>1. new(k).id = d.id
      BY <1>7, <2>4
    <3> QED
      BY <2>1, <3>1 DEF d
  <2> QED
    BY <2>2, <2>3, <2>4
<1> QED
  BY <1>7, <1>8, <1>9 DEF Restored, d, w, old, new

LEMMA AllAreRestored ==
    ASSUME SlotsAreOwn, equipSave.there, NEW invalid, NEW f, IsLoad(f, equipSave.perSlot, invalid)
    PROVE  Restored(f[Len(equipSave.perSlot)], equipSave.perSlot, Len(equipSave.perSlot), invalid)
<1> DEFINE perSlot == equipSave.perSlot
           size == Len(perSlot)
           bad == {n \in 0 .. size : ~ Restored(f[n], perSlot, n, invalid)}
<1>1. AreSaved(perSlot) /\ size \in Nat /\ objects \in Seq(SlotObjects)
  BY DEF SlotsAreOwn, AreSlots, AreSaved
<1>2. f[0] = AddDefaultSlots(WithoutSlots(Manager)) /\ \A n \in 1 .. size : f[n] = LoadOneSlot(f[n - 1], perSlot[n], invalid)
  <2>1. \A n \in 0 .. size : f[n] = IF n = 0 THEN AddDefaultSlots(WithoutSlots(Manager)) ELSE LoadOneSlot(f[n - 1], perSlot[n], invalid)
    BY DEF IsLoad
  <2>2. 0 \in 0 .. size /\ \A n \in 1 .. size : n \in 0 .. size /\ n # 0
    BY <1>1
  <2> QED
    BY <2>1, <2>2
<1>3. Restored(f[0], perSlot, 0, invalid)
  <2> DEFINE m == WithoutSlots(Manager)
  <2>1. m.objects = objects /\ m.managed = << >>
    BY DEF WithoutSlots, Manager
  <2> HIDE DEF m
  <2>2. /\ IsManager(f[0]) /\ AreSlots(f[0].objects, f[0].managed)
        /\ \A n \in DOMAIN f[0].managed : f[0].objects[f[0].managed[n]] = NewSlot(f[0].objects[f[0].managed[n]].id)
    BY <1>1, <1>2, <2>1, DefaultsAre DEF m
  <2>3. \A j \in 1 .. 0 : FALSE
    OBVIOUS
  <2> QED
    BY <2>2, <2>3 DEF Restored
<1> HIDE DEF perSlot
<1>4. \A n \in 0 .. size : n # size /\ Restored(f[n], perSlot, n, invalid) => Restored(f[n + 1], perSlot, n + 1, invalid)
  <2> TAKE n \in 0 .. size
  <2> HAVE n # size /\ Restored(f[n], perSlot, n, invalid)
  <2>1. n \in Nat /\ n + 1 \in 1 .. size /\ (n + 1) - 1 = n
    BY <1>1
  <2>2. f[n + 1] = LoadOneSlot(f[n], perSlot[n + 1], invalid)
    BY <1>2, <2>1
  <2> QED
    BY <1>1, <2>1, <2>2, RestoredNext
<1>5. bad = {}
  <2>1. SUFFICES ASSUME NEW one \in bad PROVE FALSE
    OBVIOUS
  <2>2. PICK k \in bad : \A j \in bad : k <= j
    <3>1. bad \in SUBSET Nat
      BY <1>1
    <3> HIDE DEF bad
    <3> QED
      BY <2>1, <3>1, LeastNatural
  <2>3. k # 0
    BY <1>3, <2>2
  <2>4. k - 1 \in 0 .. size /\ k - 1 # size /\ ~(k <= k - 1) /\ (k - 1) + 1 = k
    BY <1>1, <2>2, <2>3
  <2>5. Restored(f[k - 1], perSlot, k - 1, invalid)
    BY <2>2, <2>4
  <2>6. Restored(f[k], perSlot, k, invalid)
    BY <1>4, <2>4, <2>5
  <2> QED
    BY <2>2, <2>6
<1>6. size \in 0 .. size
  BY <1>1
<1> QED
  BY <1>5, <1>6 DEF perSlot

LEMMA ReplicatedOnly ==
    ASSUME NEW m, IsManager(m)
    PROVE  LET w == AddSubobjectsForReplication(m)
           IN  IsManager(w) /\ w.objects = m.objects /\ w.managed = m.managed
<1>1. PICK a, b, c, e : m = [objects |-> a, managed |-> b, heard |-> c, replicated |-> e]
  BY DEF IsManager
<1> QED
  BY <1>1 DEF AddSubobjectsForReplication, IsManager

\* What a load makes of the manager, whether or not it replicates.
LEMMA LoadedManagerIs ==
    ASSUME SlotsAreOwn, equipSave.there, NEW invalid
    PROVE  Restored(LoadedManager(invalid), equipSave.perSlot, Len(equipSave.perSlot), invalid)
<1> DEFINE perSlot == equipSave.perSlot
           size == Len(perSlot)
<1>1. perSlot \in Seq(SavedSlots)
  BY DEF SlotsAreOwn, AreSaved
<1>2. PICK f : /\ IsLoad(f, perSlot, invalid)
               /\ LoadedManager(invalid) = IF replicating THEN AddSubobjectsForReplication(f[size]) ELSE f[size]
  BY <1>1, LoadEnds
<1>3. Restored(f[size], perSlot, size, invalid)
  BY <1>2, AllAreRestored
<1> HIDE DEF perSlot
<1>4. Restored(AddSubobjectsForReplication(f[size]), perSlot, size, invalid)
  <2>1. IsManager(f[size])
    BY <1>3 DEF Restored
  <2>2. IsManager(AddSubobjectsForReplication(f[size]))
        /\ AddSubobjectsForReplication(f[size]).objects = f[size].objects
        /\ AddSubobjectsForReplication(f[size]).managed = f[size].managed
    BY <2>1, ReplicatedOnly
  <2> QED
    BY <1>3, <2>2 DEF Restored
<1> QED
  BY <1>2, <1>3, <1>4 DEF perSlot

-----------------------------------------------------------------------------
(* Every step.                                                              *)

\* Equip and Unequip: one of the slots has other contents.
LEMMA OneSlotChanges ==
    ASSUME NEW made, NEW slots, AreSlots(made, slots), NEW n \in DOMAIN slots, NEW o \in SlotObjects,
           o.id = made[slots[n]].id
    PROVE  AreSlots([made EXCEPT ![slots[n]] = o], slots)
<1> DEFINE w == [made EXCEPT ![slots[n]] = o]
<1>1. /\ made \in Seq(SlotObjects) /\ slots \in Seq(1 .. Len(made))
      /\ \A a, b \in DOMAIN slots : made[slots[a]].id = made[slots[b]].id => a = b
  BY DEF AreSlots
<1>2. \A k \in DOMAIN slots : slots[k] \in 1 .. Len(made)
  BY <1>1
<1>3. w \in Seq(SlotObjects) /\ Len(w) = Len(made)
      /\ \A k \in 1 .. Len(made) : w[k] = IF k = slots[n] THEN o ELSE made[k]
  BY <1>1, <1>2
<1> HIDE DEF w
<1>4. \A k \in DOMAIN slots : w[slots[k]].id = made[slots[k]].id
  BY <1>2, <1>3
<1> QED
  BY <1>1, <1>3, <1>4 DEF AreSlots, w

LEMMA ManagerIs ==
    IsManager(Manager) /\ Manager.objects = objects /\ Manager.managed = managed
  BY DEF Manager, IsManager

LEMMA SlotsStart == ManagerInit => SlotsAreOwn
  BY DEF ManagerInit, SlotsAreOwn, AreSlots, NoEquipSave

LEMMA SlotsStep == SlotsAreOwn /\ [ManagerNext]_managerVars => SlotsAreOwn'
<1> SUFFICES ASSUME SlotsAreOwn, [ManagerNext]_managerVars PROVE SlotsAreOwn'
  OBVIOUS
<1>1. /\ AreSlots(objects, managed) /\ (equipSave.there => AreSaved(equipSave.perSlot))
      /\ objects \in Seq(SlotObjects) /\ managed \in Seq(1 .. Len(objects))
      /\ \A n \in DOMAIN managed : managed[n] \in 1 .. Len(objects)
      /\ \A n \in DOMAIN managed : objects[managed[n]] \in SlotObjects
  BY DEF SlotsAreOwn, AreSlots
<1>2. CASE ComponentStarts
  <2>1. CASE managed = << >>
    <3>1. AreSlots(AddDefaultSlots(Manager).objects, AddDefaultSlots(Manager).managed)
      BY <1>1, <2>1, ManagerIs, DefaultsAre
    <3> QED
      BY <1>1, <1>2, <3>1 DEF ComponentStarts, ManagerBecomes, SlotsAreOwn
  <2>2. CASE managed # << >>
    <3>1. AddDefaultSlots(Manager) = Manager
      BY <2>2 DEF AddDefaultSlots, Manager
    <3> QED
      BY <1>1, <1>2, <3>1, ManagerIs DEF ComponentStarts, ManagerBecomes, SlotsAreOwn
  <2> QED
    BY <2>1, <2>2
<1>3. CASE ReadyForReplication
  BY <1>1, <1>3, ManagerIs, ReplicatedOnly DEF ReadyForReplication, ManagerBecomes, SlotsAreOwn
<1>4. ASSUME NEW id \in SlotIDs, GameAddsSlot(id) PROVE SlotsAreOwn'
  <2>1. FindSlot(Manager, id) = 0 /\ AreSlots(Manager.objects, Manager.managed)
    BY <1>1, <1>4, ManagerIs DEF GameAddsSlot
  <2>2. AreSlots(AddSlot(Manager, id).objects, AddSlot(Manager, id).managed)
    BY <2>1, AddSlotIs
  <2> QED
    BY <1>1, <1>4, <2>2 DEF GameAddsSlot, ManagerBecomes, SlotsAreOwn
<1>5. ASSUME NEW n \in DOMAIN managed, Unequip(n) PROVE SlotsAreOwn'
  <2>1. TakeOut(objects[managed[n]]) \in SlotObjects /\ TakeOut(objects[managed[n]]).id = objects[managed[n]].id
    BY <1>1, TakenIs
  <2>2. objects' = [objects EXCEPT ![managed[n]] = TakeOut(objects[managed[n]])]
    BY <1>5 DEF Unequip
  <2>3. AreSlots(objects', managed)
    BY <1>1, <2>1, <2>2, OneSlotChanges
  <2> QED
    BY <1>1, <1>5, <2>3 DEF Unequip, SlotsAreOwn
<1>6. ASSUME NEW n \in DOMAIN managed, NEW item \in Equipment, Equip(n, item) PROVE SlotsAreOwn'
  <2> DEFINE o == StoreInto(objects[managed[n]], item, 1)
  <2>1. o \in SlotObjects /\ o.id = objects[managed[n]].id
    <3>1. 1 \in Nat \ {0}
      OBVIOUS
    <3> QED
      BY <1>1, <3>1, StoredIs
  <2>2. objects' = [objects EXCEPT ![managed[n]] = o]
    BY <1>6 DEF Equip
  <2>3. AreSlots(objects', managed)
    <3> HIDE DEF o
    <3> QED
      BY <1>1, <2>1, <2>2, OneSlotChanges
  <2> QED
    BY <1>1, <1>6, <2>3 DEF Equip, SlotsAreOwn
<1>7. CASE SaveSlots
  <2> DEFINE slotData == [n \in DOMAIN managed |-> MakeSlotData(objects[managed[n]])]
  <2>1. equipSave'.there = TRUE /\ equipSave'.perSlot = slotData
    BY <1>7 DEF SaveSlots
  <2>2. \A n \in DOMAIN managed : slotData[n] \in SavedSlots /\ slotData[n].id = objects[managed[n]].id
    BY <1>1, SavedIs
  <2>3. slotData \in Seq(SavedSlots) /\ DOMAIN slotData = DOMAIN managed
    <3>1. DOMAIN managed = 1 .. Len(managed) /\ Len(managed) \in Nat
      BY <1>1
    <3> QED
      BY <2>2, <3>1
  <2> HIDE DEF slotData
  <2>4. AreSaved(slotData)
    BY <1>1, <2>2, <2>3 DEF AreSaved, AreSlots
  <2> QED
    BY <1>1, <1>7, <2>1, <2>4 DEF SaveSlots, SlotsAreOwn
<1>8. ASSUME NEW invalid \in SUBSET Equipment, LoadSlots(invalid) PROVE SlotsAreOwn'
  <2>1. AreSlots(LoadedManager(invalid).objects, LoadedManager(invalid).managed)
    BY <1>8, LoadedManagerIs DEF LoadSlots, Restored
  <2> QED
    BY <1>1, <1>8, <2>1 DEF LoadSlots, ManagerBecomes, SlotsAreOwn
<1>9. CASE UNCHANGED managerVars
  BY <1>1, <1>9 DEF managerVars, SlotsAreOwn
<1> QED
  BY <1>2, <1>3, <1>4, <1>5, <1>6, <1>7, <1>8, <1>9 DEF ManagerNext

\* The slots of the manager are objects of their own IDs, and so are those of a
\* save, whatever is added, put in, taken out, saved and loaded: FindSlot, which
\* LoadSlotData and clients address slots by, finds the only one.
THEOREM SlotsStayOwn == ManagerSpec => []SlotsAreOwn
  BY SlotsStart, SlotsStep, PTL DEF ManagerSpec

LEMMA LoadIsRight ==
    ASSUME SlotsAreOwn, NEW invalid \in SUBSET Equipment, LoadSlots(invalid)
    PROVE  /\ \A n \in DOMAIN equipSave.perSlot :
                 LET d == equipSave.perSlot[n]
                     o == objects'[FindSlot(Manager', d.id)]
                 IN  IF d.item \in invalid \cup {NothingEquipped} THEN ~Occupied(o)
                     ELSE o.item = d.item /\ o.copies = d.copies /\ o.key # NoKey
           /\ \A k \in DOMAIN managed' :
                 Occupied(objects'[managed'[k]]) =>
                     \E n \in DOMAIN equipSave.perSlot :
                         equipSave.perSlot[n].id = objects'[managed'[k]].id
<1> DEFINE perSlot == equipSave.perSlot
           size == Len(perSlot)
           m == Manager'
<1>1. equipSave.there /\ perSlot \in Seq(SavedSlots) /\ DOMAIN perSlot = 1 .. size
  BY DEF LoadSlots, SlotsAreOwn, AreSaved
<1>2. m.objects = objects' /\ m.managed = managed'
  BY DEF Manager
<1>3. objects' = LoadedManager(invalid).objects /\ managed' = LoadedManager(invalid).managed
  BY DEF LoadSlots, ManagerBecomes
<1>4. Restored(LoadedManager(invalid), perSlot, size, invalid)
  BY <1>1, LoadedManagerIs
<1> HIDE DEF perSlot, m
<1>5. /\ AreSlots(objects', managed')
      /\ \A j \in 1 .. size : \E k \in DOMAIN managed' :
           objects'[managed'[k]].id = perSlot[j].id /\ LoadedFrom(objects'[managed'[k]], perSlot[j], invalid)
      /\ \A k \in DOMAIN managed' :
           \/ objects'[managed'[k]] = NewSlot(objects'[managed'[k]].id)
           \/ \E j \in 1 .. size : perSlot[j].id = objects'[managed'[k]].id
  BY <1>3, <1>4 DEF Restored
<1>6. \A n \in DOMAIN perSlot : LoadedFrom(objects'[FindSlot(m, perSlot[n].id)], perSlot[n], invalid)
  <2> TAKE n \in DOMAIN perSlot
  <2>1. PICK k \in DOMAIN managed' :
          objects'[managed'[k]].id = perSlot[n].id /\ LoadedFrom(objects'[managed'[k]], perSlot[n], invalid)
    BY <1>1, <1>5
  <2>2. FindSlot(m, m.objects[m.managed[k]].id) = m.managed[k]
    BY <1>2, <1>5, FoundIs
  <2> QED
    BY <1>2, <2>1, <2>2
<1>7. \A k \in DOMAIN managed' : Occupied(objects'[managed'[k]]) =>
        \E n \in DOMAIN perSlot : perSlot[n].id = objects'[managed'[k]].id
  <2>1. \A id : ~Occupied(NewSlot(id))
    BY DEF Occupied, NewSlot
  <2> QED
    BY <1>1, <1>5, <2>1
<1> QED
  BY <1>6, <1>7 DEF LoadedFrom, perSlot, m

\* A load gives back every slot that was saved, with its stack if the item is
\* valid, and nothing in any other slot (LoadSaveData, after AddDefaultSlots).
THEOREM LoadsRestoreSlots == ManagerSpec => LoadRestoresSlots
<1>1. SlotsAreOwn => \A invalid \in SUBSET Equipment : LoadSlots(invalid) =>
        /\ \A n \in DOMAIN equipSave.perSlot :
              LET d == equipSave.perSlot[n]
                  o == objects'[FindSlot(Manager', d.id)]
              IN  IF d.item \in invalid \cup {NothingEquipped} THEN ~Occupied(o)
                  ELSE o.item = d.item /\ o.copies = d.copies /\ o.key # NoKey
        /\ \A k \in DOMAIN managed' :
              Occupied(objects'[managed'[k]]) =>
                  \E n \in DOMAIN equipSave.perSlot :
                      equipSave.perSlot[n].id = objects'[managed'[k]].id
  BY LoadIsRight
<1> QED
  BY <1>1, SlotsStayOwn, PTL DEF LoadRestoresSlots

-----------------------------------------------------------------------------
(* FilterIterators: what a filter has of the calls that made it.            *)

CallsMade ==
    [call : {"Invert", "ByMutable", "ByImmutable"}] \cup [call : {"ByClass"}, class : Classes]
    \cup [call : {"By"}, predicate : Predicates]

MadeIn(made, name) == { k \in DOMAIN made : made[k].call = name }
NarrowedIn(made) == MadeIn(made, "ByMutable") \cup MadeIn(made, "ByImmutable")

\* The class is the last that was named and a child of the others.
ClassSays(made, f) ==
    \/ MadeIn(made, "ByClass") = {} /\ f.class = AnyClass
    \/ /\ f.class \in Classes
       /\ \E k \in MadeIn(made, "ByClass") : made[k].class = f.class
       /\ \A k \in MadeIn(made, "ByClass") : made[k].class \in IsClass[f.class]

MutabilitySays(made, f) ==
    \/ NarrowedIn(made) = {} /\ "MutableOnly" \notin f.flags /\ "ImmutableOnly" \notin f.flags
    \/ \E k \in NarrowedIn(made) :
         /\ IsLast(k, NarrowedIn(made))
         /\ "MutableOnly" \in f.flags <=> made[k].call = "ByMutable"
         /\ "ImmutableOnly" \in f.flags <=> made[k].call # "ByMutable"

InvertSays(made, f) == "Inverted" \in f.flags <=> Cardinality(MadeIn(made, "Invert")) % 2 # 0

PredicatesSay(made, f) ==
    /\ f.predicates \in Seq(Predicates)
    /\ \A p : (\E k \in DOMAIN f.predicates : f.predicates[k] = p) <=>
              (\E k \in MadeIn(made, "By") : made[k].predicate = p)

Says(made, f) ==
    /\ made \in Seq(CallsMade)
    /\ f = [class |-> f.class, flags |-> f.flags, predicates |-> f.predicates]
    /\ ClassSays(made, f) /\ MutabilitySays(made, f) /\ InvertSays(made, f) /\ PredicatesSay(made, f)

\* A call comes last.
LEMMA CalledIs ==
    ASSUME NEW made \in Seq(CallsMade), NEW c \in CallsMade
    PROVE  LET w == Append(made, c)
               n == Len(made) + 1
           IN  /\ w \in Seq(CallsMade) /\ w[n] = c
               /\ \A k \in DOMAIN made : k \in Nat /\ k < n /\ w[k] = made[k]
               /\ \A name : MadeIn(w, name) = MadeIn(made, name) \cup (IF c.call = name THEN {n} ELSE {})
<1> DEFINE w == Append(made, c)
           n == Len(made) + 1
<1>1. w \in Seq(CallsMade) /\ w[n] = c /\ n \in Nat \ {0} /\ DOMAIN made = 1 .. n - 1 /\ DOMAIN w = 1 .. n
  OBVIOUS
<1>2. \A k \in DOMAIN made : k \in Nat /\ k < n /\ w[k] = made[k]
  OBVIOUS
<1> HIDE DEF w, n
<1>3. DOMAIN w = DOMAIN made \cup {n}
  BY <1>1
<1>4. \A name : MadeIn(w, name) = MadeIn(made, name) \cup (IF c.call = name THEN {n} ELSE {})
  BY <1>1, <1>2, <1>3 DEF MadeIn
<1> QED
  BY <1>1, <1>2, <1>4 DEF w, n

LEMMA MadeFinite ==
    ASSUME NEW made \in Seq(CallsMade), NEW name
    PROVE  IsFiniteSet(MadeIn(made, name)) /\ MadeIn(made, name) \subseteq 1 .. Len(made)
<1>1. DOMAIN made = 1 .. Len(made) /\ Len(made) \in Nat
  OBVIOUS
<1>2. IsFiniteSet(1 .. Len(made))
  BY <1>1, FS_Interval
<1> QED
  BY <1>1, <1>2, FS_Subset DEF MadeIn

\* Calls that say nothing of a part leave it.
LEMMA ClassKept ==
    ASSUME NEW made \in Seq(CallsMade), NEW c \in CallsMade, c.call # "ByClass", NEW f, NEW g, g.class = f.class,
           ClassSays(made, f)
    PROVE  ClassSays(Append(made, c), g)
<1> DEFINE w == Append(made, c)
<1>1. /\ MadeIn(w, "ByClass") = MadeIn(made, "ByClass")
      /\ \A k \in MadeIn(made, "ByClass") : w[k] = made[k]
  BY CalledIs DEF MadeIn
<1> HIDE DEF w
<1> QED
  BY <1>1 DEF ClassSays, w

LEMMA MutabilityKept ==
    ASSUME NEW made \in Seq(CallsMade), NEW c \in CallsMade, c.call \notin {"ByMutable", "ByImmutable"}, NEW f, NEW g,
           "MutableOnly" \in g.flags <=> "MutableOnly" \in f.flags,
           "ImmutableOnly" \in g.flags <=> "ImmutableOnly" \in f.flags,
           MutabilitySays(made, f)
    PROVE  MutabilitySays(Append(made, c), g)
<1> DEFINE w == Append(made, c)
<1>1. /\ NarrowedIn(w) = NarrowedIn(made)
      /\ \A k \in NarrowedIn(made) : w[k] = made[k]
  BY CalledIs DEF MadeIn, NarrowedIn
<1> HIDE DEF w
<1> QED
  BY <1>1 DEF MutabilitySays, w

LEMMA InvertKept ==
    ASSUME NEW made \in Seq(CallsMade), NEW c \in CallsMade, c.call # "Invert", NEW f, NEW g,
           "Inverted" \in g.flags <=> "Inverted" \in f.flags,
           InvertSays(made, f)
    PROVE  InvertSays(Append(made, c), g)
<1> DEFINE w == Append(made, c)
<1>1. MadeIn(w, "Invert") = MadeIn(made, "Invert") \cup (IF c.call = "Invert" THEN {Len(made) + 1} ELSE {})
  BY CalledIs
<1> HIDE DEF w
<1> QED
  BY <1>1 DEF InvertSays, w

LEMMA PredicatesKept ==
    ASSUME NEW made \in Seq(CallsMade), NEW c \in CallsMade, c.call # "By", NEW f, NEW g, g.predicates = f.predicates,
           PredicatesSay(made, f)
    PROVE  PredicatesSay(Append(made, c), g)
<1> DEFINE w == Append(made, c)
<1>1. /\ MadeIn(w, "By") = MadeIn(made, "By")
      /\ \A k \in MadeIn(made, "By") : w[k] = made[k]
  BY CalledIs DEF MadeIn
<1> HIDE DEF w
<1> QED
  BY <1>1 DEF PredicatesSay, w

\* Invert: an inversion more is one fewer to be taken back.
LEMMA Inverts ==
    ASSUME NEW made, NEW f, Says(made, f), NEW c \in CallsMade, c.call = "Invert",
           NEW g, g = [f EXCEPT !.flags = IF "Inverted" \in @ THEN @ \ {"Inverted"} ELSE @ \cup {"Inverted"}]
    PROVE  Says(Append(made, c), g)
<1>1. made \in Seq(CallsMade)
  BY DEF Says
<1>2. PICK a, b, p : f = [class |-> a, flags |-> b, predicates |-> p]
  BY DEF Says
<1> DEFINE d == IF "Inverted" \in b THEN b \ {"Inverted"} ELSE b \cup {"Inverted"}
<1>3. g = [class |-> a, flags |-> d, predicates |-> p]
  BY <1>2
<1>4. /\ "Inverted" \in d <=> ~("Inverted" \in b)
      /\ "MutableOnly" \in d <=> "MutableOnly" \in b
      /\ "ImmutableOnly" \in d <=> "ImmutableOnly" \in b
  OBVIOUS
<1> HIDE DEF d
<1>5. InvertSays(Append(made, c), g)
  <2> DEFINE S == MadeIn(made, "Invert")
             n == Len(made) + 1
  <2>1. MadeIn(Append(made, c), "Invert") = S \cup {n} /\ n \notin S
    BY <1>1, CalledIs DEF MadeIn
  <2>2. IsFiniteSet(S)
    BY <1>1, MadeFinite
  <2> HIDE DEF S, n
  <2>3. Cardinality(S) \in Nat /\ Cardinality(S \cup {n}) = Cardinality(S) + 1
    BY <2>1, <2>2, FS_CardinalityType, FS_AddElement
  <2>4. (Cardinality(S) + 1) % 2 # 0 <=> ~(Cardinality(S) % 2 # 0)
    BY <2>3
  <2>5. "Inverted" \in b <=> Cardinality(S) % 2 # 0
    BY <1>2 DEF Says, InvertSays, S
  <2>6. g.flags = d
    BY <1>3
  <2> QED
    BY <1>4, <2>1, <2>3, <2>4, <2>5, <2>6 DEF InvertSays
<1>6. ClassSays(Append(made, c), g) /\ MutabilitySays(Append(made, c), g) /\ PredicatesSay(Append(made, c), g)
  <2>1. ClassSays(made, f) /\ MutabilitySays(made, f) /\ PredicatesSay(made, f)
    BY DEF Says
  <2>2. /\ g.class = f.class /\ g.predicates = f.predicates
        /\ "MutableOnly" \in g.flags <=> "MutableOnly" \in f.flags
        /\ "ImmutableOnly" \in g.flags <=> "ImmutableOnly" \in f.flags
    BY <1>2, <1>3, <1>4
  <2>3. ClassSays(Append(made, c), g)
    BY <1>1, <2>1, <2>2, ClassKept
  <2>4. MutabilitySays(Append(made, c), g)
    BY <1>1, <2>1, <2>2, MutabilityKept
  <2>5. PredicatesSay(Append(made, c), g)
    BY <1>1, <2>1, <2>2, PredicatesKept
  <2> QED
    BY <2>3, <2>4, <2>5
<1> QED
  BY <1>1, <1>3, <1>5, <1>6, CalledIs DEF Says

\* ByMutable and ByImmutable: what was named before does not count.
LEMMA Narrows ==
    ASSUME NEW made, NEW f, Says(made, f), NEW c \in CallsMade, c.call \in {"ByMutable", "ByImmutable"},
           NEW g, g = [f EXCEPT !.flags = Narrowed(@, IF c.call = "ByMutable" THEN "MutableOnly" ELSE "ImmutableOnly")]
    PROVE  Says(Append(made, c), g)
<1>1. made \in Seq(CallsMade)
  BY DEF Says
<1>2. PICK a, b, p : f = [class |-> a, flags |-> b, predicates |-> p]
  BY DEF Says
<1> DEFINE d == Narrowed(b, IF c.call = "ByMutable" THEN "MutableOnly" ELSE "ImmutableOnly")
<1>3. g = [class |-> a, flags |-> d, predicates |-> p]
  BY <1>2
<1>4. /\ "Inverted" \in d <=> "Inverted" \in b
      /\ "MutableOnly" \in d <=> c.call = "ByMutable"
      /\ "ImmutableOnly" \in d <=> c.call # "ByMutable"
  BY DEF Narrowed
<1> HIDE DEF d
<1>5. MutabilitySays(Append(made, c), g)
  <2> DEFINE S == NarrowedIn(made)
             n == Len(made) + 1
             w == Append(made, c)
  <2>1. NarrowedIn(w) = S \cup {n}
    BY <1>1, CalledIs DEF NarrowedIn
  <2>2. \A k \in S : k <= n
    <3>1. \A k \in DOMAIN made : k <= n
      BY <1>1, CalledIs
    <3> QED
      BY <3>1 DEF NarrowedIn, MadeIn
  <2>3. n \in Nat /\ w[n] = c
    BY <1>1, CalledIs
  <2> HIDE DEF S, n, w
  <2>4. IsLast(n, NarrowedIn(w))
    BY <2>1, <2>2, <2>3 DEF IsLast
  <2>5. g.flags = d /\ n \in NarrowedIn(w) /\ Append(made, c) = w
    BY <1>3, <2>1 DEF w
  <2> QED
    BY ONLY <1>4, <2>3, <2>4, <2>5 DEF MutabilitySays
<1>6. ClassSays(Append(made, c), g) /\ InvertSays(Append(made, c), g) /\ PredicatesSay(Append(made, c), g)
  <2>1. ClassSays(made, f) /\ InvertSays(made, f) /\ PredicatesSay(made, f)
    BY DEF Says
  <2>2. /\ g.class = f.class /\ g.predicates = f.predicates
        /\ "Inverted" \in g.flags <=> "Inverted" \in f.flags
    BY <1>2, <1>3, <1>4
  <2>3. ClassSays(Append(made, c), g)
    BY <1>1, <2>1, <2>2, ClassKept
  <2>4. InvertSays(Append(made, c), g)
    BY <1>1, <2>1, <2>2, InvertKept
  <2>5. PredicatesSay(Append(made, c), g)
    BY <1>1, <2>1, <2>2, PredicatesKept
  <2> QED
    BY <2>3, <2>4, <2>5
<1> QED
  BY <1>1, <1>3, <1>5, <1>6, CalledIs DEF Says

\* ByClass: a child of the class so far is one of all before it.
LEMMA ClassNarrows ==
    ASSUME NEW made, NEW f, Says(made, f), NEW c \in CallsMade, c.call = "ByClass", c.class \in Classes,
           f.class = AnyClass \/ f.class \in IsClass[c.class],
           NEW g, g = [f EXCEPT !.class = c.class]
    PROVE  Says(Append(made, c), g)
<1>1. made \in Seq(CallsMade)
  BY DEF Says
<1>2. PICK a, b, p : f = [class |-> a, flags |-> b, predicates |-> p]
  BY DEF Says
<1>3. g = [class |-> c.class, flags |-> b, predicates |-> p]
  BY <1>2
<1>4. ClassSays(Append(made, c), g)
  <2> DEFINE S == MadeIn(made, "ByClass")
             n == Len(made) + 1
             w == Append(made, c)
  <2>1. MadeIn(w, "ByClass") = S \cup {n} /\ w[n] = c /\ \A k \in S : w[k] = made[k]
    BY <1>1, CalledIs DEF MadeIn
  <2> HIDE DEF w, n
  <2>2. \A k \in S : made[k].class \in IsClass[c.class]
    <3>1. CASE S = {}
      BY <3>1
    <3>2. CASE S # {}
      <4>1. f.class \in Classes /\ \A k \in S : made[k].class \in IsClass[f.class]
        BY <3>2 DEF Says, ClassSays
      <4>2. f.class \in IsClass[c.class]
        BY <4>1, FilterIteratorsAssumption
      <4>3. IsClass[f.class] \subseteq IsClass[c.class]
        BY <4>1, <4>2, FilterIteratorsAssumption
      <4> QED
        BY <4>1, <4>3
    <3> QED
      BY <3>1, <3>2
  <2>3. c.class \in IsClass[c.class]
    BY FilterIteratorsAssumption
  <2> HIDE DEF S
  <2> QED
    BY <1>3, <2>1, <2>2, <2>3 DEF ClassSays, w
<1>5. MutabilitySays(Append(made, c), g) /\ InvertSays(Append(made, c), g) /\ PredicatesSay(Append(made, c), g)
  <2>1. MutabilitySays(made, f) /\ InvertSays(made, f) /\ PredicatesSay(made, f)
    BY DEF Says
  <2>2. g.flags = f.flags /\ g.predicates = f.predicates
    BY <1>2, <1>3
  <2>3. MutabilitySays(Append(made, c), g)
    BY <1>1, <2>1, <2>2, MutabilityKept
  <2>4. InvertSays(Append(made, c), g)
    BY <1>1, <2>1, <2>2, InvertKept
  <2>5. PredicatesSay(Append(made, c), g)
    BY <1>1, <2>1, <2>2, PredicatesKept
  <2> QED
    BY <2>3, <2>4, <2>5
<1> QED
  BY <1>1, <1>3, <1>4, <1>5, CalledIs DEF Says

LEMMA PredicateAdded ==
    ASSUME NEW made, NEW f, Says(made, f), NEW c \in CallsMade, c.call = "By", c.predicate \in Predicates,
           NEW g, g = [f EXCEPT !.predicates = Append(@, c.predicate)]
    PROVE  Says(Append(made, c), g)
<1>1. made \in Seq(CallsMade)
  BY DEF Says
<1>2. PICK a, b, p : f = [class |-> a, flags |-> b, predicates |-> p]
  BY DEF Says
<1> DEFINE q == Append(p, c.predicate)
<1>3. g = [class |-> a, flags |-> b, predicates |-> q]
  BY <1>2
<1>4. PredicatesSay(Append(made, c), g)
  <2> DEFINE S == MadeIn(made, "By")
             n == Len(made) + 1
             w == Append(made, c)
  <2>1. MadeIn(w, "By") = S \cup {n} /\ w[n] = c /\ \A k \in S : w[k] = made[k]
    BY <1>1, CalledIs DEF MadeIn
  <2>2. /\ p \in Seq(Predicates)
        /\ \A x : (\E k \in DOMAIN p : p[k] = x) <=> (\E k \in S : made[k].predicate = x)
    BY <1>2 DEF Says, PredicatesSay
  <2>3. q \in Seq(Predicates) /\ DOMAIN q = DOMAIN p \cup {Len(p) + 1} /\ q[Len(p) + 1] = c.predicate
        /\ \A k \in DOMAIN p : q[k] = p[k]
    BY <2>2
  <2> HIDE DEF S, n, w, q
  <2>4. \A x : (\E k \in DOMAIN q : q[k] = x) <=> (\E k \in DOMAIN p : p[k] = x) \/ x = c.predicate
    BY <2>3
  <2>5. \A x : (\E k \in MadeIn(w, "By") : w[k].predicate = x) <=> (\E k \in S : made[k].predicate = x) \/ x = c.predicate
    BY <2>1
  <2>6. g.predicates = q /\ Append(made, c) = w
    BY <1>3 DEF w
  <2>7. \A x : (\E k \in DOMAIN q : q[k] = x) <=> (\E k \in MadeIn(w, "By") : w[k].predicate = x)
    BY ONLY <2>2, <2>4, <2>5
  <2> QED
    BY ONLY <2>3, <2>6, <2>7 DEF PredicatesSay
<1> HIDE DEF q
<1>5. MutabilitySays(Append(made, c), g) /\ InvertSays(Append(made, c), g) /\ ClassSays(Append(made, c), g)
  <2>1. MutabilitySays(made, f) /\ InvertSays(made, f) /\ ClassSays(made, f)
    BY DEF Says
  <2>2. g.flags = f.flags /\ g.class = f.class
    BY <1>2, <1>3
  <2>3. MutabilitySays(Append(made, c), g)
    BY <1>1, <2>1, <2>2, MutabilityKept
  <2>4. InvertSays(Append(made, c), g)
    BY <1>1, <2>1, <2>2, InvertKept
  <2>5. ClassSays(Append(made, c), g)
    BY <1>1, <2>1, <2>2, ClassKept
  <2> QED
    BY <2>3, <2>4, <2>5
<1> QED
  BY <1>1, <1>3, <1>4, <1>5, CalledIs DEF Says

-----------------------------------------------------------------------------
(* FilterIterators: the walk.                                               *)

\* Container filters are narrowed by mutability only, and only to mutable items.
ContainersAskLess ==
    list.of = "items" => MadeIn(calls, "ByClass") = {} /\ MadeIn(calls, "ByImmutable") = {}

FilterInv == list \in Lists /\ Says(calls, filter) /\ ContainersAskLess

\* EmitsWhatWasAsked of an iterator at c that had s emitted.
Emits(c, s) ==
    LET due == {k \in 1 .. (c - 1) : Wanted(list.elements[k])}
    IN  /\ Len(s) = Cardinality(due)
        /\ \A k \in due : s[Cardinality(due \cap 1 .. k)] = list.elements[k]

WalkInv ==
    /\ FilterInv
    /\ \/ cursor = 0 /\ emitted = <<>>
       \/ /\ cursor \in 1 .. End /\ Stops(cursor)
          /\ emitted \in Seq({list.elements[k] : k \in DOMAIN list.elements})
          /\ EmitsWhatWasAsked

LEMMA WalkedListIs ==
    ASSUME list \in Lists
    PROVE  /\ End \in Nat \ {0} /\ DOMAIN list.elements = 1 .. End - 1 /\ list.of \in {"tokens", "items"}
           /\ \A k \in DOMAIN list.elements :
                /\ list.of = "items" => list.elements[k] # Invalid
                /\ list.elements[k] # Invalid => list.elements[k].class \in Classes /\ list.elements[k].mutable \in BOOLEAN
<1> DEFINE S == {list.elements[k] : k \in DOMAIN list.elements}
<1>1. list.elements \in Seq(S)
  BY FilterIteratorsAssumption
<1> HIDE DEF S
<1>2. End \in Nat \ {0} /\ DOMAIN list.elements = 1 .. End - 1
  BY <1>1 DEF End
<1> QED
  BY <1>2, FilterIteratorsAssumption

\* What the iterator lets pass is what the calls ask for.
LEMMA WantedIs ==
    ASSUME FilterInv, NEW k \in DOMAIN list.elements
    PROVE  (InnerStands(k) /\ TestIterator(list.elements[k])) <=> Wanted(list.elements[k])
<1> DEFINE e == list.elements[k]
           tested == \A j \in DOMAIN filter.predicates : Passes(filter.predicates[j], e)
           asked == \A j \in Made("By") : Passes(calls[j].predicate, e)
           ofClass == filter.class # AnyClass => filter.class \in IsClass[e.class]
           narrow == /\ "MutableOnly" \in filter.flags => e.mutable
                     /\ "ImmutableOnly" \in filter.flags => ~e.mutable
           N == Made("ByMutable") \cup Made("ByImmutable")
<1>1. /\ list \in Lists /\ ClassSays(calls, filter) /\ MutabilitySays(calls, filter) /\ InvertSays(calls, filter)
      /\ PredicatesSay(calls, filter) /\ ContainersAskLess /\ calls \in Seq(CallsMade)
  BY DEF FilterInv, Says
<1>2. /\ list.of \in {"tokens", "items"} /\ (list.of = "items" => e # Invalid)
      /\ e # Invalid => e.class \in Classes /\ e.mutable \in BOOLEAN
  BY <1>1, WalkedListIs
<1>3. \A name : Made(name) = MadeIn(calls, name)
  BY DEF Made, MadeIn
<1>4. N = NarrowedIn(calls)
  BY <1>3 DEF NarrowedIn
<1> HIDE DEF e
<1>5. (tested <=> asked) /\ tested \in BOOLEAN /\ asked \in BOOLEAN /\ narrow \in BOOLEAN /\ ofClass \in BOOLEAN
  <2>1. \A p : (\E j \in DOMAIN filter.predicates : filter.predicates[j] = p) <=>
               (\E j \in Made("By") : calls[j].predicate = p)
    BY <1>1, <1>3 DEF PredicatesSay
  <2> QED
    BY <2>1
<1>6. (Cardinality(Made("Invert")) % 2 = 0) <=> ~("Inverted" \in filter.flags)
  <2>1. ("Inverted" \in filter.flags) <=> Cardinality(Made("Invert")) % 2 # 0
    BY <1>1, <1>3 DEF InvertSays
  <2> QED
    BY <2>1
<1>7. ASSUME e # Invalid
      PROVE  (\A j \in Made("ByClass") : calls[j].class \in IsClass[e.class]) <=> ofClass
  <2>1. CASE MadeIn(calls, "ByClass") = {} /\ filter.class = AnyClass
    BY <1>3, <2>1
  <2>2. CASE /\ filter.class \in Classes
             /\ \E j \in MadeIn(calls, "ByClass") : calls[j].class = filter.class
             /\ \A j \in MadeIn(calls, "ByClass") : calls[j].class \in IsClass[filter.class]
    <3>1. filter.class # AnyClass
      BY <2>2, FilterIteratorsAssumption
    <3>2. filter.class \in IsClass[e.class] => IsClass[filter.class] \subseteq IsClass[e.class]
      BY <1>2, <1>7, <2>2, FilterIteratorsAssumption
    <3> QED
      BY <1>3, <2>2, <3>1, <3>2
  <2> QED
    BY <1>1, <2>1, <2>2 DEF ClassSays
<1>8. ASSUME e # Invalid
      PROVE  (\A j \in N : IsLast(j, N) => e.mutable = (calls[j].call = "ByMutable")) <=> narrow
  <2>1. CASE N = {} /\ "MutableOnly" \notin filter.flags /\ "ImmutableOnly" \notin filter.flags
    BY <2>1
  <2>2. CASE \E j \in N : /\ IsLast(j, N)
                          /\ "MutableOnly" \in filter.flags <=> calls[j].call = "ByMutable"
                          /\ "ImmutableOnly" \in filter.flags <=> calls[j].call # "ByMutable"
    <3>1. PICK j \in N : /\ IsLast(j, N)
                         /\ "MutableOnly" \in filter.flags <=> calls[j].call = "ByMutable"
                         /\ "ImmutableOnly" \in filter.flags <=> calls[j].call # "ByMutable"
      BY <2>2
    <3>2. N \subseteq Nat
      BY <1>1, <1>4 DEF NarrowedIn, MadeIn
    <3> HIDE DEF N
    <3>3. \A i \in N : IsLast(i, N) => i = j
      BY <3>1, <3>2 DEF IsLast
    <3>4. (\A i \in N : IsLast(i, N) => e.mutable = (calls[i].call = "ByMutable")) <=> e.mutable = (calls[j].call = "ByMutable")
      BY <3>1, <3>3
    <3>5. e.mutable = TRUE \/ e.mutable = FALSE
      BY <1>2, <1>8
    <3> QED
      BY <3>1, <3>4, <3>5
  <2> QED
    BY <1>1, <1>4, <2>1, <2>2 DEF MutabilitySays
<1>9. CASE list.of = "items"
  <2>1. filter.class = AnyClass
    BY <1>1, <1>9 DEF ContainersAskLess, ClassSays
  <2>2. "ImmutableOnly" \notin filter.flags
    <3>1. \A j \in NarrowedIn(calls) : calls[j].call = "ByMutable"
      BY <1>1, <1>9 DEF ContainersAskLess, NarrowedIn, MadeIn
    <3> QED
      BY <1>1, <3>1 DEF MutabilitySays
  <2>3. InnerStands(k) <=> narrow
    BY <1>9, <2>2 DEF InnerStands, e
  <2>4. TestIterator(e) <=> (tested # ("Inverted" \in filter.flags))
    BY <1>9 DEF TestIterator, TestAll
  <2>5. Wanted(e) <=> narrow /\ (asked = ~("Inverted" \in filter.flags))
    <3>1. e # Invalid
      BY <1>2, <1>9
    <3> HIDE DEF narrow, asked
    <3> QED
      BY <1>6, <1>7, <1>8, <2>1, <3>1 DEF Wanted, asked
  <2> HIDE DEF tested, asked, narrow
  <2> QED
    BY <1>5, <2>3, <2>4, <2>5 DEF e
<1>10. CASE list.of = "tokens"
  <2>1. InnerStands(k)
    BY <1>10 DEF InnerStands
  <2>2. TestIterator(e) <=> e # Invalid /\ ofClass /\ narrow /\ (tested # ("Inverted" \in filter.flags))
    BY <1>10 DEF TestIterator, TestAll
  <2>3. Wanted(e) <=> e # Invalid /\ ofClass /\ narrow /\ (asked = ~("Inverted" \in filter.flags))
    <3> HIDE DEF narrow, ofClass
    <3> QED
      BY <1>6, <1>7, <1>8 DEF Wanted
  <2> HIDE DEF tested, asked, narrow, ofClass
  <2> QED
    BY <1>5, <2>1, <2>2, <2>3 DEF e
<1> QED
  BY <1>2, <1>9, <1>10

LEMMA SkipIs ==
    ASSUME list \in Lists, NEW k \in 1 .. End
    PROVE  /\ SkipInvalid(k) \in k .. End /\ Stops(SkipInvalid(k))
           /\ \A i \in k .. SkipInvalid(k) - 1 : ~Stops(i)
<1> DEFINE S == {j \in k .. End : Stops(j)}
<1>1. End \in Nat /\ k \in Nat /\ End \in S
  BY WalkedListIs DEF Stops
<1>2. PICK j \in S : \A i \in S : j <= i
  <2>1. S \subseteq Nat
    BY <1>1
  <2> HIDE DEF S
  <2> QED
    BY <1>1, <2>1, LeastNatural
<1>3. j \in k .. End /\ Stops(j) /\ \A i \in k .. j - 1 : ~Stops(i)
  BY <1>1, <1>2
<1> QED
  BY <1>3 DEF SkipInvalid

\* One element more is emitted.
InStep(s, d, e) == Len(s) = Cardinality(d) /\ \A k \in d : s[Cardinality(d \cap 1 .. k)] = e[k]

LEMMA EmittedNext ==
    ASSUME NEW X, NEW s \in Seq(X), NEW d, NEW n \in Nat \ {0}, d \subseteq 1 .. n - 1, NEW e, e[n] \in X,
           InStep(s, d, e)
    PROVE  InStep(Append(s, e[n]), d \cup {n}, e)
<1> DEFINE t == Append(s, e[n])
           a == d \cup {n}
<1>0. Len(s) = Cardinality(d) /\ \A k \in d : s[Cardinality(d \cap 1 .. k)] = e[k]
  BY DEF InStep
<1>1. IsFiniteSet(d) /\ n \notin d /\ \A k \in d : k \in Nat /\ k < n /\ k # 0
  <2>1. n - 1 \in Nat
    OBVIOUS
  <2>2. IsFiniteSet(1 .. n - 1)
    BY <2>1, FS_Interval
  <2>3. IsFiniteSet(d)
    BY <2>2, FS_Subset
  <2>4. \A k \in d : k \in 1 .. n - 1
    OBVIOUS
  <2>5. \A k \in d : k \in Nat /\ k < n /\ k # 0 /\ k # n
    BY <2>1, <2>4
  <2> QED
    BY <2>3, <2>5
<1>2. Cardinality(d) \in Nat /\ Cardinality(a) = Cardinality(d) + 1
  BY <1>1, FS_CardinalityType, FS_AddElement
<1>3. Len(t) = Len(s) + 1 /\ t[Len(s) + 1] = e[n] /\ \A i \in 1 .. Len(s) : t[i] = s[i]
  OBVIOUS
<1>4. a \cap 1 .. n = a
  <2>1. \A k \in a : k \in 1 .. n
    BY <1>1
  <2> QED
    BY <2>1
<1>5. \A k \in d : a \cap 1 .. k = d \cap 1 .. k
  BY <1>1
<1>6. \A k \in d : Cardinality(d \cap 1 .. k) \in 1 .. Len(s)
  <2> TAKE k \in d
  <2> DEFINE T == d \cap 1 .. k
  <2>1. IsFiniteSet(T) /\ Cardinality(T) <= Cardinality(d)
    BY <1>1, FS_Subset
  <2>2. k \in T
    BY <1>1
  <2> HIDE DEF T
  <2>3. Cardinality(T) \in Nat /\ Cardinality(T) # 0
    BY <2>1, <2>2, FS_CardinalityType, FS_EmptySet
  <2> QED
    BY <1>0, <1>2, <2>1, <2>3 DEF T
<1> HIDE DEF t
<1>7. ASSUME NEW k \in a PROVE t[Cardinality(a \cap 1 .. k)] = e[k]
  <2>1. CASE k = n
    BY <1>0, <1>2, <1>3, <1>4, <2>1
  <2>2. CASE k \in d
    BY <1>0, <1>3, <1>5, <1>6, <2>2
  <2> QED
    BY <2>1, <2>2
<1> QED
  BY <1>0, <1>2, <1>3, <1>7 DEF InStep, t

LEMMA FilterMade ==
    ASSUME FilterInv, Invert \/ ByMutable \/ ByImmutable \/ (\E c \in Classes : ByClass(c)) \/ (\E p \in Predicates : By(p))
    PROVE  FilterInv' /\ cursor = 0 /\ UNCHANGED <<list, cursor, emitted>>
<1>1. list \in Lists /\ Says(calls, filter) /\ ContainersAskLess /\ calls \in Seq(CallsMade)
  BY DEF FilterInv, Says
<1>2. ASSUME NEW c \in CallsMade, calls' = Append(calls, c), UNCHANGED list, Says(calls', filter'),
             list.of = "items" => c.call \notin {"ByClass", "ByImmutable"}
      PROVE  FilterInv'
  <2>1. list.of = "items" => MadeIn(calls', "ByClass") = {} /\ MadeIn(calls', "ByImmutable") = {}
    <3>1. /\ MadeIn(calls', "ByClass") = MadeIn(calls, "ByClass") \cup (IF c.call = "ByClass" THEN {Len(calls) + 1} ELSE {})
          /\ MadeIn(calls', "ByImmutable") = MadeIn(calls, "ByImmutable") \cup (IF c.call = "ByImmutable" THEN {Len(calls) + 1} ELSE {})
      BY <1>1, <1>2, CalledIs
    <3> QED
      BY <1>1, <1>2, <3>1 DEF ContainersAskLess
  <2> QED
    BY <1>1, <1>2, <2>1 DEF FilterInv, ContainersAskLess
<1>3. CASE Invert
  <2> DEFINE c == [call |-> "Invert"]
  <2>1. c \in CallsMade /\ c.call = "Invert"
    BY DEF CallsMade
  <2>2. /\ calls' = Append(calls, c) /\ UNCHANGED <<list, cursor, emitted>> /\ cursor = 0
        /\ filter' = [filter EXCEPT !.flags = IF "Inverted" \in @ THEN @ \ {"Inverted"} ELSE @ \cup {"Inverted"}]
    BY <1>3 DEF Invert, Call
  <2> HIDE DEF c
  <2>3. Says(calls', filter')
    BY <1>1, <2>1, <2>2, Inverts
  <2> QED
    BY <1>2, <2>1, <2>2, <2>3
<1>4. CASE ByMutable
  <2> DEFINE c == [call |-> "ByMutable"]
  <2>1. c \in CallsMade /\ c.call = "ByMutable"
    BY DEF CallsMade
  <2>2. /\ calls' = Append(calls, c) /\ UNCHANGED <<list, cursor, emitted>> /\ cursor = 0
        /\ filter' = [filter EXCEPT !.flags = Narrowed(@, "MutableOnly")]
    BY <1>4 DEF ByMutable, Call
  <2> HIDE DEF c
  <2>3. Says(calls', filter')
    BY <1>1, <2>1, <2>2, Narrows
  <2> QED
    BY <1>2, <2>1, <2>2, <2>3
<1>5. CASE ByImmutable
  <2> DEFINE c == [call |-> "ByImmutable"]
  <2>1. c \in CallsMade /\ c.call = "ByImmutable"
    BY DEF CallsMade
  <2>2. /\ calls' = Append(calls, c) /\ UNCHANGED <<list, cursor, emitted>> /\ cursor = 0 /\ list.of = "tokens"
        /\ filter' = [filter EXCEPT !.flags = Narrowed(@, "ImmutableOnly")]
    BY <1>5 DEF ByImmutable, Call
  <2> HIDE DEF c
  <2>3. Says(calls', filter')
    BY <1>1, <2>1, <2>2, Narrows
  <2> QED
    BY <1>2, <2>1, <2>2, <2>3
<1>6. ASSUME NEW a \in Classes, ByClass(a) PROVE FilterInv' /\ cursor = 0 /\ UNCHANGED <<list, cursor, emitted>>
  <2> DEFINE c == [call |-> "ByClass", class |-> a]
  <2>1. c \in CallsMade /\ c.call = "ByClass" /\ c.class = a
    BY DEF CallsMade
  <2>2. /\ calls' = Append(calls, c) /\ UNCHANGED <<list, cursor, emitted>> /\ cursor = 0 /\ list.of = "tokens"
        /\ filter' = [filter EXCEPT !.class = a]
        /\ filter.class = AnyClass \/ filter.class \in IsClass[a]
    BY <1>6 DEF ByClass, Call
  <2> HIDE DEF c
  <2>3. Says(calls', filter')
    BY <1>1, <2>1, <2>2, ClassNarrows
  <2> QED
    BY <1>2, <2>1, <2>2, <2>3
<1>7. ASSUME NEW p \in Predicates, By(p) PROVE FilterInv' /\ cursor = 0 /\ UNCHANGED <<list, cursor, emitted>>
  <2> DEFINE c == [call |-> "By", predicate |-> p]
  <2>1. c \in CallsMade /\ c.call = "By" /\ c.predicate = p
    BY DEF CallsMade
  <2>2. /\ calls' = Append(calls, c) /\ UNCHANGED <<list, cursor, emitted>> /\ cursor = 0
        /\ filter' = [filter EXCEPT !.predicates = Append(@, p)]
    BY <1>7 DEF By, Call
  <2> HIDE DEF c
  <2>3. Says(calls', filter')
    BY <1>1, <2>1, <2>2, PredicateAdded
  <2> QED
    BY <1>2, <2>1, <2>2, <2>3
<1> QED
  BY <1>3, <1>4, <1>5, <1>6, <1>7

LEMMA WalkStarts == WalkInit => WalkInv
<1> SUFFICES ASSUME WalkInit PROVE WalkInv
  OBVIOUS
<1>1. list \in Lists /\ filter = WalkStart /\ calls = <<>> /\ cursor = 0 /\ emitted = <<>>
  BY DEF WalkInit
<1>2. \A name : MadeIn(calls, name) = {}
  BY <1>1 DEF MadeIn
<1>3. NarrowedIn(calls) = {}
  BY <1>2 DEF NarrowedIn
<1>4. /\ filter = [class |-> filter.class, flags |-> filter.flags, predicates |-> filter.predicates]
      /\ filter.class = AnyClass /\ filter.flags = {} /\ filter.predicates = <<>>
  BY <1>1 DEF WalkStart
<1>5. InvertSays(calls, filter)
  <2>1. Cardinality({}) % 2 = 0
    BY FS_EmptySet
  <2> QED
    BY <1>2, <1>4, <2>1 DEF InvertSays
<1>6. PredicatesSay(calls, filter)
  BY <1>2, <1>4 DEF PredicatesSay
<1>7. calls \in Seq(CallsMade)
  BY <1>1
<1> QED
  BY <1>1, <1>2, <1>3, <1>4, <1>5, <1>6, <1>7 DEF WalkInv, FilterInv, Says, ClassSays, MutabilitySays, ContainersAskLess

LEMMA WalkStep == WalkInv /\ [WalkNext]_walkVars => WalkInv'
<1> SUFFICES ASSUME WalkInv, [WalkNext]_walkVars PROVE WalkInv'
  OBVIOUS
<1> DEFINE elements == list.elements
           S == {elements[k] : k \in DOMAIN elements}
<1>1. FilterInv /\ list \in Lists /\ End \in Nat \ {0} /\ DOMAIN elements = 1 .. End - 1
  BY WalkedListIs DEF WalkInv, FilterInv
<1>2. \A k \in 1 .. End - 1 : Stops(k) <=> Wanted(elements[k])
  <2> TAKE k \in 1 .. End - 1
  <2>1. k # End /\ k \in DOMAIN elements
    BY <1>1
  <2> QED
    BY <1>1, <2>1, WantedIs DEF Stops
<1>3. CASE Invert \/ ByMutable \/ ByImmutable \/ (\E c \in Classes : ByClass(c)) \/ (\E p \in Predicates : By(p))
  <2>1. FilterInv' /\ cursor = 0 /\ UNCHANGED <<list, cursor, emitted>>
    BY <1>1, <1>3, FilterMade
  <2>2. emitted = <<>>
    BY <1>1, <2>1 DEF WalkInv
  <2> QED
    BY <2>1, <2>2 DEF WalkInv
<1>4. ASSUME UNCHANGED <<list, filter, calls>>
      PROVE  /\ FilterInv' /\ End' = End /\ \A k : Stops(k)' <=> Stops(k)
             /\ cursor' # 0 => (EmitsWhatWasAsked' <=> Emits(cursor', emitted'))
  <2>1. FilterInv'
    BY <1>1, <1>4 DEF FilterInv, ContainersAskLess
  <2>2. End' = End /\ \A k : Stops(k)' <=> Stops(k)
    BY <1>4 DEF End, Stops, InnerStands, TestIterator, TestAll
  <2>3. cursor' # 0 => (EmitsWhatWasAsked' <=> Emits(cursor', emitted'))
    <3>1. \A k : Wanted(list.elements[k])' <=> Wanted(list.elements[k])
      BY <1>4 DEF Wanted, Made
    <3>2. {k \in 1 .. (cursor - 1) : Wanted(list.elements[k])}' = {k \in 1 .. (cursor' - 1) : Wanted(list.elements[k])}
      BY <1>4, <3>1
    <3> QED
      BY <1>4, <3>2 DEF EmitsWhatWasAsked, Emits
  <2> QED
    BY <2>1, <2>2, <2>3
<1>5. CASE Iterate
  <2>1. UNCHANGED <<list, filter, calls, emitted>> /\ cursor = 0 /\ cursor' = SkipInvalid(1) /\ emitted = <<>>
    BY <1>1, <1>5 DEF Iterate, WalkInv
  <2>2. cursor' \in 1 .. End /\ Stops(cursor') /\ \A i \in 1 .. cursor' - 1 : ~Stops(i)
    <3>1. 1 \in 1 .. End
      BY <1>1
    <3> QED
      BY <1>1, <2>1, <3>1, SkipIs
  <2>3. {k \in 1 .. cursor' - 1 : Wanted(elements[k])} = {}
    <3>1. \A k \in 1 .. cursor' - 1 : k \in 1 .. End - 1 /\ ~Stops(k)
      <4>1. End \in Nat \ {0} /\ cursor' \in 1 .. End /\ \A i \in 1 .. cursor' - 1 : ~Stops(i)
        BY ONLY <1>1, <2>2
      <4>2. \A e, c \in Nat : c <= e => \A k \in 1 .. c - 1 : k \in 1 .. e - 1
        OBVIOUS
      <4>3. End \in Nat /\ cursor' \in Nat /\ cursor' <= End
        BY ONLY <4>1
      <4> QED
        BY ONLY <4>1, <4>2, <4>3
    <3>2. \A k \in 1 .. cursor' - 1 : ~Wanted(elements[k])
      BY <1>2, <3>1
    <3> QED
      BY <3>2
  <2>4. EmitsWhatWasAsked'
    <3>1. Len(emitted') = 0 /\ Cardinality({}) = 0
      BY <2>1, FS_EmptySet
    <3>2. cursor' # 0
      BY <1>1, <2>2
    <3>3. Emits(cursor', emitted')
      BY <2>3, <3>1 DEF Emits
    <3> QED
      BY <1>4, <2>1, <3>2, <3>3
  <2> QED
    BY <1>4, <2>1, <2>2, <2>4 DEF WalkInv
<1>6. CASE Advance
  <2>1. /\ UNCHANGED <<list, filter, calls>> /\ cursor \in 1 .. End - 1
        /\ cursor' = SkipInvalid(cursor + 1) /\ emitted' = Append(emitted, elements[cursor])
    BY <1>1, <1>6 DEF Advance, End
  <2>2. Stops(cursor) /\ emitted \in Seq(S) /\ EmitsWhatWasAsked /\ cursor # 0
    BY <1>1, <2>1 DEF WalkInv
  <2>3. cursor' \in cursor + 1 .. End /\ Stops(cursor') /\ \A i \in cursor + 1 .. cursor' - 1 : ~Stops(i)
    <3>1. cursor + 1 \in 1 .. End
      BY <1>1, <2>1
    <3> QED
      BY <1>1, <2>1, <3>1, SkipIs
  <2> DEFINE due == {k \in 1 .. cursor - 1 : Wanted(elements[k])}
  <2>4. {k \in 1 .. cursor' - 1 : Wanted(elements[k])} = due \cup {cursor}
    <3>1. \A k \in 1 .. cursor' - 1 : k \in 1 .. cursor - 1 \/ k = cursor \/ k \in cursor + 1 .. cursor' - 1
      BY <1>1, <2>1, <2>3
    <3>2. \A k \in cursor + 1 .. cursor' - 1 : ~Wanted(elements[k])
      <4>1. \A k \in cursor + 1 .. cursor' - 1 : k \in 1 .. End - 1 /\ ~Stops(k)
        BY <1>1, <2>1, <2>3
      <4> QED
        BY <1>2, <4>1
    <3>3. Wanted(elements[cursor]) /\ cursor \in 1 .. cursor' - 1 /\ \A k \in 1 .. cursor - 1 : k \in 1 .. cursor' - 1
      BY <1>1, <1>2, <2>1, <2>2, <2>3
    <3> QED
      BY <3>1, <3>2, <3>3
  <2>5. InStep(emitted, due, elements)
    BY <2>2 DEF EmitsWhatWasAsked, InStep
  <2>6. InStep(emitted', due \cup {cursor}, elements)
    <3>1. due \subseteq 1 .. cursor - 1 /\ cursor \in Nat \ {0} /\ elements[cursor] \in S
      BY <1>1, <2>1
    <3>2. emitted \in Seq(S) /\ emitted' = Append(emitted, elements[cursor])
      BY <2>1, <2>2
    <3> HIDE DEF due, S, elements
    <3> QED
      BY ONLY <2>5, <3>1, <3>2, EmittedNext
  <2>7. EmitsWhatWasAsked'
    <3>1. cursor' # 0
      BY <1>1, <2>1, <2>3
    <3> HIDE DEF due
    <3>2. Emits(cursor', emitted')
      BY <2>4, <2>6 DEF Emits, InStep
    <3> QED
      BY <1>4, <2>1, <3>1, <3>2
  <2>8. emitted' \in Seq(S)
    <3>1. elements[cursor] \in S
      BY <1>1, <2>1
    <3> HIDE DEF S
    <3> QED
      BY <2>1, <2>2, <3>1
  <2>9. cursor' \in 1 .. End'
    BY <1>1, <1>4, <2>1, <2>3
  <2> QED
    BY <1>4, <2>1, <2>3, <2>7, <2>8, <2>9 DEF WalkInv
<1>7. CASE UNCHANGED walkVars
  <2>1. EmitsWhatWasAsked' <=> EmitsWhatWasAsked
    BY <1>4, <1>7 DEF EmitsWhatWasAsked, Emits, walkVars
  <2> QED
    BY <1>4, <1>7, <2>1 DEF WalkInv, walkVars
<1> QED
  BY <1>3, <1>5, <1>6, <1>7 DEF WalkNext

\* However a filter is made, a loop over it is given just what the calls asked
\* for, in order (TFilteringIterator, of tokens and of containers).
THEOREM WalksEmit == WalkSpec => []EmitsWhatWasAsked
<1>1. WalkInv => EmitsWhatWasAsked
  BY DEF WalkInv, EmitsWhatWasAsked
<1> QED
  BY <1>1, WalkStarts, WalkStep, PTL DEF WalkSpec
=============================================================================
