---------------------------- MODULE StorageWidget ----------------------------
(***************************************************************************)
(* A widget that lists the stacks of a storage (FaerieStorageWidgetBase.cpp)*)
(* by a query that filters and sorts them (FaerieContainerQuery.cpp), which *)
(* runs on the filtering iterators of a storage (FaerieContainerFilter.h,   *)
(* FaerieItemStorageIterators.cpp).  A change of the query asks for a new   *)
(* query at the next tick; between two queries the widget patches its list  *)
(* with the batches the events extension of the storage broadcasts.         *)
(*                                                                         *)
(* A query is a record [filter, filterObject, invertFilter, sort,           *)
(* sortObject, invertSort]; the object of a filter or a sort is itself when *)
(* an object was set and Nobody otherwise.                                  *)
(***************************************************************************)
EXTENDS FaerieItemStorage

CONSTANTS
    Filters,  \* the filters a query is given
    Passes,   \* which items a filter lets pass: [Filters -> SUBSET Items]
    Sorts,    \* the comparators a query is given
    Rank,     \* what a comparator compares: [Sorts -> [Items -> Nat]]
    Nobody,   \* no filter, no sort, no object, no storage
    Linkable, \* bound: the storages a widget is linked to
    Queries   \* bound: the states of the query that are looked at

ASSUME QueriesAssumption ==
    /\ Passes \in [Filters -> SUBSET Items]
    /\ Rank \in [Sorts -> [Items -> Nat]]
    /\ Linkable \subseteq Storages
    /\ Nobody \notin Filters \cup Sorts \cup Storages

VARIABLES
    query,        \* StorageQuery
    itemStorage,  \* ItemStorage, or Nobody
    constructed,  \* NativeConstruct ran, and NativeDestruct did not since
    listening,    \* the storages to whose events extension the widget is bound
    listed,       \* SortedAndFilteredAddresses
    needsNewQuery,\* NeedsNewQuery
    broken        \* RemoveAt was called for an address that is not listed

widgetVars == <<query, itemStorage, constructed, listening, listed, needsNewQuery, broken>>
widgetAllVars == <<vars, widgetVars>>

Listed(list) == {list[n] : n \in DOMAIN list}

PlainQuery ==
    [filter |-> Nobody, filterObject |-> Nobody, invertFilter |-> FALSE,
     sort |-> Nobody, sortObject |-> Nobody, invertSort |-> FALSE]

WidgetInit ==
    /\ query = PlainQuery
    /\ itemStorage = Nobody /\ constructed = FALSE /\ listening = {}
    /\ listed = <<>> /\ needsNewQuery = FALSE /\ broken = FALSE

-----------------------------------------------------------------------------
(* The iterators of a storage.  An iterator is at an address, and at one no *)
(* stack ever has (INDEX_NONE) past the last.                               *)

NoIndex == <<0, 0>>

IsValidIterator(at) == at # NoIndex

Least(keys) == CHOOSE k \in keys : \A j \in keys : k <= j

\* An entry is entered at its first stack.
FirstOf(st, keys) ==
    IF keys = {} THEN NoIndex
    ELSE <<Least(keys), Least(DOMAIN st.entries[Least(keys)].stacks)>>

AdvanceEntry(st, at) == FirstOf(st, {k \in DOMAIN st.entries : at[1] < k})

\* Mutated: an entry is left after its first stack.
AdvanceByEntries(st, at) == AdvanceEntry(st, at)

Advance(st, at) ==
    LET remaining == {j \in DOMAIN st.entries[at[1]].stacks : at[2] < j}
    IN  IF remaining # {} THEN <<at[1], Least(remaining)>> ELSE AdvanceEntry(st, at)

CreateAddressIterator(st) == FirstOf(st, DOMAIN st.entries)

GetAllAddresses(st) == InOrder(AddressesOf(st))

\* ViewStack of a stack that is there, as far as the filters look at it.
ViewedItem(st, a) == st.entries[a[1]].item

-----------------------------------------------------------------------------
(* The filtering iterator and the query.                                    *)

TestIterator(st, q, at) == (ViewedItem(st, at) \in Passes[q.filter]) # q.invertFilter

\* A walk is at an iterator and has emitted what passed so far: one step tests
\* the address the iterator is at and advances it (SkipInvalid, operator++).
WalkStep(st, q, walk) ==
    IF ~IsValidIterator(walk.at) THEN walk
    ELSE [at |-> Advance(st, walk.at),
          emitted |-> IF TestIterator(st, q, walk.at)
                      THEN Append(walk.emitted, walk.at) ELSE walk.emitted]

Emit(st, q) ==
    LET size == Cardinality(AddressesOf(st))
        walk[n \in 0 .. size] ==
            IF n = 0 THEN [at |-> CreateAddressIterator(st), emitted |-> <<>>]
            ELSE WalkStep(st, q, walk[n - 1])
    IN  walk[size].emitted

CompareAddresses(st, q, a, b) ==
    (Rank[q.sort][ViewedItem(st, a)] < Rank[q.sort][ViewedItem(st, b)]) # q.invertSort

\* Algo::Sort: the order of what neither comes before the other is its own.
SortedLists(st, q, list) ==
    {p \in [DOMAIN list -> Listed(list)] :
        /\ Listed(p) = Listed(list)
        /\ \A m, n \in DOMAIN p :
              m < n => CompareAddresses(st, q, p[m], p[n])
                       \/ ~CompareAddresses(st, q, p[n], p[m])}

QueryAllAddresses(st, q) ==
    LET emitted == IF q.filter # Nobody THEN Emit(st, q) ELSE GetAllAddresses(st)
    IN  IF q.sort # Nobody THEN SortedLists(st, q, emitted) ELSE {emitted}

IsAddressFiltered(st, q, a) ==
    /\ q.filter # Nobody
    /\ (ViewedItem(st, a) \in Passes[q.filter]) # q.invertFilter

-----------------------------------------------------------------------------
(* The changes of a query: each announces itself, which makes the widget    *)
(* request a query.                                                         *)

\* SetFilter with an object and SetFilterByDelegate without.
WithFilter(f, object) == [query EXCEPT !.filter = f, !.filterObject = object]
WithSort(c, object) == [query EXCEPT !.sort = c, !.sortObject = object]

ResetFilter == WithFilter(Nobody, Nobody)
ResetSort == WithSort(Nobody, Nobody)

\* The object that is set already is taken off instead.
SetFilterByObject(f) ==
    IF query.filterObject = f THEN ResetFilter ELSE WithFilter(f, f)
SetSortByObject(c) ==
    IF query.sortObject = c THEN ResetSort ELSE WithSort(c, c)

QueryChanged(q) ==
    /\ query' = q
    /\ needsNewQuery' = TRUE

ChangeQuery ==
    /\ \/ \E f \in Filters : \E q \in {WithFilter(f, Nobody), WithFilter(f, f), SetFilterByObject(f)} :
             QueryChanged(q)
       \/ \E c \in Sorts : \E q \in {WithSort(c, Nobody), WithSort(c, c), SetSortByObject(c)} :
             QueryChanged(q)
       \/ query.filter # Nobody /\ QueryChanged(ResetFilter)
       \/ query.sort # Nobody /\ QueryChanged(ResetSort)
       \/ QueryChanged([query EXCEPT !.invertFilter = ~@])
       \/ QueryChanged([query EXCEPT !.invertSort = ~@])
    /\ query' \in Queries
    /\ UNCHANGED <<itemStorage, constructed, listening, listed, broken, vars>>

-----------------------------------------------------------------------------
(* The widget and its storage.                                              *)

\* Reset takes back the query's inversions, which requests a query, and stops
\* listening; the rest of the query stays.
ResetQuery == [query EXCEPT !.invertSort = FALSE, !.invertFilter = FALSE]

Reset ==
    /\ query' = ResetQuery
    /\ needsNewQuery' = (needsNewQuery \/ ResetQuery # query)
    /\ itemStorage' = Nobody
    /\ listening' = listening \ {itemStorage}
    /\ listed' = <<>>

InitWithInventory(s) ==
    /\ query' = ResetQuery
    /\ needsNewQuery' = TRUE
    /\ itemStorage' = s
    /\ listening' = (listening \ {itemStorage}) \cup {s}
    /\ listed' = <<>>

NativeConstruct ==
    /\ ~constructed /\ constructed' = TRUE
    /\ IF itemStorage # Nobody THEN InitWithInventory(itemStorage)
       ELSE UNCHANGED <<query, needsNewQuery, itemStorage, listening, listed>>
    /\ UNCHANGED <<broken, vars>>

NativeDestruct ==
    /\ constructed /\ constructed' = FALSE
    /\ Reset
    /\ UNCHANGED <<broken, vars>>

\* Only a widget that is constructed is initialised with the storage at once.
SetLinkedStorage(s) ==
    /\ IF constructed THEN InitWithInventory(s)
       ELSE itemStorage' = s /\ UNCHANGED <<query, needsNewQuery, listening, listed>>
    /\ UNCHANGED <<constructed, broken, vars>>

\* SetLinkedStorage with no storage.
Unlink ==
    /\ IF constructed THEN Reset
       ELSE itemStorage' = Nobody /\ UNCHANGED <<query, needsNewQuery, listening, listed>>
    /\ UNCHANGED <<constructed, broken, vars>>

\* A tick without a storage leaves the list.
TickQueries ==
    IF itemStorage = Nobody THEN {listed}
    ELSE QueryAllAddresses(store[itemStorage], query)

NativeTick ==
    /\ constructed /\ needsNewQuery
    /\ needsNewQuery' = FALSE
    /\ listed' \in TickQueries
    /\ UNCHANGED <<query, itemStorage, constructed, listening, broken, vars>>

-----------------------------------------------------------------------------
(* The events of the storage (OnPostEventBatch), on a record [list, broken] *)
(* and the storage as it is after the call.                                 *)

\* Algo::LowerBound: the first that does not come before the address.
LowerBound(st, q, list, a) ==
    LET after == {n \in DOMAIN list : ~CompareAddresses(st, q, list[n], a)}
    IN  IF after = {} THEN Len(list) + 1 ELSE Least(after)

Inserted(list, n, a) ==
    [m \in 1 .. Len(list) + 1 |-> IF m < n THEN list[m] ELSE IF m = n THEN a ELSE list[m - 1]]

\* What the filter lets pass is skipped.
AddToSortOrder(st, q, list, a) ==
    IF IsAddressFiltered(st, q, a) \/ a \in Listed(list) THEN list
    ELSE IF q.sort # Nobody THEN Inserted(list, LowerBound(st, q, list, a), a)
    ELSE Append(list, a)

RemoveAt(list, n) == [m \in 1 .. Len(list) - 1 |-> IF m < n THEN list[m] ELSE list[m + 1]]

\* A stack that lost some of its copies is taken off like one that is gone, and
\* an address that is not listed has no index.
RemoveFromList(w, a) ==
    IF a \in Listed(w.list)
    THEN [list |-> RemoveAt(w.list, CHOOSE n \in DOMAIN w.list : w.list[n] = a), broken |-> w.broken]
    ELSE [list |-> w.list, broken |-> TRUE]

IsRemovalEvent(batch) == batch.type \notin {"Addition", "Split"}

PatchedBy(w, st, q, batch, a) ==
    IF IsRemovalEvent(batch) THEN RemoveFromList(w, a)
    ELSE [list |-> AddToSortOrder(st, q, w.list, a), broken |-> w.broken]

Patched(w, st, q, batch) ==
    LET touched == InOrder(TouchedBy(batch))
        after[n \in 0 .. Cardinality(TouchedBy(batch))] ==
            IF n = 0 THEN w ELSE PatchedBy(after[n - 1], st, q, batch, touched[n])
    IN  after[Cardinality(TouchedBy(batch))]

\* A batch of several events requests a query instead.
TooMany(batch) == Cardinality(batch.data) > 1

\* The batch the call broadcast of the widget's storage, if it did; a call that
\* changes no entry broadcasts nothing of it, and no call two of one storage.
Heard ==
    IF itemStorage \notin listening \/ store'[itemStorage].entries = store[itemStorage].entries
    THEN {}
    ELSE {b \in {log'[n] : n \in DOMAIN log'} : b.storage = itemStorage}

OnPostEventBatch ==
    IF Heard = {} \/ needsNewQuery THEN UNCHANGED <<listed, needsNewQuery, broken>>
    ELSE \E batch \in Heard :
            IF TooMany(batch) THEN needsNewQuery' = TRUE /\ UNCHANGED <<listed, broken>>
            ELSE \E w \in {Patched([list |-> listed, broken |-> broken],
                                   store'[itemStorage], query, batch)} :
                    /\ listed' = w.list /\ broken' = w.broken
                    /\ UNCHANGED needsNewQuery

StorageChanges ==
    /\ ~halted
    /\ \/ \E s \in Storages : StorageCall(s)
       \/ \E s, t \in Storages : TransferCall(s, t)
    /\ OnPostEventBatch
    /\ UNCHANGED <<query, itemStorage, constructed, listening>>

ItemChanges ==
    /\ \E i \in Mutables : MutateItem(i)
    /\ UNCHANGED widgetVars

WidgetNext ==
    /\ ~halted /\ ~broken
    /\ \/ StorageChanges \/ ItemChanges
       \/ NativeConstruct \/ NativeDestruct \/ NativeTick
       \/ ChangeQuery
       \/ Unlink
       \/ \E s \in Linkable : SetLinkedStorage(s)

WidgetSpec == Init /\ WidgetInit /\ [][WidgetNext]_widgetAllVars

-----------------------------------------------------------------------------
(* Properties.                                                              *)

\* What the query shows of a storage, by its own words: all, or what the filter
\* lets pass, or, inverted, the rest.
Shown(st, q) ==
    {a \in AddressesOf(st) :
        q.filter # Nobody => (ViewedItem(st, a) \in Passes[q.filter]) # q.invertFilter}

Sorted(st, q, list) ==
    q.sort # Nobody =>
        \A m, n \in DOMAIN list : m < n =>
            LET r(a) == Rank[q.sort][ViewedItem(st, a)]
            IN  IF q.invertSort THEN r(list[m]) >= r(list[n]) ELSE r(list[m]) <= r(list[n])

\* However the storage changes between two queries, a widget with no query due
\* lists stacks that are there, each once, in the order of the query: the
\* comparator of the next insertion is only ever asked about stacks that are
\* there (AddToSortOrder; CompareAddresses_Impl looks the stacks up).
ListsStacksInOrder ==
    itemStorage # Nobody /\ constructed /\ ~needsNewQuery =>
        /\ Listed(listed) \subseteq AddressesOf(store[itemStorage])
        /\ Cardinality(Listed(listed)) = Len(listed)
        /\ Sorted(store[itemStorage], query, listed)

\* The list stays sound from call to call.  A tick leaves it with just what the
\* query shows, whatever was asked for since the last; between two queries a
\* list without filter takes in every stack that appears and loses one only
\* when its copies fall.
CopiesAt(st, a) == IF Contains(st, a[1], a[2]) THEN st.entries[a[1]].stacks[a[2]] ELSE 0

ListFollowsStorage ==
    [][/\ ListsStacksInOrder'
       /\ itemStorage # Nobody /\ needsNewQuery /\ ~needsNewQuery'
          => Listed(listed') = Shown(store[itemStorage], query)
       /\ /\ itemStorage # Nobody /\ itemStorage' = itemStorage
          /\ constructed /\ constructed' /\ query.filter = Nobody
          /\ ~needsNewQuery /\ ~needsNewQuery'
          => /\ AddressesOf(store'[itemStorage]) \ AddressesOf(store[itemStorage])
                    \subseteq Listed(listed')
             /\ \A a \in Listed(listed) \ Listed(listed') :
                   CopiesAt(store'[itemStorage], a) < CopiesAt(store[itemStorage], a)]_widgetAllVars
=============================================================================
