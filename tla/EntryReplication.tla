--------------------------- MODULE EntryReplication ---------------------------
(***************************************************************************)
(* How the entries of a storage reach a client: FInventoryContent is a fast *)
(* array whose updates may be lost, and whose receiving half this program   *)
(* replaces (PostReceiveCleanup of FaerieFastArraySerializerHack.h), so     *)
(* that the client's array stays sorted; and the proxies of stacks that the *)
(* client's storage keeps in step with it.  The arrays of grids and of      *)
(* extensions' data are received by the same code.  Loads, which may give a  *)
(* key out anew, are left out, so no two elements have one key.             *)
(*                                                                         *)
(* The sending half and the acknowledgements are the engine's, external     *)
(* here: an update says what changed since the state of the update before   *)
(* it, and when an update turns out lost, that state is what it was before. *)
(* An update arrives whole and in order, or not at all.                     *)
(***************************************************************************)
EXTENDS Integers, Sequences, FiniteSets

CONSTANTS
    EntryKeys,      \* 1..n: the keys entries may have
    SomeStacks,     \* the sets of stack keys entries may have
    Proxied,        \* the addresses <<entry, stack>> that proxies are held for
    MaxArrayKey, MaxInFlight, MaxLosses   \* bounds

ASSUME ReplicationAssumption ==
    /\ EntryKeys \subseteq Nat \ {0} /\ {} \notin SomeStacks
    /\ \A a \in Proxied : a[1] \in EntryKeys
    /\ MaxArrayKey \in Nat /\ MaxInFlight \in Nat /\ MaxLosses \in Nat

VARIABLES
    served,   \* the server's entries: ReplicationID -> [key, stacks, rep]
    arrayKey, \* its ArrayReplicationKey
    lastKey,  \* the storage's KeyGen
    lastID,   \* the array's IDCounter
    base,     \* the state the next update is made from
    retired,  \* for each unanswered update, the state it was made from
    flight,   \* updates under way
    answers,  \* for each update that got somewhere: whether it arrived
    losses,   \* how many were lost
    received, \* the client's entries, in order
    itemMap,  \* the client's ItemMap: ReplicationID -> index
    proxies   \* LocalStackProxies: what each proxy there is was told

replicationVars ==
    <<served, arrayKey, lastKey, lastID, base, retired, flight, answers, losses,
      received, itemMap, proxies>>

\* A proxy is "absent", "untold" since it was asked for, "created" when its item
\* was not found (both have version -1), or "current".  One that was told of its
\* removal is let go.
None == [x \in {} |-> 0]
Stale == [array |-> -1, reps |-> None]
NeverSent == [array |-> 0, reps |-> None]

Limited(f, S) == [x \in DOMAIN f \cap S |-> f[x]]

-----------------------------------------------------------------------------
(* The server.                                                              *)

Serve(entries) ==
    /\ arrayKey < MaxArrayKey
    /\ served' = entries /\ arrayKey' = arrayKey + 1
    /\ UNCHANGED <<base, retired, flight, answers, losses, received, itemMap, proxies>>

Dirty(key, held) == [key |-> key, stacks |-> held, rep |-> arrayKey + 1]

\* FInventoryContent::Append, with the key the storage generates.
AppendEntry(held) ==
    /\ lastKey + 1 \in EntryKeys
    /\ lastKey' = lastKey + 1 /\ lastID' = lastID + 1
    /\ Serve([id \in DOMAIN served \cup {lastID + 1} |->
                IF id = lastID + 1 THEN Dirty(lastKey + 1, held) ELSE served[id]])

\* An access to an entry closes: MarkItemDirty.
ChangeEntry(id, held) ==
    /\ Serve([served EXCEPT ![id] = Dirty(@.key, held)])
    /\ UNCHANGED <<lastKey, lastID>>

RemoveEntry(id) ==
    /\ Serve(Limited(served, DOMAIN served \ {id}))
    /\ UNCHANGED <<lastKey, lastID>>

\* The update: the elements that are gone and those that are new or dirty since
\* the base.
Update ==
    LET new == {id \in DOMAIN served :
                   id \notin DOMAIN base.reps \/ base.reps[id] # served[id].rep}
    IN  [array |-> arrayKey, base |-> base.array,
         deleted |-> DOMAIN base.reps \ DOMAIN served,
         changed |-> [id \in new |-> [key |-> served[id].key, stacks |-> served[id].stacks]]]

SendUpdate ==
    /\ base.array # arrayKey
    /\ Len(retired) < MaxInFlight
    /\ flight' = Append(flight, Update)
    /\ retired' = Append(retired, base)
    /\ base' = [array |-> arrayKey, reps |-> [id \in DOMAIN served |-> served[id].rep]]
    /\ UNCHANGED <<served, arrayKey, lastKey, lastID, answers, losses,
                   received, itemMap, proxies>>

LoseUpdate ==
    /\ flight # <<>> /\ losses < MaxLosses
    /\ losses' = losses + 1
    /\ flight' = Tail(flight) /\ answers' = Append(answers, FALSE)
    /\ UNCHANGED <<served, arrayKey, lastKey, lastID, base, retired,
                   received, itemMap, proxies>>

\* The update arrived, or was sent after one that was lost.
Passed == Head(answers) \/ Head(retired) = Stale

\* ReceivedAck, ReceivedNak: a loss restores the state the update was made from,
\* and what was sent after it no longer counts.
HearAnswer ==
    /\ answers # <<>>
    /\ answers' = Tail(answers)
    /\ IF Passed
       THEN retired' = Tail(retired) /\ UNCHANGED base
       ELSE /\ retired' = [n \in 1 .. Len(retired) - 1 |-> Stale]
            /\ base' = Head(retired)
    /\ UNCHANGED <<served, arrayKey, lastKey, lastID, flight, losses,
                   received, itemMap, proxies>>

-----------------------------------------------------------------------------
(* The client's storage hears of its entries.                               *)

\* IsValid: the item object may not have arrived yet.
ItemArrived(e) == e.mapped

Addresses(e) == {<<e.key, s>> : s \in e.stacks}

\* GetItemObject, as NotifyCreation asks for it.
NotifyCreation(elements, key) ==
    IF \E e \in elements : e.key = key /\ ItemArrived(e) THEN "current" ELSE "created"

PreContentRemoved(told, gone) ==
    [a \in Proxied |->
        IF \E e \in gone : ItemArrived(e) /\ a \in Addresses(e) THEN "absent" ELSE told[a]]

PostContentAdded(told, elements, added) ==
    [a \in Proxied |->
        IF told[a] # "absent" /\ \E e \in added : ItemArrived(e) /\ a \in Addresses(e)
        THEN NotifyCreation(elements, a[1]) ELSE told[a]]

\* Of a stack the changed entry has not, the proxy is discarded.
PostContentChanged(told, changed) ==
    [a \in Proxied |->
        IF told[a] = "absent" \/ ~\E e \in changed : ItemArrived(e) /\ a[1] = e.key
        THEN told[a]
        ELSE IF \E e \in changed : ItemArrived(e) /\ a \in Addresses(e)
        THEN "current" ELSE "absent"]

-----------------------------------------------------------------------------
(* The client receives.                                                     *)

MapOf(list) ==
    [id \in {list[n].id : n \in DOMAIN list} |->
        CHOOSE n \in DOMAIN list : list[n].id = id]

ConditionalRebuildItemMap ==
    IF Cardinality(DOMAIN itemMap) # Len(received) THEN MapOf(received) ELSE itemMap

\* An element as it is read; what was known of its item stays known.
ReadElement(update, id, arrived, known) ==
    [id |-> id, key |-> update.changed[id].key, stacks |-> update.changed[id].stacks,
     recent |-> update.array, mapped |-> id \in arrived \/ known]

\* The engine reads the elements: those it knows in place, the others at the
\* end.  What follows sorts them, so that their order is left out.
ReadElements(update, map, arrived) ==
    LET new == DOMAIN update.changed \ DOMAIN map
        At(n) == {id \in DOMAIN update.changed \ new : map[id] = n}
        InPlace(n) == IF At(n) = {} THEN received[n]
                      ELSE ReadElement(update, CHOOSE id \in At(n) : TRUE, arrived, received[n].mapped)
    IN  {InPlace(n) : n \in DOMAIN received} \cup {ReadElement(update, id, arrived, FALSE) : id \in new}

\* Keys are distinct: an element's place is the number of lesser ones.
Rank(elements, e) == Cardinality({x \in elements : x.key < e.key})
SortedByKey(elements) ==
    [n \in 1 .. Cardinality(elements) |-> CHOOSE e \in elements : Rank(elements, e) = n - 1]

\* Mutated: only what the update names is deleted.
NoImplicitDeletes(elements, update) == {}

\* Elements that came with an update after the base of this one, and not with
\* this one: the server took back what it had said of them.
ImplicitDeletes(elements, update) ==
    {e.id : e \in {x \in elements : x.recent < update.array /\ x.recent > update.base}}

\* The deletions of the update that the client knows.
KnownDeletions(update, known) == update.deleted \cap known

\* PreEntryReplicatedRemove, PostEntryReplicatedAdd and _Client, in this order.
TellOfEntries(told, elements, gone, added, changed) ==
    PostContentChanged(PostContentAdded(PreContentRemoved(told, gone), elements, added), changed)

With(elements, ids) == {e \in elements : e.id \in ids}

\* Removal keeps the order.
PostReceiveCleanup(update, read, known) ==
    LET dropped == KnownDeletions(update, known) \cup ImplicitDeletes(read, update)
        gone    == With(read, dropped)
        sent    == DOMAIN update.changed
    IN  /\ proxies' = TellOfEntries(proxies, read, gone, With(read, sent \ known), With(read, sent \cap known))
        /\ received' = SortedByKey(read \ gone)
        /\ itemMap' = IF gone # {} THEN None ELSE MapOf(SortedByKey(read))

\* FastArrayDeltaSerialize, for a reader.
ReceiveUpdate ==
    /\ flight # <<>>
    /\ LET update == Head(flight)
           map == ConditionalRebuildItemMap
       IN  \E arrived \in SUBSET DOMAIN update.changed :
              PostReceiveCleanup(update, ReadElements(update, map, arrived), DOMAIN map)
    /\ flight' = Tail(flight) /\ answers' = Append(answers, TRUE)
    /\ UNCHANGED <<served, arrayKey, lastKey, lastID, base, retired, losses>>

\* The object of an entry's item arrives after the entry: the engine has the
\* element report a change.
ItemArrives(n) ==
    /\ ~received[n].mapped
    /\ received' = [received EXCEPT ![n] = [@ EXCEPT !.mapped = TRUE]]
    /\ proxies' = PostContentChanged(proxies, {received'[n]})
    /\ itemMap' = ConditionalRebuildItemMap
    /\ UNCHANGED <<served, arrayKey, lastKey, lastID, base, retired, flight, answers, losses>>

Entries == {received[n] : n \in DOMAIN received}

ContainsAddress(a) == \E e \in Entries : a \in Addresses(e)

\* GetStackProxyImpl: the client may ask before it has the entry.
RequestProxy(a) ==
    /\ proxies[a] = "absent"
    /\ proxies' = [proxies EXCEPT ![a] =
         IF ContainsAddress(a) THEN NotifyCreation(Entries, a[1]) ELSE "untold"]
    /\ UNCHANGED <<served, arrayKey, lastKey, lastID, base, retired, flight, answers,
                   losses, received, itemMap>>

ReplicationInit ==
    /\ served = None /\ arrayKey = 0 /\ lastKey = 0 /\ lastID = 0
    /\ base = NeverSent /\ retired = <<>> /\ flight = <<>> /\ answers = <<>> /\ losses = 0
    /\ received = <<>> /\ itemMap = None
    /\ proxies = [a \in Proxied |-> "absent"]

ReplicationNext ==
    \/ \E held \in SomeStacks :
          AppendEntry(held) \/ \E id \in DOMAIN served : ChangeEntry(id, held)
    \/ \E id \in DOMAIN served : RemoveEntry(id)
    \/ SendUpdate \/ LoseUpdate \/ HearAnswer \/ ReceiveUpdate
    \/ \E n \in DOMAIN received : ItemArrives(n)
    \/ \E a \in Proxied : RequestProxy(a)

ReplicationSpec == ReplicationInit /\ [][ReplicationNext]_replicationVars

-----------------------------------------------------------------------------
(* Properties.                                                              *)

Settled == flight = <<>> /\ answers = <<>> /\ base.array = arrayKey

\* Whatever was lost on the way, once the server has nothing left to send and
\* every update is answered for, the client has exactly the server's entries;
\* and at all times its array is sorted, as its binary searches presume.
ClientGetsWhatIsServed ==
    /\ \A n \in DOMAIN received \ {1} : received[n - 1].key <= received[n].key
    /\ Settled =>
          {[id |-> e.id, key |-> e.key, stacks |-> e.stacks] : e \in Entries}
            = {[id |-> id, key |-> served[id].key, stacks |-> served[id].stacks] :
                 id \in DOMAIN served}

\* A proxy the client's storage knows has heard of its stack when the stack is
\* there with its item, and is current only then: whether the proxy was asked
\* for before or after the entry, or the item's object, arrived, and however
\* entries came and went.
ProxiesHearOfStacks ==
    \A a \in Proxied :
        LET there == \E e \in Entries : ItemArrived(e) /\ a \in Addresses(e)
        IN  /\ proxies[a] = "current" => there
            /\ there => proxies[a] # "untold"

\* What a client's storage holds, and tells, is what the server served it: a
\* message that is lost, or a question asked too early, is made up for.
ClientsFollowServer == ClientGetsWhatIsServed /\ ProxiesHearOfStacks
=============================================================================
