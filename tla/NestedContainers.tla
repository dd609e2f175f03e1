--------------------------- MODULE NestedContainers ---------------------------
(***************************************************************************)
(* Containers in items in containers: what TakeOwnership and                *)
(* ReleaseOwnership do to an item and to all that lies in it, the guard     *)
(* against storages that would hold themselves, and the searches and paths  *)
(* over what is nested (SubObject, FFaerieItemContainerPath).  A bearer is  *)
(* an item with a container token, a storage's or a child slot's; its       *)
(* container goes by the item's name.                                       *)
(***************************************************************************)
EXTENDS Integers, Sequences, FiniteSets

CONSTANTS
    Roots,      \* containers that lie in no item
    Actor,      \* root -> the actor it lies in, NoActor for one that does not
                \* use the registered subobject list
    NoActor,
    Nestables,  \* mutable items
    Bearers,    \* those that have a container
    Sockets,    \* the containers that are slots; the others are storages
    FitsIn,     \* socket -> the items its template matches
    Nowhere

ASSUME NestedContainersAssumption ==
    /\ Bearers \subseteq Nestables /\ Sockets \subseteq Roots \cup Bearers
    /\ Nowhere \notin Roots \cup Nestables /\ Roots \cap Nestables = {}
    /\ IsFiniteSet(Roots) /\ IsFiniteSet(Nestables)

VARIABLES
    lies,     \* item -> the container it lies in
    outer,    \* item -> the container it is renamed into
    hook,     \* item -> the container told of its edits
    net,      \* actor -> items on its list of replicated subobjects
    linked,   \* bearers whose container's extension group has the token's as parent
    parent,   \* bearer -> the container whose group is the parent of the token's
    renames   \* ContainerMutableBehavior = Rename

nestVars == <<lies, outer, hook, net, linked, parent, renames>>

Vessels == Roots \cup Bearers
Actors == { Actor[r] : r \in Roots } \ {NoActor}

Nest == [lies |-> lies, outer |-> outer, hook |-> hook, net |-> net, linked |-> linked, parent |-> parent]
BecomesNest(w) ==
    /\ lies' = w.lies /\ outer' = w.outer /\ hook' = w.hook /\ net' = w.net
    /\ linked' = w.linked /\ parent' = w.parent /\ UNCHANGED renames

ContentOf(w, vessel) == { item \in DOMAIN w.lies : w.lies[item] = vessel }

\* What lies in the containers of these items, and in theirs, with the items.
WithNested(w, items) ==
    { i \in Nestables : \A S \in SUBSET Nestables :
        items \subseteq S /\ (\A x \in Nestables : w.lies[x] \in S => x \in S) => i \in S }

Inside(w, vessel) == WithNested(w, ContentOf(w, vessel))

\* What a walk from a vessel comes to, the vessel first; next is Nowhere where it ends.
Along(next, vessel) ==
    { v \in Vessels : \A S \in SUBSET Vessels :
        vessel \in S /\ (\A u \in S : next[u] # Nowhere => next[u] \in S) => v \in S }

\* GetAllContainersInItem(Recursive).
GetAllContainersInItem(item) == {item} \cap Bearers
GetAllContainersInItemRecursive(w, item) == WithNested(w, {item}) \cap Bearers

-----------------------------------------------------------------------------
(* Ownership.  An actor is found along the outers of the owner.              *)

Outward(w) == [v \in Vessels |-> IF v \in Roots THEN Nowhere ELSE w.outer[v]]

TypedOuterActor(w, vessel) ==
    LET outermost == Along(Outward(w), vessel) \cap Roots
    IN  IF outermost = {} THEN NoActor ELSE Actor[CHOOSE r \in outermost : TRUE]

\* Token::InitializeNetObject: registered, and the groups linked.
Enlisted(w, actor, items) ==
    IF actor = NoActor THEN w
    ELSE [w EXCEPT !.net[actor] = @ \cup items, !.linked = @ \cup (items \cap Bearers)]

Delisted(w, actor, items) ==
    IF actor = NoActor THEN w
    ELSE [w EXCEPT !.net[actor] = @ \ items, !.linked = @ \ items]

\* SetParentGroup, of the token's group: one that has a parent keeps it, with an ensure.
WithParents(w, items, owner) ==
    [w EXCEPT !.parent = [b \in Bearers |-> IF b \in items /\ w.parent[b] = Nowhere THEN owner ELSE w.parent[b]]]

WithoutParents(w, items) ==
    [w EXCEPT !.parent = [b \in Bearers |-> IF b \in items THEN Nowhere ELSE w.parent[b]]]

\* Mutated: what lies in the item is left to the last owner.
ReleaseItemOnly(w, owner, item) ==
    LET unregistered == Delisted(w, TypedOuterActor(w, owner), {item})
        free         == WithoutParents(unregistered, {item})
    IN  [free EXCEPT !.outer[item] = Nowhere, !.hook[item] = Nowhere]

ReleaseNested(w, owner, item) ==
    LET items        == WithNested(w, {item})
        unregistered == Delisted(w, TypedOuterActor(w, owner), items)
        free         == WithoutParents(unregistered, items)
    IN  [free EXCEPT !.outer[item] = IF w.outer[item] = owner THEN Nowhere ELSE w.outer[item],
                      !.hook[item] = Nowhere]

TakeNested(w, owner, item) ==
    LET moved == [w EXCEPT !.outer[item] = IF renames THEN owner ELSE w.outer[item], !.hook[item] = owner]
        items == WithNested(moved, {item})
    IN  WithParents(Enlisted(moved, TypedOuterActor(moved, owner), items), items, owner)

-----------------------------------------------------------------------------

NestInit ==
    /\ lies = [i \in Nestables |-> Nowhere] /\ outer = lies /\ hook = lies
    /\ net = [a \in Actors |-> {}] /\ linked = {} /\ parent = [b \in Bearers |-> Nowhere]
    /\ renames \in BOOLEAN

\* CanAddStack(s).
CanAddTo(vessel, item) == vessel \notin GetAllContainersInItemRecursive(Nest, item)

\* CanSetInSlot asks the template, and not where the slot lies.
CanSetIn(socket, item) == ContentOf(Nest, socket) = {} /\ item \in FitsIn[socket]

\* Somebody who holds an item puts it into a container.
PutInto(vessel, item) ==
    /\ lies[item] = Nowhere
    /\ IF vessel \in Sockets THEN CanSetIn(vessel, item) ELSE CanAddTo(vessel, item)
    /\ BecomesNest(TakeNested([Nest EXCEPT !.lies[item] = vessel], vessel, item))

\* The entry goes before the ownership does.
TakeOutOf(vessel, item) ==
    /\ lies[item] = vessel
    /\ BecomesNest(ReleaseNested([Nest EXCEPT !.lies[item] = Nowhere], vessel, item))

NestNext == \E vessel \in Vessels, item \in Nestables : PutInto(vessel, item) \/ TakeOutOf(vessel, item)
NestSpec == NestInit /\ [][NestNext]_nestVars

\* The slots in items take no storages, and slots in an order: what fits into
\* a slot cannot take the slot's own item again.
TemplatesDescend(Ranks) ==
    \E rank \in [Bearers -> Ranks] :
      \A s \in Sockets \cap Bearers : \A b \in FitsIn[s] \cap Bearers :
        b \in Sockets /\ rank[b] < rank[s]

-----------------------------------------------------------------------------
(* Paths from the outermost container in, and from one out.                  *)

SequencesOver(S) == UNION { [1..n -> S] : n \in 1..Cardinality(S) }

BuildPaths(vessel) ==
    { path \in SequencesOver({vessel} \cup (Inside(Nest, vessel) \cap Bearers)) :
        path[1] = vessel /\ \A k \in 2..Len(path) : path[k] \in ContentOf(Nest, path[k - 1]) }

BuildParentPath(vessel) ==
    CHOOSE path \in SequencesOver(Along(Outward(Nest), vessel)) :
      /\ path[1] = vessel
      /\ \A k \in 2..Len(path) : path[k] = Outward(Nest)[path[k - 1]]
      /\ Outward(Nest)[path[Len(path)]] = Nowhere

-----------------------------------------------------------------------------
(* What should hold.                                                        *)

\* However containers are put into each other, no storage comes to hold the
\* item it is a part of, through whatever lies between.
NoStorageInsideItself == \A b \in Bearers : b \notin Inside(Nest, b)

\* While items are renamed into their containers, an actor replicates just what
\* lies somewhere in it, and what happens in a nested container is heard by the
\* extensions of the outermost one: whether the inner or the outer container
\* was filled first, and when it goes with all that it holds.
Upward == [v \in Vessels |-> IF v \in linked THEN parent[v] ELSE Nowhere]
HeardAt(vessel) == CHOOSE v \in Along(Upward, vessel) : Upward[v] = Nowhere
NestedBelongToRoots ==
    renames =>
      /\ \A a \in Actors : net[a] = UNION { Inside(Nest, r) : r \in { s \in Roots : Actor[s] = a } }
      /\ \A r \in Roots : Actor[r] # NoActor =>
           \A b \in Inside(Nest, r) \cap Bearers : HeardAt(b) = r

\* While items are renamed, the path from a container out to its root is the
\* one that leads from the root in to it: containers form a tree.
Turned(path) == [k \in DOMAIN path |-> path[Len(path) + 1 - k]]
PathsAgree ==
    renames =>
      \A r \in Roots :
        BuildPaths(r) = { Turned(BuildParentPath(v)) : v \in {r} \cup (Inside(Nest, r) \cap Bearers) }

\* Whatever is put into whatever, by whoever holds an item, containers and
\* items form a tree under each root, the paths through it agree, and each root
\* answers for all that is in its tree.
NestingIsATree == NoStorageInsideItself /\ PathsAgree /\ NestedBelongToRoots
=============================================================================
