---------------------------- MODULE ExtensionGroups ----------------------------
(***************************************************************************)
(* UItemContainerExtensionGroup.  The group of a storage has its            *)
(* component's as parent.  A bearer is an item whose token has a container: *)
(* the group of that container has the token's as parent, and the token's   *)
(* has the group of the container the bearer lies in.  Whatever a group is  *)
(* told it tells its default extensions, the dynamic ones and its parent:   *)
(* which containers there are, what enters the list of replicated           *)
(* subobjects and what leaves it, and what a container asks before a change.*)
(***************************************************************************)
EXTENDS Integers, Sequences, FiniteSets
LOCAL INSTANCE SequencesExt

CONSTANTS
    Storage,       \* the inventory component's container
    Chests,        \* bearers; the container of one goes by its name
    ComponentGroup,
    GroupOf,       \* of each container: its own group
    TokenGroup,    \* of each bearer: its token's
    Defaults,      \* of each group: its default extensions, groups too
    FreeLeaves,    \* extensions that are added and removed
    OpenGroups,    \* bound: the groups they are added to
    ExtensionClassOf, \* of each extension that is no group
    NoGroup

ASSUME ExtensionGroupsAssumption ==
    /\ GroupOf \in [{Storage} \cup Chests -> DOMAIN Defaults] /\ TokenGroup \in [Chests -> DOMAIN Defaults]
    /\ FreeLeaves \subseteq DOMAIN ExtensionClassOf /\ NoGroup \notin DOMAIN Defaults

Groups == DOMAIN Defaults
Leaves == DOMAIN ExtensionClassOf
Holders == {Storage} \cup Chests
Elsewhere == "elsewhere"   \* where a bearer is that lies in no container

VARIABLES
    tree,     \* [parent, dynamic, containers: of each group; told: of each leaf how
              \* often each container was initialised more than deinitialised;
              \* actorNet, componentNet: the two lists of replicated subobjects;
              \* endless: a walk over the groups that does not end]
    within,   \* bearer -> the container it lies in
    ready,    \* ReadyForReplication was called
    dropped   \* what may have left the lists that should not: a bearer was taken out,
              \* or a default extension refused to be removed

groupVars == <<tree, within, ready, dropped>>

-----------------------------------------------------------------------------
(* Walks.                                                                    *)

\* TExtensionIterator.
Elements(w, g) ==
    Defaults[g] \o w.dynamic[g] \o (IF w.parent[g] = NoGroup THEN <<>> ELSE <<w.parent[g]>>)

ElementsOf(w, g) == { Elements(w, g)[i] : i \in DOMAIN Elements(w, g) }

\* Mutated: groups are left for others to search.
GetAllExtensionsFlat(w, g) == ElementsOf(w, g) \cap Leaves

\* TRecursiveExtensionIterator: no group is searched again once it was.
RECURSIVE Searched(_, _, _)
Searched(w, searched, toSearch) ==
    IF toSearch = {} THEN searched
    ELSE LET h == CHOOSE h \in toSearch : TRUE
             found == ElementsOf(w, h) \cap Groups
         IN  Searched(w, searched \cup {h}, (toSearch \cup found) \ (searched \cup {h}))

GetAllExtensions(w, g) == UNION { ElementsOf(w, h) : h \in Searched(w, {}, {g}) } \cap Leaves

\* What a walk through each element's own walk comes to.
RECURSIVE Below(_, _)
Below(w, gs) ==
    LET more == gs \cup UNION { ElementsOf(w, g) : g \in gs \cap Groups }
    IN  IF more = gs THEN gs ELSE Below(w, more)

\* Such a walk does not end if it comes back to a group.
WalkEnds(w, g) ==
    \A h \in Below(w, {g}) \cap Groups : h \notin Below(w, ElementsOf(w, h))

\* AllowsAddition, AllowsRemoval and AllowsEdit differ only in what they ask: the first that
\* disallows ends the walk.
RECURSIVE Allows(_, _, _, _)
Allows(w, xs, response, verdicts) ==
    IF xs = <<>> THEN response
    ELSE LET x     == Head(xs)
             given == IF x \in Leaves THEN verdicts[x] ELSE Allows(w, Elements(w, x), "None", verdicts)
         IN  IF given = "Disallowed" THEN given
             ELSE Allows(w, Tail(xs), IF given = "Allowed" THEN given ELSE response, verdicts)

\* GetExtension: the first of the class, NoGroup for none.  HasExtension walks alike.
RECURSIVE FirstOf(_, _, _, _)
FirstOf(w, xs, class, recursive) ==
    IF xs = <<>> THEN NoGroup
    ELSE LET x     == Head(xs)
             found == CASE x \in Leaves -> IF ExtensionClassOf[x] = class THEN x ELSE NoGroup
                        [] x \in Groups /\ recursive -> FirstOf(w, Elements(w, x), class, TRUE)
                        [] OTHER -> NoGroup
         IN  IF found # NoGroup THEN found ELSE FirstOf(w, Tail(xs), class, recursive)

GetExtension(w, g, class, recursive) == FirstOf(w, Elements(w, g), class, recursive)

-----------------------------------------------------------------------------
(* What groups do.                                                           *)

RECURSIVE InitializeExtension(_, _, _)
InitializeExtension(w, x, v) ==
    CASE x \in Leaves -> [w EXCEPT !.told[x][v] = @ + 1]
      [] x \in Groups /\ v \in w.containers[x] -> w
      [] OTHER -> FoldLeft(LAMBDA u, y : InitializeExtension(u, y, v),
                           [w EXCEPT !.containers[x] = @ \cup {v}], Elements(w, x))

\* The container is forgotten last: groups that hold one another tell each other for ever.
RECURSIVE DeinitializeExtension(_, _, _)
DeinitializeExtension(w, x, v) ==
    CASE x \in Leaves -> [w EXCEPT !.told[x][v] = @ - 1]
      [] x \in Groups /\ v \notin w.containers[x] -> w
      [] x \in Groups /\ ~WalkEnds(w, x) -> [w EXCEPT !.endless = TRUE]
      [] OTHER -> LET told == FoldLeft(LAMBDA u, y : DeinitializeExtension(u, y, v), w, Elements(w, x))
                  IN  [told EXCEPT !.containers[x] = @ \ {v}]

\* InitializeNetObject, DeinitializeNetObject: every element, and what is below it.
InitializeNetObject(w, x) ==
    CASE x \in Leaves -> w
      [] x \in Groups /\ ~WalkEnds(w, x) -> [w EXCEPT !.endless = TRUE]
      [] OTHER -> [w EXCEPT !.actorNet = @ \cup Below(w, ElementsOf(w, x))]

DeinitializeNetObject(w, x) ==
    CASE x \in Leaves -> w
      [] x \in Groups /\ ~WalkEnds(w, x) -> [w EXCEPT !.endless = TRUE]
      [] OTHER -> [w EXCEPT !.actorNet = @ \ Below(w, ElementsOf(w, x))]

Registered(w, x) == InitializeNetObject([w EXCEPT !.actorNet = @ \cup {x}], x)
Deregistered(w, x) == DeinitializeNetObject([w EXCEPT !.actorNet = @ \ {x}], x)

\* SetParentGroup, of none.
ClearParentGroup(w, g) ==
    IF w.parent[g] = NoGroup THEN w
    ELSE LET left == FoldLeft(LAMBDA u, v : DeinitializeExtension(u, w.parent[g], v),
                              w, SetToSeq(w.containers[g]))
         IN  [left EXCEPT !.parent[g] = NoGroup]

\* Mutated: the containers the group has already are not told of.
SetParentGroupOnly(w, g, p) == IF w.parent[g] # NoGroup THEN w ELSE [w EXCEPT !.parent[g] = p]

\* SetParentGroup.  One that has a parent keeps it, with an ensure.
SetParentGroup(w, g, p) ==
    IF w.parent[g] # NoGroup THEN w
    ELSE FoldLeft(LAMBDA u, v : InitializeExtension(u, p, v),
                  [w EXCEPT !.parent[g] = p], SetToSeq(w.containers[g]))

AddExtension(w, g, x) ==
    FoldLeft(LAMBDA u, v : InitializeExtension(u, x, v),
             [w EXCEPT !.dynamic[g] = Append(@, x)], SetToSeq(w.containers[g]))

\* An extension that is not one of the group's dynamic ones is left alone.
RemoveExtension(w, g, x) ==
    IF ~Contains(w.dynamic[g], x) THEN w
    ELSE LET told == FoldLeft(LAMBDA u, v : DeinitializeExtension(u, x, v), w, SetToSeq(w.containers[g]))
         IN  [told EXCEPT !.dynamic[g] = SelectSeq(@, LAMBDA y : y # x)]

-----------------------------------------------------------------------------
(* What containers, tokens and owners do with them.                          *)

\* UFaerieItemContainerBase; UFaerieItemStorage registers the group once more.
InitializeContainer(w, v) == InitializeExtension(Registered(w, GroupOf[v]), GroupOf[v], v)
DeinitializeContainer(w, v) == DeinitializeExtension(Deregistered(w, GroupOf[v]), GroupOf[v], v)

\* UFaerieItemStorageToken and UFaerieChildSlotToken.
InitializeToken(w, chest) ==
    SetParentGroup(Registered(InitializeContainer(w, chest), TokenGroup[chest]),
                   GroupOf[chest], TokenGroup[chest])
DeinitializeToken(w, chest) ==
    Deregistered(DeinitializeContainer(ClearParentGroup(w, GroupOf[chest]), chest), TokenGroup[chest])

RECURSIVE InActor(_)
InActor(v) == v = Storage \/ (v \in Chests /\ within[v] # Elsewhere /\ InActor(within[v]))

RECURSIVE NestedIn(_)
NestedIn(chests) ==
    LET more == chests \cup { c \in Chests : within[c] \in chests }
    IN  IF more = chests THEN chests ELSE NestedIn(more)

\* The bearers in one, itself first: each before what lies in it.
RECURSIVE Nested(_)
Nested(chest) == <<chest>> \o FoldLeft(LAMBDA s, c : s \o Nested(c), <<>>, SetToSeq({ c \in Chests : within[c] = chest }))

\* TakeOwnership: the owner is the same for all that is nested.
TakeChest(w, v, chest) ==
    FoldLeft(LAMBDA u, c :
        SetParentGroup(IF InActor(v) THEN InitializeToken(u, c) ELSE u, TokenGroup[c], GroupOf[v]),
        w, Nested(chest))

\* ReleaseOwnership.
ReleaseChest(w, v, chest) ==
    FoldLeft(LAMBDA u, c :
        ClearParentGroup(IF InActor(v) THEN DeinitializeToken(u, c) ELSE u, TokenGroup[c]),
        w, Nested(chest))

-----------------------------------------------------------------------------

\* PostLoad has given groups among the defaults of loaded ones a parent.
GroupsInit ==
    /\ \E loaded \in BOOLEAN :
         tree = [ parent     |-> [ g \in Groups |-> IF loaded /\ \E h \in Groups : Contains(Defaults[h], g)
                                                    THEN CHOOSE h \in Groups : Contains(Defaults[h], g) ELSE NoGroup ],
                  dynamic    |-> [ g \in Groups |-> <<>> ],
                  containers |-> [ g \in Groups |-> {} ],
                  told       |-> [ x \in Leaves |-> [ v \in Holders |-> 0 ] ],
                  actorNet   |-> {}, componentNet |-> {}, endless |-> FALSE ]
    /\ within = [ c \in Chests |-> Elsewhere ]
    /\ ready = FALSE /\ dropped = FALSE

\* UFaerieInventoryComponent, on the server.
ReadyForReplication ==
    /\ ~ready /\ ready' = TRUE
    /\ LET linked   == SetParentGroup(tree, GroupOf[Storage], ComponentGroup)
           netReady == InitializeContainer(linked, Storage)
           listed   == InitializeNetObject(netReady, ComponentGroup)
       IN  tree' = [listed EXCEPT !.componentNet = @ \cup {ComponentGroup}]
    /\ UNCHANGED <<within, dropped>>

\* CanAddStack keeps a storage out of what lies in it.
PutChest(v, chest) ==
    /\ within[chest] = Elsewhere /\ v \notin NestedIn({chest})
    /\ tree' = TakeChest(tree, v, chest)
    /\ within' = [within EXCEPT ![chest] = v]
    /\ UNCHANGED <<ready, dropped>>

TakeChestOut(chest) ==
    /\ within[chest] # Elsewhere
    /\ tree' = ReleaseChest(tree, within[chest], chest)
    /\ within' = [within EXCEPT ![chest] = Elsewhere]
    /\ dropped' = (dropped \/ InActor(within[chest]))
    /\ UNCHANGED ready

\* The interface's AddExtension, and AddExtensionByClass, which always makes a new one.
\* Nobody adds an extension that some group holds.
AddTo(g, x) ==
    /\ \A h \in Groups : ~Contains(tree.dynamic[h], x)
    /\ tree' = AddExtension(tree, g, x)
    /\ UNCHANGED <<within, ready, dropped>>

\* RemoveExtensionByClass: what it finds may be another group's.
RemoveByClass(g, class, recursive) ==
    /\ (recursive => WalkEnds(tree, g))
    /\ GetExtension(tree, g, class, recursive) # NoGroup
    /\ tree' = RemoveExtension(tree, g, GetExtension(tree, g, class, recursive))
    /\ UNCHANGED <<within, ready, dropped>>

\* The component's AddExtension and RemoveExtension: the latter deregisters also what the
\* storage's group then keeps.
AddToComponent(x) ==
    /\ \A h \in Groups : ~Contains(tree.dynamic[h], x)
    /\ tree' = [AddExtension(tree, GroupOf[Storage], x) EXCEPT !.componentNet = @ \cup {x}]
    /\ UNCHANGED <<within, ready, dropped>>

RemoveFromComponent(class) ==
    LET x == GetExtension(tree, GroupOf[Storage], class, FALSE) IN
    /\ x # NoGroup
    /\ tree' = [RemoveExtension(tree, GroupOf[Storage], x) EXCEPT !.componentNet = @ \ {x}]
    /\ UNCHANGED <<within, ready, dropped>>

\* UFaerieEquipmentManager::AddExtensionToSlot and RemoveExtensionFromSlot, of a container that
\* is a slot: these, too, deregister what the slot's group refuses to remove.
AddToSlot(v, x) ==
    /\ \A h \in Groups : ~Contains(tree.dynamic[h], x)
    /\ tree' = AddExtension(Registered(tree, x), GroupOf[v], x)
    /\ UNCHANGED <<within, ready, dropped>>

RemoveFromSlot(v, class) ==
    LET x == GetExtension(tree, GroupOf[v], class, FALSE) IN
    /\ x # NoGroup
    /\ tree' = RemoveExtension(Deregistered(tree, x), GroupOf[v], x)
    /\ dropped' = (dropped \/ ~Contains(tree.dynamic[GroupOf[v]], x))
    /\ UNCHANGED <<within, ready>>

GroupsNext ==
    /\ ~tree.endless
    /\ \/ ReadyForReplication
       \/ \E v \in Holders, chest \in Chests : PutChest(v, chest)
       \/ \E chest \in Chests : TakeChestOut(chest)
       \/ \E x \in FreeLeaves : AddToComponent(x) \/ AddToSlot(Storage, x) \/ \E g \in OpenGroups : AddTo(g, x)
       \/ \E class \in { ExtensionClassOf[x] : x \in Leaves } :
            \/ RemoveFromComponent(class) \/ RemoveFromSlot(Storage, class)
            \/ \E g \in OpenGroups, recursive \in BOOLEAN : RemoveByClass(g, class, recursive)
GroupsSpec == GroupsInit /\ [][GroupsNext]_groupVars

-----------------------------------------------------------------------------

\* The containers that were initialised.
Served == { v \in Holders : IF v = Storage THEN ready ELSE InActor(v) }

\* A group knows the containers whose own group's walk comes to it, and each of its
\* extensions was told of them once: whoever came first, the container, the parent or the
\* extension, and whatever left in between.
Known == [ v \in Served |-> Below(tree, {GroupOf[v]}) ]
EachIsToldOnce ==
    LET known == Known IN
    /\ \A g \in Groups : tree.containers[g] = { v \in Served : g \in known[v] }
    /\ \A x \in Leaves, v \in Holders :
         tree.told[x][v] = Cardinality({ g \in Groups : v \in tree.containers[g] /\ x \in ElementsOf(tree, g) })

\* Unless PostLoad gave a default group the group it lies in as its parent, no storing of
\* bearers in bearers makes a walk that does not end.
WalksEnd ==
    \/ \E g, h \in Groups : tree.parent[g] = h /\ Contains(Defaults[h], g)
    \/ ~tree.endless /\ \A g \in Groups : g \notin Below(tree, ElementsOf(tree, g))

\* Default extensions of what lies in the actor replicate, until a bearer is taken
\* out or a default one is to be removed.
DefaultsReplicate ==
    ready /\ ~tree.endless /\ ~dropped =>
      \A known \in { Known[v] : v \in Served } : \A g \in known \cap Groups :
        {g} \cup { Defaults[g][i] : i \in DOMAIN Defaults[g] } \subseteq tree.actorNet \cup tree.componentNet

\* Extension groups serve the containers they can be reached from.
GroupsServeTheirContainers == (tree.endless \/ EachIsToldOnce) /\ WalksEnd /\ DefaultsReplicate

\* What the recursive questions come to is what the iterator over all extensions finds: one
\* that disallows is enough, without it one that allows, and an extension is found by its
\* class just when there is one.
SomeVerdicts ==
    { [ x \in Leaves |-> CASE x = no -> "Disallowed" [] x = yes -> "Allowed" [] OTHER -> "None" ] :
        no \in Leaves \cup {NoGroup}, yes \in Leaves \cup {NoGroup} }
WalksAgree ==
    \A g \in { GroupOf[v] : v \in Holders } : WalkEnds(tree, g) =>
        LET all == GetAllExtensions(tree, g) IN
        /\ \A verdicts \in SomeVerdicts :
             Allows(tree, Elements(tree, g), "None", verdicts) =
               (IF \E x \in all : verdicts[x] = "Disallowed" THEN "Disallowed"
                ELSE IF \E x \in all : verdicts[x] = "Allowed" THEN "Allowed" ELSE "None")
        /\ \A class \in { ExtensionClassOf[x] : x \in Leaves } :
             LET found == GetExtension(tree, g, class, TRUE) IN
             IF found = NoGroup THEN \A x \in all : ExtensionClassOf[x] # class
             ELSE found \in all /\ ExtensionClassOf[found] = class
=============================================================================
