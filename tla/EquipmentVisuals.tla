-------------------------- MODULE EquipmentVisuals --------------------------
(***************************************************************************)
(* UEquipmentVisualizationUpdater and UEquipmentVisualizer: the visuals of  *)
(* equipment slots, and of the slots that an equipped item has itself.  A   *)
(* visual is an actor or an item mesh component.  One whose parent has no   *)
(* mesh yet is created hidden and waits in Pending until the parent's mesh  *)
(* is made.  What others do to components (ItemMesh) happens in between.    *)
(***************************************************************************)
EXTENDS ItemMesh, FiniteSets, TLC

CONSTANTS
  Slots,       \* equipment slots, those of the manager and those of items
  Items,
  NoItem,
  ChildSlots,  \* of each item: the slots it has, in the order of the filter
  Fits,        \* of each slot: the items it may be given
  TokenOf,     \* of each item: its mesh token, or none
  ActorItems,  \* items whose visual is an actor
  Unloadable,  \* those of them whose class fails to load
  LeaderSlots, \* slots whose visuals follow the pose of the body
  TagOf,       \* of each slot: the purpose its visuals are for
  Adjusted,    \* slots whose component others change
  Given,       \* meshes that others set
  InMemory,    \* what may be in memory: sets of slots whose assets are
  MaxPending   \* slots are set while fewer visuals wait than this

VARIABLES
  held,       \* what each slot holds
  visual,     \* "none", "component" or "actor"
  mesh,       \* the mesh component of a visual, that of an actor included
  attachment, \* KeyedMetadata's attachment: [parent, hidden]
  pending,    \* Pending: a sequence of [slot, parent]
  halted      \* a null component was dereferenced

visualVars == <<visual, mesh, attachment, pending, halted>>
vars == <<held, visualVars>>

Nowhere == [kind |-> "nowhere", of |-> NoItem]
Body == [kind |-> "body", of |-> NoItem]
ItemOf(s) == [kind |-> "item", of |-> s]
GeneratedOf(s) == [kind |-> "generated", of |-> s]
Detached == [parent |-> Nowhere, hidden |-> FALSE]

-----------------------------------------------------------------------------
(* Slots of items: which slot holds the item a slot belongs to, and whether *)
(* it belongs to equipment.                                                 *)

OwnerOf(s) == { i \in Items : s \in ToSet(ChildSlots[i]) }
OwningSlots(holding, s) == { p \in Slots : holding[p] \in OwnerOf(s) }
RECURSIVE IsEquipped(_)
IsEquipped(s) == OwnerOf(s) = {} \/ \E p \in OwningSlots(held, s) : IsEquipped(p)
FilledChildren(i) == SelectSeq(ChildSlots[i], LAMBDA s : held[s] # NoItem)

-----------------------------------------------------------------------------
(* Everything below computes on a copy `w' of the visuals.                  *)

World == [held |-> held, visual |-> visual, mesh |-> mesh, attachment |-> attachment, pending |-> pending, halted |-> halted]

(* References to a component that is destroyed come to nothing.             *)
Forgotten(w, parents) ==
  [w EXCEPT !.attachment = [ s \in Slots |-> IF @[s].parent \in parents THEN [@[s] EXCEPT !.parent = Nowhere] ELSE @[s] ],
            !.pending = [ i \in DOMAIN @ |-> IF @[i].parent \in parents THEN [@[i] EXCEPT !.parent = Nowhere] ELSE @[i] ]]

RemoveAtSwap(q, i) == [ j \in 1 .. Len(q) - 1 |-> IF j = i THEN q[Len(q)] ELSE q[j] ]

(* UpdateAttachment: metadata of a key without a visual is of no effect.    *)
UpdateAttachment(w, s, parent) ==
  IF w.visual[s] = "none" THEN w ELSE [w EXCEPT !.attachment[s] = [parent |-> parent, hidden |-> FALSE]]

Resolved(w, i, parent) ==
  [UpdateAttachment(w, w.pending[i].slot, parent) EXCEPT !.pending = RemoveAtSwap(@, i)]

(* The updater's answer to a rebuild: the first entry of Pending that waits *)
(* for the component is resolved; without one the visual's own attachment   *)
(* is applied again.                                                        *)
OnMeshRebuilt(w, s) ==
  LET i == SelectInSeq(w.pending, LAMBDA p : p.parent = ItemOf(s))
  IN  IF i = 0 THEN w ELSE Resolved(w, i, GeneratedOf(s))

(* The answer to an actor that has displayed its data: it asks each entry   *)
(* for the owner of its parent, which may be gone.                          *)
OnDisplayFinished(w, s) ==
  LET i == SelectInSeq(w.pending, LAMBDA p : p.parent \in {ItemOf(s), Nowhere})
  IN  IF i = 0 THEN w
      ELSE IF w.pending[i].parent = Nowhere THEN [w EXCEPT !.halted = TRUE]
      ELSE Resolved(w, i, ItemOf(s))

(* The component of a visual after an operation.                            *)
Changed(w, s, step) ==
  LET lost == IF step.c.actual # w.mesh[s].actual THEN {GeneratedOf(s)} ELSE {}
      v == [Forgotten(w, lost) EXCEPT !.mesh[s] = step.c]
  IN  IF Broadcasts(step) THEN OnMeshRebuilt(v, s) ELSE v

-----------------------------------------------------------------------------
(* FindAttachment: the mesh of the visual of the owning slot, its bare      *)
(* component if there is no mesh yet, nothing if there is no visual.        *)

FindAttachment(w, s) ==
  IF OwnerOf(s) = {} THEN Body
  ELSE LET p == CHOOSE p \in Slots : p \in OwningSlots(w.held, s)
       IN  IF w.visual[p] = "none" THEN Nowhere
           ELSE IF w.mesh[p].actual # "None" THEN GeneratedOf(p)
           ELSE ItemOf(p)

Spawned(w, s, kind, place) ==
  [w EXCEPT !.visual[s] = kind, !.mesh[s] = NewComponent, !.attachment[s] = place]

(* CreateVisualImpl.  An actor is created without looking at the children   *)
(* of its item; `there' are the slots whose assets are in memory.           *)
RECURSIVE CreateVisualForEntry(_, _, _), CreateChildren(_, _, _)
CreateChildren(w, children, there) ==
  IF children = << >> THEN w
  ELSE CreateChildren(CreateVisualForEntry(w, Head(children), there), Tail(children), there)

CreateVisualForEntry(w, s, there) ==
  LET item == w.held[s]
      parent == FindAttachment(w, s)
      waits == parent.kind = "item"
      v == IF waits THEN [w EXCEPT !.pending = Append(@, [slot |-> s, parent |-> parent])] ELSE w
      place == [parent |-> parent, hidden |-> waits]
      new == Spawned(v, s, "component", IF s \in LeaderSlots THEN [place EXCEPT !.parent = Body] ELSE place)
      tagged == Changed(new, s, SetPreferredTag(NewComponent, TagOf[s], s \in there))
      meshed == Changed(tagged, s, SetItemMeshFromToken(tagged.mesh[s], TokenOf[item], s \in there))
  IN  IF w.halted \/ w.visual[s] # "none" THEN w
      ELSE IF parent = Nowhere THEN [w EXCEPT !.halted = TRUE]
      ELSE IF item \in Unloadable THEN v
      ELSE IF item \in ActorItems THEN Spawned(v, s, "actor", place)
      ELSE CreateChildren(meshed, FilledChildren(item), there)

(* DestroyVisualByKey: a component takes the one it generated with it.      *)
DestroyVisual(w, s) ==
  [Forgotten(w, {ItemOf(s), GeneratedOf(s)})
     EXCEPT !.visual[s] = "none", !.mesh[s] = NewComponent, !.attachment[s] = Detached]

(* Mutated: the visuals of an item's own slots are left to the engine. *)
RemoveVisualImplShallow(w, s) == DestroyVisual(w, s)

RECURSIVE RemoveVisuals(_, _)
RemoveVisuals(w, todo) ==
  IF todo = << >> THEN w
  ELSE RemoveVisuals(DestroyVisual(w, Head(todo)), FilledChildren(held[Head(todo)]) \o Tail(todo))
RemoveVisualImpl(w, s) == RemoveVisuals(w, <<s>>)

-----------------------------------------------------------------------------

Becomes(world) == \E w \in {world} :
  /\ visual' = w.visual /\ mesh' = w.mesh /\ attachment' = w.attachment
  /\ pending' = w.pending /\ halted' = w.halted

(* PostEventBatch of an addition, to a slot that belongs to equipment.      *)
SetItem(s, i) ==
  /\ ~halted /\ held[s] = NoItem
  /\ \A r \in Slots : held[r] # i
  /\ Len(pending) < MaxPending
  /\ held' = [held EXCEPT ![s] = i]
  /\ IF IsEquipped(s)
     THEN \E there \in InMemory :
            Becomes(CreateVisualForEntry([World EXCEPT !.held[s] = i], s, there))
     ELSE UNCHANGED visualVars

(* PreRemoval, before the slot lets go of its item.                         *)
TakeItem(s) ==
  /\ ~halted /\ held[s] # NoItem
  /\ held' = [held EXCEPT ![s] = NoItem]
  /\ IF IsEquipped(s) THEN Becomes(RemoveVisualImpl(World, s)) ELSE UNCHANGED visualVars

(* An asynchronous load ends.                                               *)
LoadDone(s) ==
  /\ ~halted /\ visual[s] = "component" /\ mesh[s].load # NoLoad
  /\ Becomes(Changed(World, s, AsyncLoadMeshReturn(mesh[s])))
  /\ UNCHANGED held

(* An actor displays its item, now or again.                                *)
DisplayFinished(s) ==
  /\ ~halted /\ visual[s] = "actor"
  /\ Becomes(OnDisplayFinished([World EXCEPT !.mesh[s].actual = "Static"], s))
  /\ UNCHANGED held

(* Somebody else destroys an actor.                                         *)
OnVisualActorDestroyed(s) ==
  /\ ~halted /\ visual[s] = "actor"
  /\ Becomes(DestroyVisual(World, s))
  /\ UNCHANGED held

(* Others change the component of a visual.                                 *)
Adjust(s) ==
  /\ ~halted /\ visual[s] = "component"
  /\ UNCHANGED held
  /\ LET c == mesh[s]
         now(step) == Becomes(Changed(World, s, step))
     IN  \/ now(ClearItemMesh(c))
         \/ \E m \in Given : now(SetItemMesh(c, m))
         \/ \E type \in {"Static", "Skeletal"} \ {c.preferred} : now(SetPreferredMeshType(c, type))
         \/ \E token \in DOMAIN MeshesOf \ {c.token}, there \in InMemory :
              now(SetItemMeshFromToken(c, token, s \in there))
         \/ \E tag \in Range(TagOf) \ {c.tag}, there \in InMemory : now(SetPreferredTag(c, tag, s \in there))

Init ==
  /\ held = [s \in Slots |-> NoItem]
  /\ visual = [s \in Slots |-> "none"]
  /\ mesh = [s \in Slots |-> NewComponent]
  /\ attachment = [s \in Slots |-> Detached]
  /\ pending = << >> /\ halted = FALSE

Next ==
  \/ \E s \in Slots : \E i \in Fits[s] : SetItem(s, i)
  \/ \E s \in Slots : TakeItem(s) \/ LoadDone(s) \/ DisplayFinished(s) \/ OnVisualActorDestroyed(s)
  \/ \E s \in Adjusted : Adjust(s)

Spec == Init /\ [][Next]_vars

-----------------------------------------------------------------------------

(* Whatever items slots and the items in them are given and lose, a slot    *)
(* that holds nothing, or whose item is equipped no more, has no visual.    *)
NoGhostVisuals == \A s \in Slots : visual[s] # "none" => IsEquipped(s) /\ held[s] # NoItem

(* A visual does not stay hidden, or on the bare component of its parent,   *)
(* once the parent has its mesh, however loads and changes of the parent    *)
(* interleave; of items with one slot each: a second slot breaks it.        *)
NoneLeftWaiting ==
  ~halted => \A s \in Slots : visual[s] # "none" =>
    \A p \in OwningSlots(held, s) : visual[p] # "none" /\ mesh[p].actual # "None" =>
      /\ ~attachment[s].hidden
      /\ visual[p] = "component" => attachment[s].parent # ItemOf(p)

(* A component whose source has a mesh for its tag shows that mesh once no  *)
(* load is running, whatever was set, cleared and loaded before; and the    *)
(* load that runs is for nothing else.                                      *)
ShowsItsSource == \A s \in Slots : visual[s] = "component" => ShowsSource(mesh[s])

(* What is seen follows what is equipped: nothing is shown that is not,     *)
(* nothing waits for what is there, and each component shows its own mesh.  *)
VisualsFollowEquipment == NoGhostVisuals /\ NoneLeftWaiting /\ ShowsItsSource
=============================================================================
