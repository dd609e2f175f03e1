----------------------------- MODULE ItemPickups -----------------------------
(***************************************************************************)
(* An actor that owns one stack and shows it (AFaerieItemOwningActorBase,   *)
(* AFaerieItemVisualBase), around a plain UFaerieItemStackContainer, its    *)
(* keys (TKeyGen) and its saves.                                            *)
(*   box    [item, copies, key, gen] of the container; gen is the last key  *)
(*          its generator gave, or was set to by a load                     *)
(*   phase  "built", then "begun" by BeginPlay, then "ended" by EndPlay     *)
(*   shown  what DisplayData last showed: [item, data], or Blank            *)
(***************************************************************************)
EXTENDS Integers

CONSTANTS
    Pieces,          \* items
    MutablePieces,   \* those with mutable tokens; there is one copy of each
    Unwelcome,       \* items that an extension of the container does not allow
    NoPiece,
    MaxPieceCopies,  \* bound: copies of an item
    MaxBoxKey        \* bound of the key generator

ASSUME ItemPickupsAssumption ==
    /\ MutablePieces \subseteq Pieces /\ Unwelcome \subseteq Pieces /\ NoPiece \notin Pieces
    /\ MaxPieceCopies \in Nat \ {0} /\ MaxBoxKey \in Nat

VARIABLES
    box, phase, shown,
    hooked,     \* the mutable items whose edits are told to the container
    data,       \* what each item's tokens hold
    disk        \* what MakeSaveData made: [item, copies, key, data]

pickupVars == <<box, phase, shown, hooked, data, disk>>

Unset == -1          \* FEntryKey::InvalidKey
BoxGenReset == 100   \* TKeyGen::Reset
WholeStack == -1     \* ItemData::EntireStack
Blank == [item |-> NoPiece, data |-> 0]
NoSave == [item |-> NoPiece, copies |-> 0, key |-> Unset, data |-> 0]

Filled == box.item # NoPiece /\ box.copies > 0

-----------------------------------------------------------------------------
(* The container.  Pickup is what a call may change; a call that changes the  *)
(* content broadcasts, which the actor listens to from BeginPlay on.         *)

Pickup == [box |-> box, shown |-> shown, hooked |-> hooked, data |-> data]

BecomesPickup(w) ==
    /\ w.box.gen <= MaxBoxKey /\ w.box.copies <= MaxPieceCopies
    /\ box' = w.box /\ shown' = w.shown /\ hooked' = w.hooked /\ data' = w.data

\* RegenerateDataDisplay.
Redisplayed(w) ==
    [w EXCEPT !.shown =
        IF w.box.item = NoPiece THEN Blank ELSE [item |-> w.box.item, data |-> w.data[w.box.item]]]

BroadcastChange(w) == IF phase = "built" THEN w ELSE Redisplayed(w)

\* TakeItemFromSlot, of as many copies as lie there or fewer.
TakeFromBox(w, copies) ==
    LET all == copies = WholeStack \/ copies = w.box.copies
    IN  BroadcastChange(
          IF all
          THEN [w EXCEPT !.box = [@ EXCEPT !.item = NoPiece, !.copies = 0, !.key = Unset],
                         !.hooked = @ \ {w.box.item}]
          ELSE [w EXCEPT !.box.copies = @ - copies])

CanTake(copies) == Filled /\ (copies = WholeStack \/ copies <= box.copies)

NextBoxKey(gen) == gen + 1

CanSet(w, item) ==
    /\ w.box.item \in {NoPiece, item}
    /\ item \notin Unwelcome

\* SetStoredItem_Impl.
StoreInBox(w, item, copies) ==
    LET key == NextBoxKey(w.box.gen)
    IN  BroadcastChange(
          IF item # w.box.item
          THEN [w EXCEPT !.box = [item |-> item, copies |-> copies, key |-> key, gen |-> key],
                         !.hooked = @ \cup ({item} \cap MutablePieces)]
          ELSE [w EXCEPT !.box.copies = @ + copies])

\* Possess, SetItemInSlot; what may not be set is refused.
PossessedBy(w, item, copies) == IF CanSet(w, item) THEN StoreInBox(w, item, copies) ELSE w

\* A stack that somebody may hand in: a mutable item is a single copy, and it
\* is not in the container already.
Handed(item, copies) == item \in MutablePieces => copies = 1 /\ item # box.item

-----------------------------------------------------------------------------

PickupInit ==
    /\ box = [item |-> NoPiece, copies |-> 0, key |-> Unset, gen |-> BoxGenReset]
    /\ phase = "built" /\ shown = Blank /\ hooked = {} /\ data = [p \in Pieces |-> 0]
    /\ disk = NoSave

\* PostLoad, OnConstruction and edits of the configuration, in the editor.
InitStackFromConfig(item, copies, regenerate) ==
    /\ phase = "built" /\ Handed(item, copies) /\ (regenerate \/ ~Filled)
    /\ LET emptied == IF Filled THEN TakeFromBox(Pickup, WholeStack) ELSE Pickup
           filled  == IF copies > 0 THEN PossessedBy(emptied, item, copies) ELSE emptied
       IN  BecomesPickup(IF regenerate THEN Redisplayed(filled) ELSE filled)
    /\ UNCHANGED <<phase, disk>>

BeginPlay ==
    /\ phase = "built" /\ phase' = "begun"
    /\ BecomesPickup(Redisplayed(Pickup))
    /\ UNCHANGED <<disk>>

EndPlay ==
    /\ phase = "begun" /\ phase' = "ended" /\ shown' = Blank
    /\ UNCHANGED <<box, hooked, data, disk>>

Possess(item, copies) ==
    /\ Handed(item, copies)
    /\ BecomesPickup(PossessedBy(Pickup, item, copies))
    /\ UNCHANGED <<phase, disk>>

\* What was owned is deleted, even if what comes is refused then.
SetOwnedStack(item, copies) ==
    /\ Handed(item, copies)
    /\ BecomesPickup(PossessedBy(IF Filled THEN TakeFromBox(Pickup, WholeStack) ELSE Pickup, item, copies))
    /\ UNCHANGED <<phase, disk>>

\* Release(Copies), of the actor or of the container, which is a proxy of
\* whatever lies in it.
ReleaseCopies(copies) ==
    /\ CanTake(copies)
    /\ BecomesPickup(TakeFromBox(Pickup, copies))
    /\ UNCHANGED <<phase, disk>>

\* Release(Stack): only of the item that was viewed.
ReleaseViewed(item, copies) ==
    /\ item = box.item /\ CanTake(copies)
    /\ BecomesPickup(TakeFromBox(Pickup, copies))
    /\ UNCHANGED <<phase, disk>>

\* Release(Address), Release(Key), of a key that somebody kept; one that names
\* nothing here releases nothing.
ReleaseAt(key, copies) ==
    /\ key = box.key /\ CanTake(copies)
    /\ BecomesPickup(TakeFromBox(Pickup, copies))
    /\ UNCHANGED <<phase, disk>>

\* Mutated: an edit is not passed on.
EditUnheard(item) == [Pickup EXCEPT !.data[item] = 1 - @]

\* OnItemMutated.
Edited(item) ==
    LET edited == [Pickup EXCEPT !.data[item] = 1 - @]
    IN  IF item \in hooked THEN BroadcastChange(edited) ELSE edited

EditPiece(item) ==
    /\ item \in MutablePieces
    /\ BecomesPickup(Edited(item))
    /\ UNCHANGED <<phase, disk>>

MakeBoxSave ==
    /\ disk' = IF box.key = Unset THEN NoSave
               ELSE [item |-> box.item, copies |-> box.copies, key |-> box.key, data |-> data[box.item]]
    /\ UNCHANGED <<box, phase, shown, hooked, data>>

\* LoadSaveData.  The generator takes the saved key's place, and the key after it
\* is given: keys that clients had before may be given again.
\* The items of a save are made anew; one that does not pass ValidateItemData
\* (`valid') is not stored.
LoadBoxSave(valid) ==
    LET cleared == IF Filled THEN TakeFromBox(Pickup, WholeStack) ELSE Pickup
        placed  == [cleared EXCEPT !.box.gen = disk.key,
                                   !.data = [p \in Pieces |-> IF p = disk.item THEN disk.data ELSE @[p]]]
    IN  /\ BecomesPickup(
             IF disk.key = Unset THEN cleared
             ELSE IF valid THEN StoreInBox(placed, disk.item, disk.copies)
             ELSE [cleared EXCEPT !.box.gen = disk.key])
        /\ UNCHANGED <<phase, disk>>

Amounts == 1..MaxPieceCopies
PickupNext ==
    \/ \E item \in Pieces, copies \in 0..MaxPieceCopies, regenerate \in BOOLEAN :
         InitStackFromConfig(item, copies, regenerate)
    \/ BeginPlay
    \/ EndPlay
    \/ \E item \in Pieces, copies \in Amounts :
         Possess(item, copies) \/ SetOwnedStack(item, copies) \/ ReleaseViewed(item, copies)
    \/ \E copies \in Amounts \cup {WholeStack} : ReleaseCopies(copies)
    \/ \E key \in (BoxGenReset + 1)..MaxBoxKey, copies \in Amounts \cup {WholeStack} : ReleaseAt(key, copies)
    \/ \E item \in Pieces : EditPiece(item)
    \/ MakeBoxSave
    \/ \E valid \in BOOLEAN : LoadBoxSave(valid)

-----------------------------------------------------------------------------
(* What should hold.                                                        *)

\* From BeginPlay until EndPlay a pickup shows what lies in it, with the data
\* its tokens hold now: whoever puts in, takes out, edits or loads, by the
\* actor or past it, and whatever the editor did before.
ShowsWhatItOwns == phase = "begun" => shown = Redisplayed(Pickup).shown
=============================================================================
