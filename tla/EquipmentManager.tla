--------------------------- MODULE EquipmentManager ---------------------------
(***************************************************************************)
(* The slots of a UFaerieEquipmentManager: default slots, slots that are    *)
(* added, and the saving and loading of them all (FaerieEquipmentManager    *)
(* .cpp; MakeSlotData and LoadSlotData of FaerieEquipmentSlot.cpp).         *)
(*                                                                         *)
(* A slot object is [id, item, copies, key, gen]: its Config.SlotID,        *)
(* ItemStack, StoredKey and KeyGen.  RemoveSlot is not an operation here:   *)
(* it returns at once for every slot that is valid, so no slot is removed   *)
(* and RemovedDefaultSlots stays empty.  What a slot lets in and out is     *)
(* EquipmentSlots' matter; here it takes what it is given.                  *)
(***************************************************************************)
EXTENDS Integers, Sequences

CONSTANTS
    DefaultIDs,     \* InstanceDefaultSlots: their IDs, in order
    SlotIDs,        \* the IDs of slots the game adds or defaults have
    Equipment,      \* what is put into slots; a loaded item is a new object
    NothingEquipped,
    MaxCopies, MaxSlotObjects, MaxEquipKey   \* bounds

ASSUME ManagerAssumption ==
    /\ DefaultIDs \in Seq(SlotIDs)
    /\ \A m, n \in DOMAIN DefaultIDs : DefaultIDs[m] = DefaultIDs[n] => m = n
    /\ NothingEquipped \notin Equipment
    /\ MaxCopies \in Nat /\ MaxSlotObjects \in Nat /\ MaxEquipKey \in Nat

VARIABLES
    objects,     \* every slot object that was made, in order
    managed,       \* Slots: indices into objects
    heard,       \* the slots whose changes the manager broadcasts
    replicated,  \* the slots in the actor's list of sub-objects
    replicating, \* IsReadyForReplication
    equipSave    \* the last save

managerVars == <<objects, managed, heard, replicated, replicating, equipSave>>

NoKey == 0
KeyReset == 100
NoEquipSave == [there |-> FALSE]

NewSlot(id) ==
    [id |-> id, item |-> NothingEquipped, copies |-> 0, key |-> NoKey, gen |-> KeyReset]

\* The state of the manager that a call goes through.
Manager ==
    [objects |-> objects, managed |-> managed, heard |-> heard, replicated |-> replicated]

ManagerBecomes(m) ==
    /\ Len(m.objects) <= MaxSlotObjects
    /\ objects' = m.objects /\ managed' = m.managed
    /\ heard' = m.heard /\ replicated' = m.replicated

-----------------------------------------------------------------------------
(* One slot.                                                                *)

Occupied(o) == o.item # NothingEquipped /\ o.copies > 0

StoreInto(o, item, copies) ==
    IF item = o.item THEN [o EXCEPT !.copies = @ + copies]
    ELSE [o EXCEPT !.item = item, !.copies = copies, !.key = o.gen + 1, !.gen = o.gen + 1]

TakeOut(o) == [o EXCEPT !.item = NothingEquipped, !.copies = 0, !.key = NoKey]

\* The stack is left out when the key is not valid.
MakeSlotData(o) ==
    [id |-> o.id, key |-> o.key,
     item |-> IF o.key = NoKey THEN NothingEquipped ELSE o.item,
     copies |-> IF o.key = NoKey THEN 0 ELSE o.copies]

\* The generator is set to the key that was saved, and then gives the next one.
LoadSlotData(o, d, invalid) ==
    LET cleared == IF Occupied(o) THEN TakeOut(o) ELSE o
        placed  == [cleared EXCEPT !.gen = d.key]
    IN  IF d.key = NoKey THEN cleared
        ELSE IF d.item \in invalid \/ d.copies <= 0 THEN [placed EXCEPT !.key = NoKey]
        ELSE StoreInto(placed, d.item, d.copies)

-----------------------------------------------------------------------------
(* The manager.                                                             *)

\* Nothing looks for a slot of that ID.
AddSlot(m, id) ==
    LET o == Len(m.objects) + 1
    IN  [objects |-> Append(m.objects, NewSlot(id)), managed |-> Append(m.managed, o),
         heard |-> m.heard \cup {o}, replicated |-> m.replicated \cup {o}]

\* One slot after another, in order.
AddDefaultSlots(m) ==
    LET first == Len(m.objects)
        new   == first + 1 .. first + Len(DefaultIDs)
    IN  IF m.managed # <<>> THEN m
        ELSE [objects |-> m.objects \o [n \in DOMAIN DefaultIDs |-> NewSlot(DefaultIDs[n])],
              managed |-> [n \in DOMAIN DefaultIDs |-> first + n],
              heard |-> m.heard \cup new, replicated |-> m.replicated \cup new]

AddSubobjectsForReplication(m) ==
    [m EXCEPT !.replicated = @ \cup {m.managed[n] : n \in DOMAIN m.managed}]

FindSlot(m, id) ==
    LET found == {n \in DOMAIN m.managed : m.objects[m.managed[n]].id = id}
    IN  IF found = {} THEN 0
        ELSE m.managed[CHOOSE n \in found : \A k \in found : n <= k]

LoadOneSlot(m, d, invalid) ==
    LET with == IF FindSlot(m, d.id) = 0 THEN AddSlot(m, d.id) ELSE m
        o    == FindSlot(with, d.id)
    IN  [with EXCEPT !.objects[o] = LoadSlotData(with.objects[o], d, invalid)]

\* Mutated: the slots that are there stay.
WithoutSlotsKept(m) == m

\* The slots are let go of; the manager still hears and replicates them.
WithoutSlots(m) == [m EXCEPT !.managed = <<>>]

LoadedManager(invalid) ==
    LET perSlot == equipSave.perSlot
        after[n \in 0 .. Len(perSlot)] ==
            IF n = 0 THEN AddDefaultSlots(WithoutSlots(Manager))
            ELSE LoadOneSlot(after[n - 1], perSlot[n], invalid)
        loaded == after[Len(perSlot)]
    IN  IF replicating THEN AddSubobjectsForReplication(loaded) ELSE loaded

-----------------------------------------------------------------------------
(* The calls.                                                               *)

ManagerInit ==
    /\ objects = <<>> /\ managed = <<>> /\ heard = {} /\ replicated = {}
    /\ replicating = FALSE /\ equipSave = NoEquipSave

\* OnComponentCreated and InitializeComponent: either, or both, come first.
ComponentStarts ==
    /\ ManagerBecomes(AddDefaultSlots(Manager))
    /\ UNCHANGED <<replicating, equipSave>>

ReadyForReplication ==
    /\ ~replicating /\ replicating' = TRUE
    /\ ManagerBecomes(AddSubobjectsForReplication(Manager))
    /\ UNCHANGED equipSave

\* The game adds slots of IDs that are not there, once the component started.
GameAddsSlot(id) ==
    /\ managed # <<>> /\ FindSlot(Manager, id) = 0
    /\ ManagerBecomes(AddSlot(Manager, id))
    /\ UNCHANGED <<replicating, equipSave>>

Equip(n, item) ==
    LET o == objects[managed[n]]
    IN  /\ item = o.item \/ ~Occupied(o)
        /\ o.copies < MaxCopies /\ o.gen < MaxEquipKey
        /\ objects' = [objects EXCEPT ![managed[n]] = StoreInto(o, item, 1)]
        /\ UNCHANGED <<managed, heard, replicated, replicating, equipSave>>

Unequip(n) ==
    /\ Occupied(objects[managed[n]])
    /\ objects' = [objects EXCEPT ![managed[n]] = TakeOut(@)]
    /\ UNCHANGED <<managed, heard, replicated, replicating, equipSave>>

SaveSlots ==
    /\ equipSave' = [there |-> TRUE,
                     perSlot |-> [n \in DOMAIN managed |-> MakeSlotData(objects[managed[n]])]]
    /\ UNCHANGED <<objects, managed, heard, replicated, replicating>>

LoadSlots(invalid) ==
    /\ equipSave.there
    /\ ManagerBecomes(LoadedManager(invalid))
    /\ UNCHANGED <<replicating, equipSave>>

ManagerNext ==
    \/ ComponentStarts \/ ReadyForReplication
    \/ \E id \in SlotIDs : GameAddsSlot(id)
    \/ \E n \in DOMAIN managed : Unequip(n) \/ \E item \in Equipment : Equip(n, item)
    \/ SaveSlots
    \/ \E invalid \in SUBSET Equipment : LoadSlots(invalid)

ManagerSpec == ManagerInit /\ [][ManagerNext]_managerVars

-----------------------------------------------------------------------------
(* Properties.                                                              *)

\* After a load the manager has each slot that was saved, with what was in it
\* if the item passed validation, and nothing in any other slot, whatever was
\* added, put in or taken out since the save.
LoadRestoresSlots ==
    [][\A invalid \in SUBSET Equipment :
          LoadSlots(invalid) =>
              /\ \A n \in DOMAIN equipSave.perSlot :
                    LET d == equipSave.perSlot[n]
                        o == objects'[FindSlot(Manager', d.id)]
                    IN  IF d.item \in invalid \cup {NothingEquipped} THEN ~Occupied(o)
                        ELSE o.item = d.item /\ o.copies = d.copies /\ o.key # NoKey
              /\ \A k \in DOMAIN managed' :
                    Occupied(objects'[managed'[k]]) =>
                        \E n \in DOMAIN equipSave.perSlot :
                            equipSave.perSlot[n].id = objects'[managed'[k]].id]_managerVars
=============================================================================
