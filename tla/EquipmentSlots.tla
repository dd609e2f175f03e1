---------------------------- MODULE EquipmentSlots ----------------------------
(***************************************************************************)
(* The equipment slots of a UFaerieEquipmentManager beside the storages:    *)
(* UFaerieItemStackContainer and UFaerieEquipmentSlot, the manager's        *)
(* TrySwapSlots, and the move requests of UFaerieInventoryClient, which     *)
(* take a stack out of a slot or a storage and put it into another.         *)
(*                                                                         *)
(* A slot is a record                                                       *)
(*   item, copies  ItemStack; NoItem with 0 copies is the empty stack       *)
(*   key           StoredKey, InvalidKey when the slot is empty             *)
(*   gen           KeyGen.PreviousKey                                       *)
(*                                                                         *)
(* A call goes through several containers in turn, so a call is a chain of  *)
(* operators on the world, the record of all that it can change.            *)
(***************************************************************************)
EXTENDS FaerieItemStorage

CONSTANTS
    Slots,       \* the slots of the manager
    SingleItems, \* the slots whose Config.SingleItemSlot is true
    Fits,        \* the items that match the template of each slot
    CanSwapSlots, \* the values of a move's CanSwapSlots
    Nothing,     \* no item
    MaxSlotKey   \* bound of the slots' key generators

ASSUME SlotsAssumption ==
    /\ Slots \cap Storages = {} /\ NoOwner \notin Slots
    /\ SingleItems \subseteq Slots
    /\ Fits \in [Slots -> SUBSET Items]
    /\ CanSwapSlots \subseteq BOOLEAN
    /\ Nothing \notin Items
    /\ MaxSlotKey \in Nat

VARIABLES
    slots,  \* the slots' records
    gone    \* the copies of each item that a call let go of and nobody has

allVars == <<vars, slots, gone>>

InvalidKey == -1

World ==
    [store |-> store, slots |-> slots, owner |-> owner, gone |-> gone,
     log |-> <<>>, halted |-> FALSE]

-----------------------------------------------------------------------------
(* One slot (UFaerieItemStackContainer).                                    *)

IsFilled(sl) == sl.item # Nothing /\ sl.copies > 0

\* CouldSetInSlot asks whatever is in the slot; CanSetInSlot asks about now.
CouldSetInSlot(s, i, n, verdict) ==
    /\ s \in SingleItems => n <= 1
    /\ verdict # "Disallowed"
    /\ i \in Fits[s]

CanSetInSlot(w, s, i, verdict) ==
    /\ IsFilled(w.slots[s]) => i = w.slots[s].item /\ s \notin SingleItems
    /\ verdict # "Disallowed"
    /\ i \in Fits[s]

\* Mutated: more may be taken than there is.
CanTakeAnyFromSlot(w, s, n, verdict) ==
    w.slots[s].item # Nothing /\ verdict # "Disallowed"

CanTakeFromSlot(w, s, n, verdict) ==
    /\ w.slots[s].item # Nothing /\ IsValidStackAmount(w.slots[s].copies)
    /\ n = EntireStack \/ n <= w.slots[s].copies
    /\ verdict # "Disallowed"

\* Mutated: an event tells all the slot held.
ToldAll(w, s, type, key, n) == Append(w.log, Batch(s, type, {Event(key, w.slots[s].copies, {})}))

Told(w, s, type, key, n) == Append(w.log, Batch(s, type, {Event(key, n, {})}))

\* Mutated: a new item keeps the key the slot gave last.
LastSlotKey(sl) == IF sl.gen = KeyGenReset THEN KeyGenReset + 1 ELSE sl.gen

NextSlotKey(sl) == sl.gen + 1

\* SetStoredItem_Impl.  An item that is in the slot and differs is written over.
\* The empty stack written over one ends in a call on a null item.
SetStoredItem(w, s, i, n) ==
    LET sl  == w.slots[s]
        key == IF i = sl.item THEN sl.key ELSE NextSlotKey(sl)
    IN  [store  |-> w.store,
         slots  |-> [w.slots EXCEPT ![s] =
                        IF i = sl.item THEN [sl EXCEPT !.copies = @ + n]
                        ELSE [item |-> i, copies |-> n, key |-> key, gen |-> key]],
         owner  |-> IF i = sl.item THEN w.owner ELSE TakeOwnership(w.owner, s, i),
         gone   |-> [j \in Items |->
                        w.gone[j] + IF j = sl.item /\ i # j THEN sl.copies ELSE 0],
         log    |-> Told(w, s, "Addition", key, n),
         halted |-> w.halted \/ (i = Nothing /\ sl.item # Nothing)]

\* Mutated: the key stays when the slot is emptied.
EmptySlotOfKey(sl) == [item |-> Nothing, copies |-> 0, key |-> sl.key, gen |-> sl.gen]

EmptySlot(sl) == [item |-> Nothing, copies |-> 0, key |-> InvalidKey, gen |-> sl.gen]

\* TakeItemFromSlot, once CanTakeFromSlot has let it pass.
TakeItem(w, s, n, tag) ==
    LET sl    == w.slots[s]
        taken == IF n = EntireStack THEN sl.copies ELSE n
        all   == taken = sl.copies
    IN  [store  |-> w.store,
         slots  |-> [w.slots EXCEPT ![s] =
                        IF all THEN EmptySlot(sl) ELSE [sl EXCEPT !.copies = @ - taken]],
         owner  |-> IF all THEN ReleaseOwnership(w.owner, {sl.item}) ELSE w.owner,
         gone   |-> w.gone,
         log    |-> Told(w, s, tag, sl.key, taken),
         halted |-> w.halted]

\* What a stack is to the code that holds it between two containers.
Stack(i, n) == [item |-> i, copies |-> n]
EmptyStack == Stack(Nothing, 0)
Lose(w, stack) ==
    [w EXCEPT !.gone = [j \in Items |-> w.gone[j] + IF j = stack.item THEN stack.copies ELSE 0]]

-----------------------------------------------------------------------------
(* The step that leaves world w behind.                                     *)

Becomes(w) ==
    /\ store' = w.store
    /\ slots' = w.slots
    /\ owner' = w.owner
    /\ gone' = w.gone
    /\ log' = w.log
    /\ halted' = w.halted
    /\ \A s \in Storages : WithinBounds(store'[s])
    /\ \A s \in Slots : slots'[s].gen <= MaxSlotKey

\* SetItemInSlot, Possess.
SetItemInSlot(s, i, n, verdict) ==
    /\ CanSetInSlot(World, s, i, verdict)
    /\ n <= loose[i]
    /\ Becomes(SetStoredItem(World, s, i, n))
    /\ loose' = [loose EXCEPT ![i] = @ - n]

\* TakeItemFromSlot, Release.
TakeItemFromSlot(s, n, tag, verdict) ==
    LET i == slots[s].item
    IN  /\ CanTakeFromSlot(World, s, n, verdict)
        /\ Becomes(TakeItem(World, s, n, tag))
        /\ loose' = [loose EXCEPT ![i] =
                        @ + IF n = EntireStack THEN slots[s].copies ELSE n]

\* TrySwapSlots: it asks whether the items could be set, but not whether they
\* can be taken; a take that is refused gives the empty stack.
Emptied(w, s, verdict) ==
    IF CanTakeFromSlot(w, s, EntireStack, verdict)
    THEN [world |-> TakeItem(w, s, EntireStack, "RemovalMoving"),
          stack |-> Stack(w.slots[s].item, w.slots[s].copies)]
    ELSE [world |-> w, stack |-> EmptyStack]

SwapAllowed(a, b, enterA, enterB) ==
    /\ IsFilled(slots[b]) => CouldSetInSlot(a, slots[b].item, slots[b].copies, enterA)
    /\ IsFilled(slots[a]) => CouldSetInSlot(b, slots[a].item, slots[a].copies, enterB)

Swapped(a, b, leaveA, leaveB) ==
    LET outA == Emptied(World, a, leaveA)
        outB == Emptied(outA.world, b, leaveB)
        inB  == SetStoredItem(outB.world, b, outA.stack.item, outA.stack.copies)
    IN  SetStoredItem(inB, a, outB.stack.item, outB.stack.copies)

TrySwapSlots(a, b, enterA, enterB, leaveA, leaveB) ==
    /\ SwapAllowed(a, b, enterA, enterB)
    /\ Becomes(Swapped(a, b, leaveA, leaveB))
    /\ UNCHANGED loose

-----------------------------------------------------------------------------
(* Move requests (UFaerieInventoryClient::Server_RequestMoveAction).  The   *)
(* source and the target of a move are handlers of a slot or of a storage;  *)
(* the answers of the extension groups are                                  *)
(*   enterTo, leaveTo      to the item entering and the one leaving target  *)
(*   enterFrom, leaveFrom  the same of the source                           *)
(*   back                  to the item that goes back to its source         *)

SlotHandler(s, canSwap) ==
    [place |-> s, entry |-> InvalidKey, stack |-> InvalidKey, amount |-> EntireStack,
     force |-> FALSE, canSwap |-> canSwap]
StackHandler(s, k, j, amount) ==
    [place |-> s, entry |-> k, stack |-> j, amount |-> amount,
     force |-> FALSE, canSwap |-> FALSE]
StorageHandler(s, forceNewStack) ==
    [place |-> s, entry |-> InvalidKey, stack |-> InvalidKey, amount |-> EntireStack,
     force |-> forceNewStack, canSwap |-> FALSE]

\* View of a source.
Viewed(h) ==
    IF h.place \in Slots THEN Stack(slots[h.place].item, slots[h.place].copies)
    ELSE Stack(store[h.place].entries[h.entry].item,
               StackRemovalAmount(store[h.place], h.entry, h.stack, h.amount))

CanMove(h, stack, verdict) ==
    IF h.place \in Slots THEN CouldSetInSlot(h.place, stack.item, stack.copies, verdict)
    ELSE CanAddStack(stack.copies, verdict)

\* The stack leaves the source; the storage has asked before, the slot has not.
CanRelease(h, verdict) ==
    IF h.place \in Slots THEN CanTakeFromSlot(World, h.place, EntireStack, verdict)
    ELSE CanRemove("RemovalMoving", verdict)

Released(h) ==
    IF h.place \in Slots THEN TakeItem(World, h.place, EntireStack, "RemovalMoving")
    ELSE LET st == store[h.place]
         IN  [store  |-> [store EXCEPT ![h.place] =
                             RemovedFromStack(st, h.entry, h.stack, h.amount)],
              slots  |-> slots,
              owner  |-> IF RemovesOnlyStack(st, h.entry, h.stack, h.amount)
                         THEN ReleaseOwnership(owner, {st.entries[h.entry].item}) ELSE owner,
              gone   |-> gone,
              log    |-> <<Batch(h.place, "RemovalMoving",
                              {StackRemovalEvent(st, h.entry, h.stack, h.amount)})>>,
              halted |-> FALSE]

\* Possess: a container that refuses the stack lets it go.
Possessed(w, h, stack, verdict) ==
    IF h.place \in Slots
    THEN IF CanSetInSlot(w, h.place, stack.item, verdict)
         THEN SetStoredItem(w, h.place, stack.item, stack.copies)
         ELSE Lose(w, stack)
    ELSE IF CanAddStack(stack.copies, verdict)
         THEN [store  |-> [w.store EXCEPT ![h.place] =
                              Added(@, stack.item, stack.copies, h.force)],
               slots  |-> w.slots,
               owner  |-> TakeOwnership(w.owner, h.place, stack.item),
               gone   |-> w.gone,
               log    |-> Append(w.log, Batch(h.place, "Addition",
                   {AdditionEvent(w.store[h.place], stack.item, stack.copies, h.force)})),
               halted |-> w.halted]
         ELSE Lose(w, stack)

IsSwap(to) == to.canSwap /\ IsFilled(slots[to.place])

Validated(from, to, enterTo, leaveFrom) ==
    /\ CanMove(to, Viewed(from), enterTo)
    /\ CanRelease(from, leaveFrom)

\* An extension that is asked twice within a move, by CanMove and by Possess,
\* gives one answer.
MoveInto(from, to, enterTo, leaveFrom) ==
    /\ Validated(from, to, enterTo, leaveFrom)
    /\ ~IsSwap(to)
    /\ Becomes(Possessed(Released(from), to, Viewed(from), enterTo))
    /\ UNCHANGED loose

\* The target's item is released next, if its slot lets it.
SwapValidated(from, to, enterTo, leaveFrom, enterFrom) ==
    /\ Validated(from, to, enterTo, leaveFrom)
    /\ IsSwap(to)
    /\ CanMove(from, Stack(slots[to.place].item, slots[to.place].copies), enterFrom)

MoveSwap(from, to, enterTo, leaveFrom, enterFrom, leaveTo) ==
    LET out == Emptied(Released(from), to.place, leaveTo)
    IN  /\ SwapValidated(from, to, enterTo, leaveFrom, enterFrom)
        /\ out.stack # EmptyStack
        /\ Becomes(Possessed(Possessed(out.world, from, out.stack, enterFrom),
                             to, Viewed(from), enterTo))
        /\ UNCHANGED loose

\* Mutated: a swap that fails forgets the stack it holds.
Forgotten(from, back) == Released(from)

\* A swap that fails gives its source back what it took.
PossessedAgain(from, back) == Possessed(Released(from), from, Viewed(from), back)

MoveSwapFails(from, to, enterTo, leaveFrom, enterFrom, leaveTo, back) ==
    /\ SwapValidated(from, to, enterTo, leaveFrom, enterFrom)
    /\ Emptied(Released(from), to.place, leaveTo).stack = EmptyStack
    /\ Becomes(PossessedAgain(from, back))
    /\ UNCHANGED loose

-----------------------------------------------------------------------------
SlotSources == {SlotHandler(s, FALSE) : s \in {t \in Slots : IsFilled(slots[t])}}

EntrySources(s, k) ==
    {StackHandler(s, k, j, n) : j \in DOMAIN store[s].entries[k].stacks, n \in Amounts}

Sources ==
    SlotSources
    \cup UNION {UNION {EntrySources(s, k) : k \in DOMAIN store[s].entries} : s \in Storages}

Targets ==
    {SlotHandler(s, canSwap) : s \in Slots, canSwap \in CanSwapSlots}
    \cup {StorageHandler(s, f) : s \in Storages, f \in BOOLEAN}

AllInit ==
    /\ Init
    /\ slots = [s \in Slots |-> [item |-> Nothing, copies |-> 0,
                                 key |-> InvalidKey, gen |-> KeyGenReset]]
    /\ gone = [i \in Items |-> 0]

SlotCall(s) ==
    \/ \E i \in Items, v \in Verdicts : \E n \in 1..loose[i] : SetItemInSlot(s, i, n, v)
    \/ \E n \in Amounts, tag \in RemovalTags, v \in Verdicts : TakeItemFromSlot(s, n, tag, v)

SwapCall(a, b) ==
    \E enterA, enterB, leaveA, leaveB \in Verdicts :
        TrySwapSlots(a, b, enterA, enterB, leaveA, leaveB)

MoveCall(from, to) ==
    \E enterTo, leaveFrom \in Verdicts :
        \/ MoveInto(from, to, enterTo, leaveFrom)
        \/ \E enterFrom, leaveTo \in Verdicts :
              \/ MoveSwap(from, to, enterTo, leaveFrom, enterFrom, leaveTo)
              \/ \E back \in Verdicts :
                    MoveSwapFails(from, to, enterTo, leaveFrom, enterFrom, leaveTo, back)

AllNext ==
    \/ Next /\ UNCHANGED <<slots, gone>>
    \/ /\ ~halted
       /\ \/ \E s \in Slots : SlotCall(s)
          \/ \E a, b \in Slots : SwapCall(a, b)
          \/ \E from \in Sources, to \in Targets : MoveCall(from, to)

AllSpec == AllInit /\ [][AllNext]_allVars

-----------------------------------------------------------------------------
(* Properties.                                                              *)

\* The type invariant of the slots: keys come from the slot's generator, an
\* item that is not a mutable one may come in several copies.
SlotsTypeOK ==
    /\ slots \in [Slots -> [item : Items \cup {Nothing}, copies : Nat,
                            key : {InvalidKey} \cup (KeyGenReset + 1)..MaxSlotKey,
                            gen : KeyGenReset..MaxSlotKey]]
    /\ owner \in [Mutables -> Storages \cup Slots \cup {NoOwner}]
    /\ \A i \in Items : loose[i] \in Nat /\ gone[i] \in Nat

\* StoredKey is valid just when something is in the slot: Contains, Release by
\* key and MakeSaveData look at the key alone, IsFilled at the stack.
KeyTellsFilled ==
    ~halted => \A s \in Slots : slots[s].key # InvalidKey <=> IsFilled(slots[s])

\* An item that can mutate is in one place, the owner its hook tells, unless the
\* copy is gone (TakeOwnership, ReleaseOwnership across slots and storages).
PlacesOf(i) == HeldBy(i) \cup {s \in Slots : slots[s].item = i}

HooksFollowItems ==
    \A i \in Mutables :
        gone[i] = 0 => PlacesOf(i) = IF owner[i] = NoOwner THEN {} ELSE {owner[i]}

\* Whatever swaps and moves do, refused or not, every copy is loose, stored, in
\* a slot, or was let go of: none is in two places (Possess: "either accept
\* ownership of the whole stack, or none").
InSlots(i) ==
    SumOver([s \in Slots |-> IF slots[s].item = i THEN slots[s].copies ELSE 0], Slots)
Everywhere(i) == InWorld(i) + InSlots(i) + gone[i]

EveryCopyIsSomewhere ==
    [][~Oversized => \A i \in Items : Everywhere(i)' = Everywhere(i)]_allVars

\* The addition and removal events of a slot account for what it holds, unless
\* an item was written over or the process is gone: extensions that count from
\* events stay right.
Change(s) ==
    LET batches == {n \in DOMAIN log' : log'[n].storage = s}
        amount == [n \in batches |-> LET d == CHOOSE e \in log'[n].data : TRUE
                                     IN  IF log'[n].type = "Addition" THEN d.amount ELSE -d.amount]
    IN  SumOver(amount, batches)

WrittenOver(s) ==
    /\ slots[s].item \notin {Nothing, slots'[s].item}
    /\ \A n \in DOMAIN log' : log'[n].storage = s => log'[n].type = "Addition"

EventsAccountForSlots ==
    [][\A s \in Slots :
          halted' \/ WrittenOver(s) \/ slots'[s].copies = slots[s].copies + Change(s)]_allVars

\* A slot's key stands for one item while it is there, and for nothing ever
\* after; nobody loads a save here (TKeyGen: "Guarantees unique keys").
SlotKeys == INSTANCE StableNames WITH
    Containers <- Slots,
    bound <- [s \in Slots |-> [k \in {slots[s].key} \ {InvalidKey} |-> slots[s].item]],
    spent <- [s \in Slots |-> (KeyGenReset + 1)..slots[s].gen]

SlotKeysAreStable == SlotKeys!Spec

\* An item is set only into a slot that is empty or holds it already ("This is
\* only going to happen if ItemStack.Item is currently nullptr").
SetsOnlyEmptySlots == [][\A s \in Slots : ~WrittenOver(s)]_allVars

\* A move that went through its validations does not lose what it took out of a
\* storage ("Finished validations, initiate move").
MovesLoseNothing ==
    [][\A i \in Items : InWorld(i)' < InWorld(i) => gone'[i] = gone[i]]_allVars
=============================================================================
