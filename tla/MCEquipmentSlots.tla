--------------------------- MODULE MCEquipmentSlots ---------------------------
(* Values for the constants of EquipmentSlots: a storage and two slots, of   *)
(* which the hand takes single items only.                                   *)
EXTENDS EquipmentSlots, StorageWidget, EquipmentManager

CONSTANTS chest, hand, belt, ore, sword, mutable, byKind, head, back

OneStorage == {chest}
TwoSlots == {hand, belt}
HandOnly == {hand}
OreAndSword == {ore, sword}
Swords == {sword}
Limit == [i \in Items |-> IF i = ore THEN 2 ELSE 1]
TwoOres == [i \in Items |-> IF i = ore THEN 2 ELSE 1]
AllFit == [s \in Slots |-> Items]
NoAddress == {}

OneFilter == {mutable}
OneSort == {byKind}
PassesMutables == [f \in Filters |-> Mutables]
RankKinds == [c \in Sorts |-> [i \in Items |-> IF i = ore THEN 2 ELSE 1]]

FilterBy(f, object, inverted) ==
    [PlainQuery EXCEPT !.filter = f, !.filterObject = object, !.invertFilter = inverted]
SortBy(c, object, inverted) ==
    [PlainQuery EXCEPT !.sort = c, !.sortObject = object, !.invertSort = inverted]

SomeQueries ==
    {PlainQuery, FilterBy(mutable, mutable, FALSE), FilterBy(mutable, mutable, TRUE),
     SortBy(byKind, Nobody, FALSE), SortBy(byKind, Nobody, TRUE)}

OneDefault == <<head>>

\* The slots with their storage, the widget with the same storage, and the
\* manager are checked one at a time: two of the three have not started.
FreshSlots ==
    [s \in Slots |-> [item |-> Nothing, copies |-> 0, key |-> InvalidKey, gen |-> KeyGenReset]]
NoSlotUsed == slots = FreshSlots /\ gone = [i \in Items |-> 0] /\ UNCHANGED <<slots, gone>>
NoWidget ==
    /\ query = PlainQuery /\ itemStorage = Nobody /\ ~constructed /\ ~needsNewQuery
    /\ UNCHANGED widgetVars
NoManager == managed = <<>> /\ ~replicating /\ ~equipSave.there /\ UNCHANGED managerVars
NoStorage ==
    store = [c \in Storages |-> EmptyStorage] /\ slots = FreshSlots /\ UNCHANGED allVars

MCInit == AllInit /\ WidgetInit /\ ManagerInit
MCNext ==
    \/ NoWidget /\ NoManager /\ AllNext
    \/ NoSlotUsed /\ NoManager /\ WidgetNext
    \/ NoStorage /\ NoWidget /\ ManagerNext
MCSpec == MCInit /\ [][MCNext]_<<allVars, widgetVars, managerVars>>

\* The batches of the last call take no part in the next one, and the list is
\* not read while a query is due: the tick replaces it.
AllButLog ==
    <<store, owner, loose, halted, slots, gone, query, itemStorage, constructed,
      listening, needsNewQuery, broken, managerVars, IF needsNewQuery THEN <<>> ELSE listed>>
=============================================================================
