---------------------------- MODULE MCTransfers ----------------------------
(* Two storages between which items move; one of them has a simple grid of  *)
(* two cells, which grows to three.                                         *)
EXTENDS SimpleGrid

CONSTANTS chest, bag, ore, sword

TwoStorages == {chest, bag}

\* Ore stacks to two, a sword is mutable.
OreAndSword == {ore, sword}
Swords == {sword}
Limit == [i \in Items |-> IF i = ore THEN 2 ELSE 1]
TwoOres == [i \in Items |-> IF i = ore THEN 2 ELSE 1]
NoAddress == {}

TwoCells == <<2, 1>>
ThreeCells == {<<3, 1>>}

\* The batches of the last call take no part in the next one.
AllButLog == <<store, owner, loose, halted, simpleGridVars>>
=============================================================================
