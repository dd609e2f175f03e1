------------------------- MODULE MCFaerieItemStorage -------------------------
(* Values for the constants of FaerieItemStorage.                           *)
EXTENDS FaerieItemStorage

CONSTANTS chest, bag, ore, coin, sword

OneStorage == {chest}
TwoStorages == {chest, bag}

\* ore stacks to two, coins stack without limit, a sword is mutable.
OreAndSword == {ore, sword}
OreAndCoin == {ore, coin}
JustOre == {ore}
JustSword == {sword}
Swords == {sword}
Limit == [i \in Items |-> IF i = ore THEN 2 ELSE IF i = coin THEN UnlimitedStack ELSE 1]

TwoOres == [i \in Items |-> IF i = ore THEN 2 ELSE 1]
FourOres == [i \in Items |-> IF i = ore THEN 4 ELSE 1]
TwoEach == [i \in Items |-> 2]

NoAddress == {}
NoItem == {}
TwoAddresses == {<<101, 101>>, <<101, 102>>}
ThreeAddresses == TwoAddresses \cup {<<102, 101>>}

\* The batches of the last call take no part in the next one.
AllButLog == <<store, owner, loose, halted>>
=============================================================================
