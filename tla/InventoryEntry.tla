--------------------------- MODULE InventoryEntry ---------------------------
(***************************************************************************)
(* One FInventoryEntry and the edits FInventoryEntry::FMutableAccess makes  *)
(* to it (InventoryDataStructs.cpp): the item, its stack limit, and the     *)
(* stacks, an array sorted by stack key.                                    *)
(*                                                                         *)
(* An entry is a record                                                     *)
(*   [item, limit, gen, stacks]                                             *)
(* where stacks maps each stack key to the copies of that stack and gen is  *)
(* the entry's own key generator.  The array order is the order of the      *)
(* keys, because every new stack takes a key above all the others.          *)
(*                                                                         *)
(* The loops of the code are written in closed form: what a loop that goes  *)
(* through the stacks in order does to one stack depends only on the sum    *)
(* over the stacks before it (or after it).                                 *)
(***************************************************************************)
EXTENDS Integers, FiniteSets

UnlimitedStack == -1
EntireStack == -1
KeyGenReset == 100

\* What UFaerieStackLimiterToken::GetItemStackLimit gives for an item.
Limits == {UnlimitedStack} \cup (Nat \ {0})

IsValidStackAmount(n) == n > 0 \/ n = UnlimitedStack

Lesser(a, b) == IF a <= b THEN a ELSE b
Clamp(n, lo, hi) == IF n < lo THEN lo ELSE IF n > hi THEN hi ELSE n

-----------------------------------------------------------------------------
(* Sums.  f[k] copies are f[k] units tagged with k, so a sum is a count of  *)
(* units (minus the units owed by the negative amounts); unlike a fold, it  *)
(* is something that can be reasoned about without induction.               *)

Units(f, S) == UNION {{k} \X (1..f[k]) : k \in S}

SumOver(f, S) ==
    Cardinality(Units(f, S)) - Cardinality(Units([k \in S |-> -f[k]], S))

StackSum(e) == SumOver(e.stacks, DOMAIN e.stacks)

\* FInventoryEntry::IsValid, for an entry that has an item.
IsValidEntry(e) ==
    /\ DOMAIN e.stacks # {}
    /\ IsValidStackAmount(e.limit)
    /\ \A k \in DOMAIN e.stacks : IsValidStackAmount(e.stacks[k])

-----------------------------------------------------------------------------
(* Creation: the copies are cut into stacks of at most limit copies.        *)

StacksNeeded(n, limit) ==
    IF limit = UnlimitedStack THEN 1 ELSE (n + limit - 1) \div limit

NewEntry(item, limit, copies) ==
    LET n == StacksNeeded(copies, limit)
    IN  [item   |-> item,
         limit  |-> limit,
         gen    |-> KeyGenReset + n,
         stacks |-> [k \in (KeyGenReset + 1)..(KeyGenReset + n) |->
                        IF limit = UnlimitedStack
                        THEN copies
                        ELSE Lesser(limit, copies - limit * (k - KeyGenReset - 1))]]

-----------------------------------------------------------------------------
(* Addition.                                                                *)

\* The lambda that makes a stack holds the amount as it was when the lambda
\* was made: the loop counts it down, but every stack is made with all of it.
AddToNewStacks(e, amount) ==
    LET made == (e.gen + 1)..(e.gen + StacksNeeded(amount, e.limit))
    IN  [item   |-> e.item,
         limit  |-> e.limit,
         gen    |-> e.gen + StacksNeeded(amount, e.limit),
         stacks |-> [k \in DOMAIN e.stacks \cup made |->
                        IF k \in made THEN amount ELSE e.stacks[k]]]

Room(e) ==
    [k \in DOMAIN e.stacks |->
        IF e.stacks[k] < e.limit THEN e.limit - e.stacks[k] ELSE 0]

RoomBefore(e, k) == SumOver(Room(e), {j \in DOMAIN e.stacks : j < k})

FirstStack(e) ==
    CHOOSE k \in DOMAIN e.stacks : \A j \in DOMAIN e.stacks : k <= j

Filled(e, amount) ==
    [e EXCEPT !.stacks = [k \in DOMAIN @ |->
        @[k] + Clamp(amount - RoomBefore(e, k), 0, Room(e)[k])]]

\* Mutated: what does not fit the stacks that are there is dropped.
AddToAnyStackDropRest(e, amount) == Filled(e, amount)

AddToAnyStack(e, amount) ==
    IF e.limit = UnlimitedStack /\ DOMAIN e.stacks # {}
    THEN [e EXCEPT !.stacks[FirstStack(e)] = @ + amount]
    ELSE LET rest == amount - SumOver(Room(e), DOMAIN e.stacks)
         IN  IF rest > 0
             THEN AddToNewStacks(Filled(e, amount), rest)
             ELSE Filled(e, amount)

-----------------------------------------------------------------------------
(* Removal.                                                                 *)

RemoveStack(e, k) ==
    [e EXCEPT !.stacks = [j \in DOMAIN @ \ {k} |-> @[j]]]

SetStack(e, k, copies) ==
    IF copies <= 0 THEN RemoveStack(e, k) ELSE [e EXCEPT !.stacks[k] = copies]

FromTail(e, k) == SumOver(e.stacks, {j \in DOMAIN e.stacks : j >= k})

\* The loop starts at the tail and goes on as long as it used up whole stacks
\* and something is left to remove.
ReachedFromTail(e, amount) ==
    {k \in DOMAIN e.stacks :
        \A j \in DOMAIN e.stacks : j > k => FromTail(e, j) < amount}

\* The stack the loop ends in, when it takes only part of that stack.
PartlyRemoved(e, amount) ==
    {k \in ReachedFromTail(e, amount) : FromTail(e, k) > amount}

RemoveFromAnyStack(e, amount) ==
    LET part == PartlyRemoved(e, amount)
        gone == ReachedFromTail(e, amount) \ part
    IN  [e EXCEPT !.stacks = [k \in DOMAIN @ \ gone |->
            IF k \in part THEN FromTail(e, k) - amount ELSE @[k]]]

-----------------------------------------------------------------------------
(* Edits.                                                                   *)

SplitStack(e, k, amount) ==
    [item   |-> e.item,
     limit  |-> e.limit,
     gen    |-> e.gen + 1,
     stacks |-> [j \in DOMAIN e.stacks \cup {e.gen + 1} |->
                    IF j = e.gen + 1 THEN amount
                    ELSE IF j = k THEN e.stacks[j] - amount
                    ELSE e.stacks[j]]]

IsOnlyStack(e, k) == DOMAIN e.stacks = {k}
=============================================================================
