------------------------ MODULE InventoryEntryLoops ------------------------
(* The loops of FInventoryEntry's constructor and of its FMutableAccess     *)
(* (InventoryDataStructs.cpp), one iteration a step, on the array of stacks *)
(* they go through; each is shown to end and to leave the entry that the    *)
(* closed forms of InventoryEntry give.                                     *)
EXTENDS InventoryEntry, Sequences

Seqs == INSTANCE SequencesExt

CONSTANTS
    SomeLimits, \* the stack limits
    Copies,     \* the copies in the stacks of the entries the loops start from
    Sizes,      \* how many stacks those entries have
    Requests    \* the amounts added and removed

ASSUME LoopsAssumption ==
    /\ SomeLimits \subseteq Limits
    /\ Copies \subseteq Int /\ Sizes \subseteq Nat
    /\ Requests \subseteq Nat \ {0}

VARIABLES
    call,     \* the call: its name, the limit, the stacks it began with
    stacks,   \* Handle.Stacks
    gen,      \* Handle.KeyGen.PreviousKey
    amount,   \* the parameter Amount, which the loops count down
    captured, \* the Amount the lambda AddStack holds
    index,    \* where the loop over the stacks is
    touched,  \* the stack keys of the out parameter
    at        \* the loop the call is in

vars == <<call, stacks, gen, amount, captured, index, touched, at>>

Loops == {"construct", "fill", "make", "take"}

Stack(k, n) == [key |-> k, copies |-> n]

\* An entry's stacks in key order, some keys gone.
Arrays == UNION {[1..n -> Copies] : n \in Sizes}
Keyed(a, gap) == [i \in DOMAIN a |-> Stack(KeyGenReset + i + (IF i > 1 THEN gap ELSE 0), a[i])]

Init ==
    /\ \E loop \in Loops, limit \in SomeLimits, n \in Requests, a \in Arrays, gap \in 0..1 :
          /\ loop = "construct" => a = <<>>
          /\ stacks = Keyed(a, gap)
          /\ gen = KeyGenReset + (IF a = <<>> THEN 0 ELSE Len(a) + gap)
          /\ call = [loop |-> loop, limit |-> limit, amount |-> n,
                     stacks |-> stacks, gen |-> gen]
          /\ amount = n
          /\ captured = n
          /\ index = (IF loop = "take" THEN Len(a) ELSE 1)
          /\ at = loop
    /\ touched = {}

Unlimited == call.limit = UnlimitedStack

NewStack(n) ==
    /\ gen' = gen + 1
    /\ stacks' = Append(stacks, Stack(gen + 1, n))
    /\ touched' = touched \cup {gen + 1}

\* The constructor: stacks of at most the limit.
ConstructStack ==
    /\ at = "construct"
    /\ IF Unlimited
       THEN NewStack(amount) /\ at' = "done" /\ UNCHANGED amount
       ELSE IF amount > 0
       THEN /\ NewStack(Lesser(amount, call.limit))
            /\ amount' = amount - Lesser(amount, call.limit)
            /\ UNCHANGED at
       ELSE at' = "done" /\ UNCHANGED <<gen, stacks, touched, amount>>
    /\ UNCHANGED <<call, captured, index>>

\* AddToAnyStack: fill the stacks there are, then go on to AddToNewStacks,
\* whose lambda captures what is left by then.
FillStack ==
    /\ at = "fill" /\ index <= Len(stacks)
    /\ LET space == IF Unlimited THEN amount
                    ELSE IF stacks[index].copies < call.limit
                    THEN call.limit - stacks[index].copies ELSE 0
           adding == Lesser(amount, space)
       IN  /\ stacks' = [stacks EXCEPT ![index].copies = @ + adding]
           /\ amount' = amount - adding
           /\ at' = IF amount' <= 0 THEN "done" ELSE at
    /\ index' = index + 1
    /\ UNCHANGED <<call, gen, captured, touched>>

FillEnds ==
    /\ at = "fill" /\ index > Len(stacks)
    /\ at' = "make"
    /\ captured' = amount
    /\ UNCHANGED <<call, stacks, gen, amount, index, touched>>

\* AddToNewStacks.
MakeStack ==
    /\ at = "make"
    /\ IF Unlimited
       THEN NewStack(captured) /\ at' = "done" /\ UNCHANGED amount
       ELSE IF amount > 0
       THEN /\ NewStack(captured)
            /\ amount' = amount - Lesser(amount, call.limit)
            /\ UNCHANGED at
       ELSE at' = "done" /\ UNCHANGED <<gen, stacks, touched, amount>>
    /\ UNCHANGED <<call, captured, index>>

\* Mutated: a stack with just the copies that are left to remove is emptied.
TakeStackEmptied ==
    /\ at = "take" /\ index >= 1
    /\ LET s == stacks[index]
       IN  /\ touched' = touched \cup {s.key}
           /\ IF amount > s.copies
              THEN /\ stacks' = Seqs!RemoveAt(stacks, index)
                   /\ amount' = amount - s.copies
                   /\ at' = IF amount' <= 0 THEN "done" ELSE at
              ELSE /\ stacks' = [stacks EXCEPT ![index].copies = @ - amount]
                   /\ at' = "done"
                   /\ UNCHANGED amount
    /\ index' = index - 1
    /\ UNCHANGED <<call, gen, captured>>

\* RemoveFromAnyStack: from the tail, whole stacks and then part of one.
TakeStack ==
    /\ at = "take" /\ index >= 1
    /\ LET s == stacks[index]
       IN  /\ touched' = touched \cup {s.key}
           /\ IF amount >= s.copies
              THEN /\ stacks' = Seqs!RemoveAt(stacks, index)
                   /\ amount' = amount - s.copies
                   /\ at' = IF amount' <= 0 THEN "done" ELSE at
              ELSE /\ stacks' = [stacks EXCEPT ![index].copies = @ - amount]
                   /\ at' = "done"
                   /\ UNCHANGED amount
    /\ index' = index - 1
    /\ UNCHANGED <<call, gen, captured>>

TakeEnds ==
    /\ at = "take" /\ index < 1
    /\ at' = "done"
    /\ UNCHANGED <<call, stacks, gen, amount, captured, index, touched>>

Done == at = "done" /\ UNCHANGED vars

Next == ConstructStack \/ FillStack \/ FillEnds \/ MakeStack \/ TakeStack \/ TakeEnds \/ Done

\* The calls run to completion on the thread that makes them.
Spec == Init /\ [][Next]_vars /\ WF_vars(Next)

-----------------------------------------------------------------------------
AsEntry(array, g) ==
    [item   |-> "item",
     limit  |-> call.limit,
     gen    |-> g,
     stacks |-> [k \in {array[i].key : i \in DOMAIN array} |->
                    (CHOOSE s \in {array[i] : i \in DOMAIN array} : s.key = k).copies]]

Before == AsEntry(call.stacks, call.gen)
After == AsEntry(stacks, gen)

\* Once a loop is done the entry is what the closed form says, and the out
\* parameter names the stacks that were made, or those the removal reached.
LoopsGiveClosedForms ==
    at = "done" =>
        /\ After = CASE call.loop = "construct" -> NewEntry("item", call.limit, call.amount)
                     [] call.loop = "fill"      -> AddToAnyStack(Before, call.amount)
                     [] call.loop = "make"      -> AddToNewStacks(Before, call.amount)
                     [] call.loop = "take"      -> RemoveFromAnyStack(Before, call.amount)
        /\ touched = IF call.loop = "take" THEN ReachedFromTail(Before, call.amount)
                     ELSE DOMAIN After.stacks \ DOMAIN Before.stacks
=============================================================================
