----------------------- MODULE MCInventoryEntryLoops -----------------------
(* Values for the constants of InventoryEntryLoops: entries of up to three  *)
(* stacks, some over the limit (the additions leave such stacks) or         *)
(* negative (odd splits do); and of EntryReplication, ItemFilters and       *)
(* FilterIterators, whose behaviours this run checks beside the loops, all  *)
(* but one of them at their start.                                          *)
EXTENDS InventoryEntryLoops, EntryReplication, ItemFilters, FilterIterators, TLC

FourLimits == {UnlimitedStack, 1, 2, 3}
SomeCopies == {-1, 1, 2, 4}
SomeSizes == 0..3
SomeRequests == 1..5

OneStackOrTwo == {{1}, {1, 2}}
SecondStacks == {<<1, 2>>}

-----------------------------------------------------------------------------
(* Rules: every simple one, each of them below a rule that combines, and     *)
(* some combined twice.  Charges are uses; info and charges are tokens.     *)
TokenAncestors == "info" :> {"info"} @@ "uses" :> {"uses"} @@ "charges" :> {"uses", "charges"}
MutableTokens == {"uses", "charges"}
ItemTags == "ore" :> {"ore", "thing"} @@ "thing" :> {"thing"} @@ "red" :> {"red"}

SimpleRules ==
    {[kind |-> "Literal"], [kind |-> "MatchTemplate", pattern |-> NoRule]}
    \cup [kind : {"Mutability"}, mutable : BOOLEAN]
    \cup [kind : {"HasTokens"}, classes : {{"info"}, {"uses"}, {"info", "charges"}}, references : BOOLEAN]
    \cup [kind : {"Copies"}, op : CompareOperators, amount : {1, 2}]
    \cup [kind : {"StackLimit"}, op : LimitOperators, amount : {1, 2}]
    \cup [kind : {"TagAny", "TagAll"}, tags : {{"thing"}, {"thing", "red"}}]
FewRules == [kind : {"Mutability"}, mutable : {TRUE}] \cup
            [kind : {"HasTokens"}, classes : {{"uses"}}, references : BOOLEAN]
MoreRules ==
    [kind : {"Copies", "StackLimit"}, op : {"Greater"}, amount : {1}]
    \cup [kind : {"Or", "And"}, rules : [1..2 -> FewRules]]
    \cup [kind : {"Not"}, rule : FewRules] \cup [kind : {"MatchTemplate"}, pattern : FewRules \cup {NoRule}]
Combined(rules) ==
    [kind : {"Or", "And"}, rules : {<<>>} \cup [{1} -> rules] \cup [{1, 2} -> rules]]
    \cup [kind : {"Not"}, rule : rules]
    \cup [kind : {"MatchTemplate"}, pattern : rules]
    \cup [kind : {"Condition"}, condition : FewRules \cup {NoRule}, then : rules \cup {NoRule}, otherwise : BOOLEAN]
    \cup [kind : {"Ternary"}, condition : FewRules, then : rules, otherwise : FewRules \cup {NoRule}]
FilterRules == SimpleRules \cup FewRules \cup MoreRules \cup Combined(FewRules) \cup Combined(MoreRules)

FilterItems ==
    [tokens : {<<>>, <<"info">>, <<"info", "charges">>}, instance : BOOLEAN, always : {FALSE},
     limit : {NoLimit, 2}, tags : {{}, {"ore"}}, references : {{}, {"uses"}}]
\* A mutable item has one copy.
FilterViews == { v \in [item : FilterItems, copies : 1..2] : CanMutate(v.item) => v.copies = 1 }
AnItem(tokens) == [tokens |-> tokens, instance |-> TRUE, always |-> FALSE, limit |-> 2,
                   tags |-> {"ore", "red"}, references |-> {}]
FilterBatches ==
    [1..2 -> {[item |-> AnItem(<<"charges">>), copies |-> 1], [item |-> AnItem(<<"info">>), copies |-> 2]}]

\* Elements: a token of each class, one of them another item's, and one that is
\* gone; items have a class by which a predicate finds them.
AnElement(class, mutable, outer, tags) ==
    [class |-> class, mutable |-> mutable, outer |-> outer, tags |-> tags]
Info == AnElement("info", FALSE, "other", {"primary"})
Uses == AnElement("uses", TRUE, "item", {"primary", "use"})
Charges == AnElement("charges", TRUE, "item", {"use"})
WalkedLists ==
    { [of |-> "tokens", elements |-> e] :
        e \in {<<>>} \cup { t \in [1..3 -> {Info, Uses, Charges, Invalid}] : t[1] # t[3] \/ t[2] = Invalid } }
    \cup { [of |-> "items", elements |-> e] : e \in {<<>>} \cup [1..3 -> {Info, Charges}] }
WalkPredicates ==
    {[test |-> "Tags", tags |-> {"primary", "use"}, all |-> FALSE],
     [test |-> "Owned", item |-> "item"], [test |-> "AnyClass", classes |-> {"info", "charges"}]}

-----------------------------------------------------------------------------
\* While another part goes on, the loops wait at one call that does nothing yet.
\* One question is put to a filter: its answer does not depend on earlier ones.
LoopsAtStart ==
    /\ call = [loop |-> "construct", limit |-> 1, amount |-> 1,
               stacks |-> <<>>, gen |-> KeyGenReset]
    /\ stacks = <<>> /\ touched = {}
ReplicationAtStart == arrayKey = 0 /\ (\A a \in Proxied : proxies[a] = "absent")
FiltersAtStart == asked.rule = NoRule
WalkWaits == list = [of |-> "tokens", elements |-> <<>>]
WalkAtStart == WalkWaits /\ cursor = 0 /\ calls = <<>>

MCInit ==
    /\ ReplicationInit /\ FilterInit
    /\ \/ Init /\ WalkInit /\ WalkWaits
       \/ Init /\ LoopsAtStart /\ WalkInit
MCNext ==
    \/ ReplicationAtStart /\ FiltersAtStart /\ WalkAtStart
          /\ Next /\ UNCHANGED <<replicationVars, filterVars, walkVars>>
    \/ LoopsAtStart /\ FiltersAtStart /\ WalkAtStart
          /\ ReplicationNext /\ UNCHANGED <<vars, filterVars, walkVars>>
    \/ LoopsAtStart /\ ReplicationAtStart /\ WalkAtStart /\ FiltersAtStart
          /\ FilterNext /\ UNCHANGED <<vars, replicationVars, walkVars>>
    \/ LoopsAtStart /\ ReplicationAtStart /\ FiltersAtStart
          /\ WalkNext /\ UNCHANGED <<vars, replicationVars, filterVars>>
MCSpec == MCInit /\ [][MCNext]_<<vars, replicationVars, filterVars, walkVars>>
=============================================================================
