----------------------- MODULE MCContainerExtensions -----------------------
(* Values for checking ContainerExtensions: ore has a capacity token, any   *)
(* other item would have none; the capacity belongs to the shared group,    *)
(* the item limit is added and removed as the group's clients please.       *)
EXTENDS ContainerExtensions, TLC

CONSTANT ore

StackLimits == [ i \in Items |-> IF i = ore THEN 2 ELSE UnlimitedStack ]
Tokens == ore :> [weight |-> 2, volume |-> 3, efficiency |-> 5, large |-> FALSE]
AllChecks == {"Bounds", "Weight", "Volume"}
Small == Measure(4, 9)
Large == Measure(8, 9)
OnlySmall == {Small}
GroupDefaults == [ g \in Groups |-> IF g = Shared THEN {"capacity"} ELSE {} ]
=============================================================================
