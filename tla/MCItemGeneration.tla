------------------------- MODULE MCItemGeneration -------------------------
(* Generation and the payment of recipes and upgrades for TLC.  Two pools,   *)
(* one in the other, four configs, one for each procedure, an asset that     *)
(* never loads; and a storage of ore, a drill that is destroyed and a saw    *)
(* that is replaced when their uses are spent.  A request of one kind is     *)
(* made while there is none of the other: generation reads no storage.       *)
EXTENDS ItemGeneration, CraftingCosts, TLC

CONSTANTS ore, sword, ghost, common, chest, one, any, share, all
CONSTANTS drill, saw, scrap

Drop(a) == [asset |-> a, slots |-> {}]
Drops ==
  (common :> <<Drop(ore), Drop(sword)>>) @@ (chest :> <<Drop(common), Drop(ore)>>) @@
  (one :> <<Drop(ore), Drop(chest)>>) @@ (any :> <<Drop(sword), Drop(common)>>) @@
  (share :> <<Drop(ore), Drop(common)>>) @@ (all :> <<Drop(ghost), Drop(chest)>>)
Procedures == (one :> "OfOne") @@ (any :> "OfAny") @@ (share :> "Chunked") @@ (all :> "OfAll")
AmountsOf == (one :> {0, 2}) @@ (any :> {2}) @@ (share :> {2}) @@ (all :> {1})
Memories == {{}, {one}, {ore, sword} \cup Pools \cup Configs}

SomeDrivers == {<< >>, <<NoAsset>>, <<one, share>>} \cup { <<c>> : c \in Configs }
SomeSources == { Drop(NoAsset), Drop(ghost), [asset |-> chest, slots |-> {sword}], Drop(ore) }

(* A slot paid in copies, then one paid in uses; a slot that need not be     *)
(* filled; two slots that may be filled with the same stack.                 *)
Slot(name, amount, inUses, optional, accepts) ==
  [name |-> name, amount |-> amount, inUses |-> inUses, optional |-> optional, accepts |-> accepts]
Material == Slot("material", 2, FALSE, FALSE, {ore})
Extra == Slot("extra", 1, FALSE, TRUE, {ore})
ToolSlot == Slot("tool", 1, TRUE, FALSE, {drill, saw})
Request(cost, filled, consume) == [cost |-> cost, filled |-> filled, consume |-> consume]
CostRequests == {
  Request(<<Material, ToolSlot>>, ("material" :> ore) @@ ("tool" :> drill), TRUE),
  Request(<<Extra, ToolSlot>>, ("extra" :> ore) @@ ("tool" :> saw), TRUE),
  Request(<<Extra, ToolSlot>>, "tool" :> saw, TRUE),
  Request(<<ToolSlot, Material>>, ("material" :> ore) @@ ("tool" :> saw), TRUE),
  Request(<<Material>>, "material" :> ore, FALSE) }

MarkOf(m) == [kind |-> "mark", mark |-> m]
Unless(m, child) == [kind |-> "unmarked", mark |-> m, children |-> <<child>>]
TopMutators == { [kind |-> "all", children |-> <<MarkOf("sharp"), Unless("light", MarkOf("light"))>>],
              [kind |-> "first", children |-> <<Unless("sharp", MarkOf("sharp")), MarkOf("light")>>],
              [kind |-> "any", children |-> <<Unless("light", MarkOf("light"))>>] }
Upgrades == { [mutator |-> m, require |-> TRUE, release |-> m.kind = "first"] : m \in TopMutators }
              \cup { [mutator |-> m, require |-> FALSE, release |-> FALSE] : m \in { x \in TopMutators : x.kind = "first" } }
AllMutators == TopMutators \cup UNION { ChildrenOf(m) : m \in TopMutators }
               \cup {MarkOf("sharp"), MarkOf("light")}
Targets == {<<saw>>, <<saw, ore>>, <<ore>>}
LastUses == (drill :> "destroy") @@ (saw :> "replace")

GenerationAlone == stock = Fresh /\ job = NoJob /\ UNCHANGED costVars
CostsAlone == phase = "idle" /\ loaded = {} /\ UNCHANGED genVars

MCInit == GenInit /\ CostInit
MCNext ==
  \/ \E drivers \in DriverLists, expand, async \in BOOLEAN : GenerationAlone /\ Run(drivers, expand, async)
  \/ \E source \in Sources, async \in BOOLEAN : GenerationAlone /\ RunSingle(source, async)
  \/ GenerationAlone /\ ConfigsLoaded
  \/ GenerationAlone /\ DropsLoaded
  \/ GenerationAlone /\ SingleLoaded
  \/ \E r \in CostRequests, makes \in BOOLEAN : CostsAlone /\ Craft(r.cost, r.filled, r.consume, makes)
  \/ \E targets \in TargetLists, config \in UpgradeConfigs, r \in CostRequests :
       CostsAlone /\ Upgrade(targets, config, r.cost, r.filled, r.consume)
  \/ CostsAlone /\ Execute
  \/ CostsAlone /\ Meanwhile
MCSpec == MCInit /\ [][MCNext]_<<genVars, costVars>> /\ WF_genVars(LoadDone /\ UNCHANGED costVars)
=============================================================================
