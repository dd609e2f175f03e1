------------------------- MODULE MCEquipmentVisuals -------------------------
(* Visuals for TLC: a rifle with a slot for a lens, which has one for a      *)
(* lamp; a totem, shown by an actor, with a slot for a gem.  And pickups for *)
(* what is ejected from a container, and one pickup's stack and display;     *)
(* the extension groups of an inventory component and of two items with      *)
(* containers; and the hashes of two slots.  They meet nowhere, so one goes  *)
(* on while the others are at their starts.                                  *)
EXTENDS EquipmentVisuals, EjectionQueue, ItemPickups, ExtensionGroups, ContentHashes

CONSTANTS hand, scope, mount, socket, rifle, totem, lens, lamp, shard, gem
CONSTANTS coin, pelt, wand
CONSTANTS pack, chest, pouch, hero, squire, cloak, rag
CONSTANTS componentGroup, packGroup, chestToken, chestGroup, pouchToken, pouchGroup, nestedGroup
CONSTANTS limit, sorter, filter, events, limitClass, sorterClass, eventsClass
CONSTANTS long, tube, bone, plain, built, bag, crate, gone

For(purpose, m) == [purposes |-> {purpose}, mesh |-> m]
Meshes ==
  (long :> [dynamic |-> FALSE, skeletal |-> <<For("Equipped", bone)>>, static |-> <<For("Default", plain)>>]) @@
  (tube :> [dynamic |-> TRUE, skeletal |-> << >>, static |-> <<For("Equipped", built)>>])

OneChildEach ==
  [ i \in Items |-> CASE i = rifle -> <<scope>> [] i = lens -> <<mount>> [] i = totem -> <<socket>> [] OTHER -> << >> ]
FittingItems ==
  [ s \in Slots |-> CASE s = hand -> {rifle, totem} [] s = scope -> {lens} [] s = mount -> {lamp, shard} [] s = socket -> {gem} ] 
Tokens == [ i \in Items |-> CASE i = rifle -> long [] i = lens -> tube [] i = lamp -> long [] OTHER -> NoToken ]
Purposes == [ s \in Slots |-> IF s = mount THEN "Default" ELSE "Equipped" ]
NothingOrAll == {{}, Slots}
TwoKinds == {[kinds |-> {"Static", "Skeletal"}, mesh |-> plain]}

\* The gem has the default class, if there is one, the lens one that never loads, the lamp one
\* of its own.
ClassTokens == gem :> NoClass @@ lens :> gone @@ lamp :> crate

\* A group among the component's defaults; the chest's container has an extension of its own,
\* of the same class as the pack's.
OwnGroups == pack :> packGroup @@ chest :> chestGroup @@ pouch :> pouchGroup
TokenGroups == chest :> chestToken @@ pouch :> pouchToken
DefaultExtensions ==
  (componentGroup :> <<nestedGroup>>) @@ (nestedGroup :> <<limit>>) @@ (packGroup :> <<sorter>>) @@
  (chestGroup :> <<filter>>) @@ [ g \in {chestToken, pouchToken, pouchGroup} |-> <<>> ]
ExtensionClasses == limit :> limitClass @@ sorter :> sorterClass @@ filter :> sorterClass @@ events :> eventsClass

\* The cloak has an info token, the rag has none.
WornNames == cloak :> "cloak" @@ rag :> NoThing
WornTokens ==
  cloak :> <<[class |-> "fit", hash |-> "tight"], [class |-> "info", hash |-> "cloak"]>> @@
  rag :> <<[class |-> "fit", hash |-> "tight"]>>
Wearers == hand :> hero @@ mount :> hero @@ socket :> squire
ByName == [kind |-> "Tokens", classes |-> {"info"}]
NoClasses == [kind |-> "Tokens", classes |-> {}]
IsCloak == [kind |-> "BooleanFilter", pattern |-> {cloak}]
Either == [kind |-> "Or", rules |-> <<NoClasses, [kind |-> "And", rules |-> <<IsCloak, [kind |-> "IsValid"]>>]>>]
Selected ==
  [kind |-> "BooleanSelect", pattern |-> {rag}, yes |-> [kind |-> "Literal", value |-> <<"literal">>], no |-> ByName]
Config(any, rule, example) ==
  [slots |-> <<hand, mount>>, any |-> any, instruction |-> rule, example |-> example]
Outfits ==
  { <<Config(any, rule, example)>> :
      any \in BOOLEAN, rule \in {ByName, Either, Selected},
      example \in {<<cloak, rag>>, <<NoThing, rag>>, <<NoThing, NoThing>>} } \cup
  { <<Config(TRUE, Selected, <<NoThing, cloak>>), Config(FALSE, Either, <<NoThing, cloak>>)>> }

VisualsAtStart == Init
EjectionAtStart == ejected = << >> /\ inMemory = {} /\ hasOwner /\ default = NoClass
PickupAtStart == PickupInit
GroupsAtStart == GroupsInit /\ tree.parent[nestedGroup] = NoGroup
HashesAtStart == HashInit
MCInit ==
  /\ Init /\ PickupInit /\ HashInit /\ EjectionInit /\ GroupsInit
  /\ EjectionAtStart \/ GroupsAtStart
MCNext ==
  \/ /\ EjectionAtStart /\ PickupAtStart /\ GroupsAtStart /\ HashesAtStart
     /\ Next /\ UNCHANGED <<ejectionVars, pickupVars, groupVars, hashVars>>
  \/ /\ VisualsAtStart /\ PickupAtStart /\ GroupsAtStart /\ HashesAtStart
     /\ EjectionNext /\ UNCHANGED <<vars, pickupVars, groupVars, hashVars>>
  \/ /\ VisualsAtStart /\ EjectionAtStart /\ GroupsAtStart /\ HashesAtStart
     /\ PickupNext /\ UNCHANGED <<vars, ejectionVars, groupVars, hashVars>>
  \/ /\ VisualsAtStart /\ EjectionAtStart /\ PickupAtStart /\ HashesAtStart
     /\ GroupsNext /\ UNCHANGED <<vars, ejectionVars, pickupVars, hashVars>>
  \/ /\ VisualsAtStart /\ EjectionAtStart /\ PickupAtStart /\ GroupsAtStart
     /\ HashNext /\ UNCHANGED <<vars, ejectionVars, pickupVars, groupVars>>
MCVars == <<vars, ejectionVars, pickupVars, groupVars, hashVars>>
MCSpec ==
  /\ MCInit /\ [][MCNext]_MCVars
  /\ WF_ejectionVars(PostLoad /\ UNCHANGED <<vars, pickupVars, groupVars, hashVars>>)
=============================================================================
