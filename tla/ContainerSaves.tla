--------------------------- MODULE ContainerSaves ---------------------------
(***************************************************************************)
(* Data that extensions keep about the stacks of a container                *)
(* (UInventoryReplicatedDataExtensionBase: metadata and user data), and the *)
(* saving and loading of a container with it.  Root is a storage; a mutable *)
(* item in it, the Box, has a storage of its own, the Chest, whose          *)
(* extension group has Root's as an ancestor while the Box is owned by      *)
(* Root.  Each entry has one stack here, so a key is an address.            *)
(***************************************************************************)
EXTENDS Integers, SequencesExt

CONSTANTS
  Root, Chest,
  Items, Box, NoItem,   \* immutable items, the item with the chest, none
  Metadata,             \* the extension Root starts with
  ChestData,            \* the one the chest has
  Later,                \* one that is added to Root and removed (user data)
  Identifier,           \* of each extension: the GUID its data is saved under
  Tags, Reasons,
  Denies,               \* of each tag: the reasons for removal it denies
  MaxKey,               \* of each container: bound on keys
  MaxEdits              \* bound on edits of data

ASSUME ContainerSavesAssumption ==
  /\ Root # Chest /\ Metadata # ChestData /\ Metadata # Later /\ ChestData # Later
  /\ \A x, y \in {Metadata, ChestData, Later} : Identifier[x] = Identifier[y] => x = y

VARIABLES
  edits,     \* the number of edits, for the bound
  entries,   \* of each container: its items by key
  gen,       \* its key generator
  dynamic,   \* DynamicExtensions of Root's group
  ready,     \* containers that are registered with their group
  parented,  \* the chest's group has Root's as an ancestor
  data,      \* PerContainerData: by container and extension, then by key
  unclaimed, \* UnclaimedExtensionData, shared by the containers that hold it
  holders,   \* those containers
  saved,     \* the last save
  astray     \* history: data was made for an address without a stack, or saved
             \* under the name of an extension of another container

contentVars == <<entries, gen>>
groupVars == <<dynamic, ready, parented>>
saveVars == <<unclaimed, holders, saved>>
vars == <<contentVars, groupVars, data, saveVars, astray, edits>>

Containers == {Root, Chest}
KeyGenReset == 100
Empty == << >>
Without(f, S) == [ k \in DOMAIN f \ S |-> f[k] ]
Merged(f, g) == [ k \in DOMAIN f \cup DOMAIN g |-> IF k \in DOMAIN g THEN g[k] ELSE f[k] ]
Single(k, v) == [ j \in {k} |-> v ]

(* What is kept about a stack: its tags, and (history) the item it was      *)
(* made for.                                                                *)
Value(tags, item) == [tags |-> tags, item |-> item]
ItemAt(c, k) == IF k \in DOMAIN entries[c] THEN entries[c][k] ELSE NoItem

RootGroup == <<Metadata>> \o dynamic
OwnGroup(c) == IF c = Root THEN RootGroup ELSE <<ChestData>>

(* The recursive iterator over a container's group: its own extensions,     *)
(* then those of the ancestors.                                             *)
RecursiveExtensions(c, adopted) ==
  OwnGroup(c) \o (IF c = Chest /\ adopted THEN RootGroup ELSE << >>)
Wrapped(c, xs) == { <<c, x>> : x \in ToSet(xs) }

ChestInRoot(content) == \E k \in DOMAIN content : content[k] = Box

-----------------------------------------------------------------------------
(* Registration makes an empty array for each extension that is reached,    *)
(* and its end drops the arrays.                                            *)

Fresh(d, pairs) == Merged([ p \in pairs |-> Empty ], d)

(* Root belongs to an actor that keeps a list of sub-objects, so taking     *)
(* ownership of the Box registers the chest and gives its group a parent;   *)
(* releasing it undoes both.                                                *)
TakeOwnership(d) == Fresh(d, Wrapped(Chest, RecursiveExtensions(Chest, TRUE)))
ReleaseOwnership(d) == Without(d, Wrapped(Chest, RecursiveExtensions(Chest, TRUE)))

InitializeNetObject ==
  /\ Root \notin ready
  /\ ready' = ready \cup {Root}
  /\ data' = Fresh(data, Wrapped(Root, RootGroup))
  /\ UNCHANGED <<contentVars, dynamic, parented, saveVars, astray, edits>>

DeinitializeNetObject ==
  /\ Root \in ready
  /\ ready' = ready \ {Root}
  /\ data' = Without(data, Wrapped(Root, RootGroup))
  /\ UNCHANGED <<contentVars, dynamic, parented, saveVars, astray, edits>>

-----------------------------------------------------------------------------
(* Content.                                                                 *)

AddItemStack(c, item) ==
  /\ gen[c] < KeyGenReset + MaxKey[c]
  /\ item = Box => c = Root /\ ~ChestInRoot(entries[Root])
  /\ entries' = [entries EXCEPT ![c] = Merged(@, Single(gen[c] + 1, item))]
  /\ gen' = [gen EXCEPT ![c] = @ + 1]
  /\ ready' = IF item = Box THEN ready \cup {Chest} ELSE ready
  /\ parented' = (parented \/ item = Box)
  /\ data' = IF item = Box THEN TakeOwnership(data) ELSE data
  /\ UNCHANGED <<dynamic, saveVars, astray, edits>>

(* UInventoryMetadataExtension::AllowsRemoval.                              *)
Denied(c, k, reason) ==
  \E x \in {Metadata} \cap ToSet(RecursiveExtensions(c, parented)) :
    /\ <<c, x>> \in DOMAIN data /\ k \in DOMAIN data[<<c, x>>]
    /\ \E t \in data[<<c, x>>][k].tags : reason \in Denies[t]

(* Mutated: the data of a stack outlives it.                                *)
PostRemovalKept(d, c, keys) == d

(* PostEventBatch of removals: what is kept about the stacks that are gone  *)
(* goes with them.                                                          *)
PostRemoval(d, c, keys) ==
  [ p \in DOMAIN d |-> IF p[1] = c /\ p[2] \in ToSet(RecursiveExtensions(c, parented))
                       THEN Without(d[p], keys) ELSE d[p] ]

RemoveStack(c, k, reason) ==
  /\ k \in DOMAIN entries[c]
  /\ ~Denied(c, k, reason)
  /\ entries' = [entries EXCEPT ![c] = Without(@, {k})]
  /\ LET d == PostRemoval(data, c, {k})
     IN  IF entries[c][k] = Box
         THEN /\ data' = ReleaseOwnership(d)
              /\ ready' = ready \ {Chest}
              /\ parented' = FALSE
         ELSE data' = d /\ UNCHANGED <<ready, parented>>
  /\ UNCHANGED <<gen, dynamic, saveVars, astray, edits>>

-----------------------------------------------------------------------------
(* Edits of what is kept.                                                   *)

TagsOf(p, k) == IF k \in DOMAIN data[p] THEN data[p][k].tags ELSE {}

(* EditDataForHandle: changes the value of an address or makes one; nothing *)
(* asks whether the container has a stack there.                            *)
EditDataForHandle(p, k, tags) ==
  /\ edits < MaxEdits /\ edits' = edits + 1
  /\ data' = [data EXCEPT ![p] = Merged(@, Single(k,
                 IF k \in DOMAIN @ THEN Value(tags, @[k].item) ELSE Value(tags, ItemAt(p[1], k))))]
  /\ astray' = (astray \/ k \notin DOMAIN entries[p[1]])
  /\ UNCHANGED <<contentVars, groupVars, saveVars>>

MarkStackWithTag(p, k, tag) ==
  /\ tag \notin TagsOf(p, k)
  /\ EditDataForHandle(p, k, TagsOf(p, k) \cup {tag})

ClearTagFromStack(p, k, tag) ==
  /\ tag \in TagsOf(p, k)
  /\ EditDataForHandle(p, k, TagsOf(p, k) \ {tag})

TrySetTags(p, k, tags) == EditDataForHandle(p, k, TagsOf(p, k) \cup tags)

-----------------------------------------------------------------------------
(* Saving.                                                                  *)

(* ExtractSaveData of one container: an identifier that has been met before *)
(* ends it, whatever extensions are left.                                   *)
HasData(c, x) == <<c, x>> \in DOMAIN data
Met(ravelled, c, xs, k) ==
  \/ Identifier[xs[k]] \in DOMAIN ravelled
  \/ \E j \in 1 .. k - 1 : HasData(c, xs[j]) /\ Identifier[xs[j]] = Identifier[xs[k]]

Extracted(ravelled, c) ==
  LET xs == RecursiveExtensions(c, parented)
      read == { xs[k] : k \in { n \in DOMAIN xs :
                  HasData(c, xs[n]) /\ \A j \in 1 .. n : ~Met(ravelled, c, xs, j) } }
  IN  Merged(ravelled, [ i \in { Identifier[x] : x \in read } |->
                           data[<<c, CHOOSE x \in read : Identifier[x] = i>>] ])

RavelExtensionData ==
  LET own == Extracted(Empty, Root)
  IN  IF ChestInRoot(entries[Root]) THEN Extracted(own, Chest) ELSE own

NoSave == [there |-> FALSE]
MakeSaveData ==
  /\ saved' = [ there |-> TRUE, entries |-> entries, gen |-> gen, data |-> RavelExtensionData,
                was |-> [ x \in { y \in ToSet(RootGroup) : <<Root, y>> \in DOMAIN data } |->
                            data[<<Root, x>>] ] ]
  /\ astray' = (astray \/ \E x \in ToSet(RootGroup) :
                              <<Root, x>> \notin DOMAIN data /\ Identifier[x] \in DOMAIN RavelExtensionData)
  /\ UNCHANGED <<contentVars, groupVars, data, unclaimed, holders, edits>>

(* TryApplyUnclaimedSaveData, of one extension after another: the first of   *)
(* an identifier drops the data, and has it if it has an array for the       *)
(* container.                                                               *)
UnravelExtensionData(acc, c, xs) ==
  LET claiming == { xs[k] : k \in { n \in DOMAIN xs :
                      /\ Identifier[xs[n]] \in DOMAIN acc.unclaimed
                      /\ \A j \in 1 .. n - 1 : Identifier[xs[j]] # Identifier[xs[n]] } }
  IN  [ unclaimed |-> Without(acc.unclaimed, { Identifier[x] : x \in claiming }),
        data |-> [ p \in DOMAIN acc.data |->
                     IF p[1] = c /\ p[2] \in claiming THEN acc.unclaimed[Identifier[p[2]]] ELSE acc.data[p] ] ]

LastKey(content) ==
  IF DOMAIN content = {} THEN KeyGenReset ELSE CHOOSE k \in DOMAIN content : \A j \in DOMAIN content : j <= k

(* LoadSaveData, when Clear is not denied an entry, for moving whatever the *)
(* reason it was called with (it would stop the program).  Items that do    *)
(* not pass validation are left out; ownership of the others is not taken,  *)
(* so a chest comes without registration.                                   *)
ClearedRoot == LET d == PostRemoval(data, Root, DOMAIN entries[Root])
               IN  IF ChestInRoot(entries[Root]) THEN ReleaseOwnership(d) ELSE d

(* Mutated: the extensions are registered again after the data is unravelled. *)
UnravelledEarly(kept) ==
  LET acc == [data |-> Without(ClearedRoot, Wrapped(Root, RootGroup)), unclaimed |-> saved.data]
      done == UnravelExtensionData(acc, Root, RootGroup)
  IN  [done EXCEPT !.data = Fresh(@, Wrapped(Root, RootGroup))]

Unravelled(kept) ==
  LET dropped == Without(ClearedRoot, Wrapped(Root, RootGroup))
      acc == [data |-> Fresh(dropped, Wrapped(Root, RootGroup)), unclaimed |-> saved.data]
      fromRoot == UnravelExtensionData(acc, Root, RootGroup)
  IN  IF ChestInRoot(kept) THEN UnravelExtensionData(fromRoot, Chest, OwnGroup(Chest)) ELSE fromRoot

LoadSaveData(invalid) ==
  LET kept == Without(saved.entries[Root], invalid)
      chestBack == ChestInRoot(kept)
      done == Unravelled(kept)
  IN  /\ \A k \in DOMAIN entries[Root] : ~Denied(Root, k, "Moving")
      /\ entries' = [ c \in Containers |->
                        IF c = Root THEN kept
                        ELSE IF chestBack THEN saved.entries[Chest] ELSE entries[Chest] ]
      /\ gen' = [ c \in Containers |->
                    IF c = Root THEN LastKey(kept)
                    ELSE IF chestBack THEN LastKey(saved.entries[Chest]) ELSE gen[Chest] ]
      /\ ready' = {Root}
      /\ parented' = FALSE
      /\ data' = done.data
      /\ unclaimed' = done.unclaimed
      /\ holders' = IF chestBack THEN {Root, Chest} ELSE {Root}
      /\ astray' = (astray \/ \E x \in DOMAIN saved.data : DOMAIN saved.data[x] \cap invalid # {})
      /\ UNCHANGED <<dynamic, saved, edits>>

AddExtension ==
  /\ Later \notin ToSet(dynamic)
  /\ dynamic' = Append(dynamic, Later)
  /\ LET reached == { c \in ready : c = Root \/ parented }
         acc == [ data |-> Fresh(data, { <<c, Later>> : c \in reached }), unclaimed |-> unclaimed ]
         done == IF Root \in holders THEN UnravelExtensionData(acc, Root, <<Later>>) ELSE acc
     IN  /\ data' = done.data /\ unclaimed' = done.unclaimed
         /\ astray' = (astray \/ \E p \in DOMAIN done.data \cap {<<Root, Later>>} :
                                    ~(DOMAIN done.data[p] \subseteq DOMAIN entries[Root]))
  /\ UNCHANGED <<contentVars, ready, parented, holders, saved, edits>>

RemoveExtension ==
  /\ \E n \in DOMAIN dynamic : dynamic[n] = Later /\ dynamic' = RemoveAt(dynamic, n)
  /\ data' = Without(data, { <<c, Later>> : c \in Containers })
  /\ UNCHANGED <<contentVars, ready, parented, saveVars, astray, edits>>

-----------------------------------------------------------------------------

Init ==
  /\ entries = [ c \in Containers |-> Empty ]
  /\ gen = [ c \in Containers |-> KeyGenReset ]
  /\ dynamic = << >>
  /\ ready = {} /\ parented = FALSE
  /\ data = Empty
  /\ unclaimed = Empty /\ holders = {} /\ saved = NoSave
  /\ astray = FALSE /\ edits = 0

(* Nothing is claimed of data about an address that has no stack (made      *)
(* there, or claimed from a save after the stack was removed), nor of the   *)
(* chest's data saved while Root was not registered, which Root would take  *)
(* for its own: the model stops where they come up.                         *)
Careful(S) == IF astray THEN {} ELSE S
KeysOf(c) == KeyGenReset + 1 .. KeyGenReset + MaxKey[c]

Next ==
  \/ ~astray /\ (InitializeNetObject \/ DeinitializeNetObject)
  \/ ~astray /\ (AddExtension \/ RemoveExtension)
  \/ ~astray /\ MakeSaveData
  \/ \E c \in Careful(Containers), item \in Items \cup {Box} : AddItemStack(c, item)
  \/ \E c \in Careful(Containers) : \E k \in KeysOf(c), r \in Reasons : RemoveStack(c, k, r)
  \/ \E p \in Careful(DOMAIN data) : \E k \in KeysOf(p[1]), t \in Tags :
       MarkStackWithTag(p, k, t) \/ ClearTagFromStack(p, k, t)
  \/ \E p \in Careful(DOMAIN data) : \E k \in KeysOf(p[1]) : TrySetTags(p, k, Tags)
  \/ \E invalid \in Careful(IF saved.there THEN SUBSET DOMAIN saved.entries[Root] ELSE {}) :
       LoadSaveData(invalid)

Spec == Init /\ [][Next]_vars

-----------------------------------------------------------------------------

(* Tags stay on the item they were set on: through removals, the release    *)
(* and return of a chest, saves, loads that give keys out anew and          *)
(* extensions that claim their data late, an address never comes to show    *)
(* what was said of another item.                                           *)
TagsStayOnTheirItem ==
  ~astray =>
    \A p \in DOMAIN data : \A k \in DOMAIN data[p] \cap DOMAIN entries[p[1]] :
      data[p][k].item = entries[p[1]][k]

(* A load gives the stacks of the root that came back what each of its      *)
(* extensions had about them when it was saved, whatever was done since,    *)
(* provided the extension is there and identifiers are not shared.          *)
LoadRestoresData ==
  [][ \A invalid \in Careful(IF saved.there THEN SUBSET DOMAIN saved.entries[Root] ELSE {}) :
        LoadSaveData(invalid) =>
          \A x \in ToSet(RootGroup) \cap DOMAIN saved.was :
            data'[<<Root, x>>] = saved.was[x] ]_vars
=============================================================================
