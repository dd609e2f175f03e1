----------------------------- MODULE ContentHashes -----------------------------
(***************************************************************************)
(* Hashes over what is worn.  A UContentHashExtension keeps the hash of     *)
(* each slot it is initialised for, on the server and on a client; the      *)
(* server's checksum replicates, and so does, apart from it, what lies in   *)
(* the slots.  Its neighbour URelevantActorsExtension counts the slots of   *)
(* each actor.  A UFaerieEquipmentHashAsset asks whether what is worn       *)
(* hashes as its examples do.                                               *)
(*                                                                          *)
(* A hash is what it was made of: no two differ in that and yet are equal.  *)
(***************************************************************************)
EXTENDS Integers, Sequences, FiniteSets
LOCAL INSTANCE SequencesExt

CONSTANTS
    Places,     \* equipment slots
    ClientPlaces, \* those whose containers a client initialises the extension for
    Things,     \* items
    NoThing,
    NameOf,     \* thing -> what its info token hashes, NoThing without one
    TokensOf,   \* thing -> its tokens, [class, hash]
    WearerOf,   \* place -> the actor it lies in
    HashAssets  \* sets of slots with examples: sequences of
                \* [slots, any, instruction, example]

ASSUME ContentHashesAssumption ==
    /\ ClientPlaces \subseteq Places /\ NoThing \notin Things
    /\ NameOf \in [Things -> STRING \cup {NoThing}] /\ Places \subseteq DOMAIN WearerOf

VARIABLES
    worn,      \* place -> thing
    hashes,    \* PerContainerHash, ServerChecksum of the server
    checksum,
    enrolled,  \* the places the extensions are initialised for
    strays,    \* places with events while they were not
    client,    \* [seen, hashes, local, received, match, heard]
    actors,    \* [owning, relevant]: OwningActors and RelevantActors
    meddled    \* actors the game added or removed

hashVars == <<worn, hashes, checksum, enrolled, strays, client, actors, meddled>>

-----------------------------------------------------------------------------
(* Hashes.                                                                   *)

HashZero == <<"zero">>
Combine(a, b) == <<"mix", a, b>>

\* Sorted before they are combined: their order does not matter.
CombineHashes(list) ==
    CASE Len(list) = 0 -> HashZero
      [] Len(list) = 1 -> list[1]
      [] OTHER -> <<"sorted", [ h \in ToSet(list) |-> Cardinality({ i \in DOMAIN list : list[i] = h }) ]>>

HashItemByName(thing) == IF NameOf[thing] = NoThing THEN HashZero ELSE <<"name", NameOf[thing]>>

\* HashContainer, of a slot: the stack's amount is not hashed.
HashContainer(thing) == CombineHashes(IF thing = NoThing THEN <<>> ELSE <<HashItemByName(thing)>>)

\* With the library's function, which hashes no item as 0.
HashEquipment(content, places) ==
    LET seq == SetToSeq(places) IN
    CombineHashes([ i \in DOMAIN seq |-> IF content[seq[i]] = NoThing THEN HashZero ELSE HashItemByName(content[seq[i]]) ])

\* UFaerieItemStackHashInstruction and its classes.
RECURSIVE HashBy(_, _)
HashBy(rule, thing) ==
    CASE rule.kind = "Literal" -> rule.value
      [] rule.kind = "IsValid" -> <<"validated", thing # NoThing>>
      [] rule.kind = "And" -> FoldLeft(LAMBDA hash, r : Combine(hash, HashBy(r, thing)), HashZero, rule.rules)
      [] rule.kind = "Or" -> FoldLeft(LAMBDA hash, r : IF hash # HashZero THEN hash ELSE HashBy(r, thing), HashZero, rule.rules)
      [] rule.kind = "BooleanFilter" -> <<"filter", thing \in rule.pattern>>
      [] rule.kind = "BooleanSelect" -> HashBy(IF thing \in rule.pattern THEN rule.yes ELSE rule.no, thing)
      [] rule.kind = "Tokens" ->
           IF rule.classes = {} THEN HashZero
           ELSE FoldLeft(LAMBDA hash, t : IF t.class \in rule.classes THEN Combine(hash, <<"name", t.hash>>) ELSE hash,
                         <<"tokens">>, TokensOf[thing])

\* A walk over the slots of one config: with Any it ends at the first that is filled.
RECURSIVE Chained(_, _, _, _)
Chained(hash, config, things, i) ==
    IF i > Len(config.slots) THEN hash
    ELSE IF things[i] = NoThing THEN Chained(Combine(hash, HashZero), config, things, i + 1)
    ELSE LET next == Combine(hash, HashBy(config.instruction, things[i])) IN
         IF config.any THEN next ELSE Chained(next, config, things, i + 1)

\* PreSave of the asset: an example that is missing counts as an empty slot.
CheckHash(asset) ==
    FoldLeft(LAMBDA hash, config :
        Chained(hash, config,
            [ i \in DOMAIN config.slots |-> IF i \in DOMAIN config.example THEN config.example[i] ELSE NoThing ], 1),
        HashZero, asset)

CheckHashes == [ asset \in HashAssets |-> CheckHash(asset) ]

ExecuteHashInstructions(asset) ==
    FoldLeft(LAMBDA hash, config :
        Chained(hash, config, [ i \in DOMAIN config.slots |-> worn[config.slots[i]] ], 1),
        HashZero, asset) = CheckHashes[asset]

-----------------------------------------------------------------------------
(* The extensions.                                                           *)

Combined(perPlace) ==
    LET seq == SetToSeq(DOMAIN perPlace) IN CombineHashes([ i \in DOMAIN seq |-> perPlace[seq[i]] ])

With(perPlace, place, hash) == [ p \in DOMAIN perPlace \cup {place} |-> IF p = place THEN hash ELSE perPlace[p] ]
Without(perPlace, place) == [ p \in DOMAIN perPlace \ {place} |-> perPlace[p] ]

\* RecalcLocalChecksum, on the server.
Recalculated(perPlace) == hashes' = perPlace /\ checksum' = Combined(perPlace)

\* CheckLocalChecksum.
Compared(c) ==
    LET match == c.local = c.received IN
    [c EXCEPT !.match = match, !.heard = IF match = c.match THEN @ ELSE <<match>>]

\* RecalcLocalChecksum, on a client.
ClientRecalculated(perPlace) == Compared([client EXCEPT !.hashes = perPlace, !.local = Combined(perPlace)])

HashInit ==
    /\ worn = [ p \in Places |-> NoThing ] /\ hashes = <<>> /\ checksum = HashZero
    /\ enrolled = {} /\ strays = {}
    /\ client = [ seen |-> [ p \in ClientPlaces |-> NoThing ], hashes |-> <<>>, local |-> HashZero,
                  received |-> HashZero, match |-> TRUE, heard |-> <<>> ]
    /\ actors = [owning |-> <<>>, relevant |-> {}] /\ meddled = {}

\* URelevantActorsExtension.
WithOwner(a, actor) ==
    IF actor \in DOMAIN a.owning THEN [a EXCEPT !.owning[actor] = @ + 1]
    ELSE [owning |-> With(a.owning, actor, 1), relevant |-> a.relevant \cup {actor}]
WithoutOwner(a, actor) ==
    CASE actor \notin DOMAIN a.owning -> a
      [] actor \in DOMAIN a.owning /\ a.owning[actor] = 1 ->
           [owning |-> Without(a.owning, actor), relevant |-> a.relevant \ {actor}]
      [] OTHER -> [a EXCEPT !.owning[actor] = @ - 1]

\* Mutated: the checksum is left until the next event.
DeinitializeForLazily(place) ==
    /\ place \in enrolled
    /\ enrolled' = enrolled \ {place} /\ strays' = strays \ {place}
    /\ hashes' = Without(hashes, place) /\ UNCHANGED checksum
    /\ actors' = WithoutOwner(actors, WearerOf[place])
    /\ UNCHANGED <<worn, client, meddled>>

\* InitializeExtension, DeinitializeExtension: of either extension.
InitializeFor(place) ==
    /\ place \notin enrolled
    /\ enrolled' = enrolled \cup {place} /\ strays' = strays \ {place}
    /\ Recalculated(With(hashes, place, HashContainer(worn[place])))
    /\ actors' = WithOwner(actors, WearerOf[place])
    /\ UNCHANGED <<worn, client, meddled>>

DeinitializeFor(place) ==
    /\ place \in enrolled
    /\ enrolled' = enrolled \ {place} /\ strays' = strays \ {place}
    /\ Recalculated(Without(hashes, place))
    /\ actors' = WithoutOwner(actors, WearerOf[place])
    /\ UNCHANGED <<worn, client, meddled>>

\* A slot is filled or emptied: PostEventBatch, which no group keeps from an extension that
\* is not initialised for the slot.
Wear(place, thing) ==
    /\ (worn[place] = NoThing) # (thing = NoThing)
    /\ worn' = [worn EXCEPT ![place] = thing]
    /\ Recalculated(With(hashes, place, HashContainer(thing)))
    /\ strays' = IF place \in enrolled THEN strays ELSE strays \cup {place}
    /\ UNCHANGED <<enrolled, client, actors, meddled>>

\* AddActor, RemoveActor.
Meddle(actor) ==
    /\ actors' \in {[actors EXCEPT !.relevant = @ \cup {actor}], [actors EXCEPT !.relevant = @ \ {actor}]}
    /\ meddled' = meddled \cup {actor}
    /\ UNCHANGED <<worn, hashes, checksum, enrolled, strays, client>>

\* The client's containers post no events: what arrives in them is not hashed.
ReceiveWorn(place) ==
    /\ client.seen[place] # worn[place]
    /\ client' = [client EXCEPT !.seen[place] = worn[place]]
    /\ UNCHANGED <<worn, hashes, checksum, enrolled, strays, actors, meddled>>

\* OnRep_ServerChecksum.
ReceiveChecksum ==
    /\ client.received # checksum
    /\ client' = Compared([client EXCEPT !.received = checksum])
    /\ UNCHANGED <<worn, hashes, checksum, enrolled, strays, actors, meddled>>

\* An actor's BeginPlay, and its extension's removal, on the client.
ClientInitializeFor(place) ==
    /\ client' = ClientRecalculated(With(client.hashes, place, HashContainer(client.seen[place])))
    /\ UNCHANGED <<worn, hashes, checksum, enrolled, strays, actors, meddled>>

ClientDeinitializeFor(place) ==
    /\ place \in DOMAIN client.hashes
    /\ client' = ClientRecalculated(Without(client.hashes, place))
    /\ UNCHANGED <<worn, hashes, checksum, enrolled, strays, actors, meddled>>

HashNext ==
    \/ \E p \in Places : InitializeFor(p) \/ DeinitializeFor(p) \/ \E thing \in Things \cup {NoThing} : Wear(p, thing)
    \/ \E p \in ClientPlaces : ReceiveWorn(p) \/ ClientInitializeFor(p) \/ ClientDeinitializeFor(p)
    \/ ReceiveChecksum
    \/ \E actor \in { WearerOf[p] : p \in Places } : Meddle(actor)
HashSpec == HashInit /\ [][HashNext]_hashVars

-----------------------------------------------------------------------------

\* Kept up event by event, the server's checksum is the hash of the slots the extension is
\* initialised for, taken at once; slots that had events without it are among them.
ChecksumIsOfContent == checksum = HashEquipment(worn, enrolled \cup strays)

\* What the client heard last is whether its checksum is the one it received.
ClientIsTold ==
    /\ client.match <=> client.local = client.received
    /\ client.match <=> client.heard \in {<<>>, <<TRUE>>}

\* Each actor is counted once for each of its slots, and is relevant for one that is left,
\* unless the game said otherwise.
OwnersAreRelevant ==
    \A actor \in { WearerOf[p] : p \in Places } :
        LET own == { p \in enrolled : WearerOf[p] = actor } IN
        /\ actor \in DOMAIN actors.owning <=> own # {}
        /\ own # {} => actors.owning[actor] = Cardinality(own)
        /\ actor \notin meddled => (actor \in actors.relevant <=> own # {})

\* Who wears the examples passes.  Who passes wears something that hashes like the example
\* in every slot that counts.
FirstFilled(things) == { i \in DOMAIN things : things[i] # NoThing /\ \A j \in 1 .. i - 1 : things[j] = NoThing }
ExamplesPass ==
    \A asset \in HashAssets :
        LET Worn(i) == [ j \in DOMAIN asset[i].slots |-> worn[asset[i].slots[j]] ]
            Counts(i) == IF asset[i].any THEN { j \in DOMAIN asset[i].slots : \A k \in 1 .. j - 1 : Worn(i)[k] = NoThing }
                         ELSE DOMAIN asset[i].slots
        IN  /\ (\A i \in DOMAIN asset : Worn(i) = asset[i].example) => ExecuteHashInstructions(asset)
            /\ ExecuteHashInstructions(asset) =>
                 \A i \in DOMAIN asset : \A j \in Counts(i) :
                     \/ Worn(i)[j] = NoThing /\ asset[i].example[j] = NoThing
                     \/ /\ NoThing \notin {Worn(i)[j], asset[i].example[j]}
                        /\ HashBy(asset[i].instruction, Worn(i)[j]) = HashBy(asset[i].instruction, asset[i].example[j])

\* What is hashed is what there is.
ChecksumsFollowContent == ChecksumIsOfContent /\ ClientIsTold /\ OwnersAreRelevant /\ ExamplesPass
=============================================================================
