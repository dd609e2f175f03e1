--------------------------- MODULE ItemGeneration ---------------------------
(***************************************************************************)
(* FFaerieItemGenerationAction and FFaerieItemGenerationActionSingle: from  *)
(* the drivers (configs) of a request to the stacks it answers with.  A     *)
(* request is answered synchronously outside a game world, and by loads in  *)
(* between in one; some assets never load.  What the runner does with an    *)
(* action that has ended is in CraftingRunner.                              *)
(***************************************************************************)
EXTENDS ItemPools

CONSTANTS
  Configs,     \* generation configs
  Procedure,   \* of each config: its procedure
  Amounts,     \* of each config: what its amount resolver may give
  Missing,     \* assets whose load fails
  InMemory,    \* what may be in memory when a request comes
  NoDrop,      \* the source of a request that has drivers
  MaxChecks,   \* bound: the steps of a LoadCheck, endless for pools in a cycle
  DriverLists, \* bound: the drivers of requests
  Sources      \* bound: the single sources of requests

ASSUME ItemGenerationAssumption ==
  /\ Configs \subseteq DOMAIN DropsOf
  /\ Procedure \in [Configs -> {"OfOne", "OfAny", "Chunked", "OfAll"}]
  /\ \A c \in Configs : Amounts[c] \subseteq Int
  /\ MaxChecks \in Nat
  /\ \A drivers \in DriverLists : drivers \in Seq(Configs \cup {NoAsset})
  /\ NoAsset \notin Configs /\ NoDrop \notin Sources
  /\ Sources \subseteq TableDrops

VARIABLES
  phase,     \* idle, configs or drops (a load is under way), or how it ended
  request,   \* [source, drivers, expand, async]
  loaded,    \* assets in memory
  pending,   \* PendingGenerations
  checkFrom, \* where the next LoadCheck starts
  toLoad,    \* what the running load was asked for
  stacks,    \* ActionData.Stacks
  asked      \* history: the copies the resolved configs asked for

genVars == <<phase, request, loaded, pending, checkFrom, toLoad, stacks, asked>>

Loading == {"configs", "drops"}
Ended == {"completed", "failed", "halted"}

NoGeneration == [source |-> NoDrop, drivers |-> << >>, expand |-> FALSE, async |-> FALSE]

-----------------------------------------------------------------------------
(* Generate: an asset that is not there is dereferenced; a generation       *)
(* without an asset is passed over.                                         *)

IsValidDrop(g) == g.drop.asset # NoAsset /\ g.count > 0

OnlyValid(gs) == OnlyIn({ g \in Elements(gs) : IsValidDrop(g) }, gs)

ResolveAll(gs) ==
  LET made[n \in 0 .. Len(gs)] ==
        IF n = 0 THEN {<< >>}
        ELSE { before \o last : before \in made[n - 1], last \in ResolveGeneration(gs[n]) }
  IN  made[Len(gs)]

Generate(gs, there) ==
  /\ pending' = gs
  /\ checkFrom' = 1 /\ toLoad' = {}
  /\ LET valid == OnlyValid(gs)
     IN  IF \E i \in DOMAIN valid : valid[i].drop.asset \notin there
         THEN phase' = "halted" /\ stacks' = << >>
         ELSE \E made \in ResolveAll(valid) :
                /\ stacks' = made
                /\ phase' = IF made = << >> THEN "failed" ELSE "completed"

(* LoadCheck from a position: loaded pools are replaced by their drops,     *)
(* when the request says so; what is not in memory is to be loaded.         *)
RemoveAtSwap(s, i) == [ j \in 1 .. Len(s) - 1 |-> IF j = i THEN s[Len(s)] ELSE s[j] ]
Expanded(p, count) == [ i \in DOMAIN DropsOf[p] |-> PendingDrop(p, i, count) ]

CheckNext(w, there) ==
  IF w.at > Len(w.pending) THEN w
  ELSE LET g == w.pending[w.at]
           a == g.drop.asset
       IN  IF a \in Pools \cap there /\ request'.expand
           THEN [w EXCEPT !.pending = RemoveAtSwap(w.pending, w.at) \o Expanded(a, g.count)]
           ELSE [w EXCEPT !.load = IF a # NoAsset /\ a \notin there THEN w.load \cup {a} ELSE w.load,
                          !.at = w.at + 1]

Generations == [drop : TableDrops, count : Nat]
Checks == [pending : Seq(Generations), load : SUBSET Assets, at : Nat \ {0}]
Checked(gs, from, there) ==
  LET next == [ w \in Checks |-> CheckNext(w, there) ]
      after[n \in 0 .. MaxChecks] ==
        IF n = 0 THEN [pending |-> gs, load |-> {}, at |-> from] ELSE next[after[n - 1]]
  IN  after[MaxChecks]

(* Outside a game world the load is done on the spot and the check goes on, *)
(* where there is nothing left to look at.                                  *)
LoadCheck(gs, from, there) ==
  LET done == Checked(gs, from, there)
      now == there \cup (done.load \ Missing)
  IN  IF done.load = {} THEN Generate(done.pending, there) /\ loaded' = there
      ELSE IF request'.async
      THEN /\ phase' = "drops" /\ toLoad' = done.load
           /\ pending' = done.pending /\ checkFrom' = Len(done.pending) + 1
           /\ loaded' = there /\ stacks' = << >>
      ELSE Generate(done.pending, now) /\ loaded' = now

-----------------------------------------------------------------------------
(* A request with drivers: the configs that are in memory are resolved.     *)

ResolveConfig(c) ==
  UNION { IF n > 0 THEN { [gs |-> gs, amount |-> IF Procedure[c] = "OfAll" THEN n * Len(DropsOf[c])
                                                  ELSE IF DropsOf[c] = << >> THEN 0 ELSE n] :
                            gs \in ResolvedBy(Procedure[c], c, n) }
          ELSE {[gs |-> << >>, amount |-> 0]} : n \in Amounts[c] }

ResolveConfigs(cs) ==
  LET upTo[n \in 0 .. Len(cs)] ==
        IF n = 0 THEN {[gs |-> << >>, amount |-> 0]}
        ELSE { [gs |-> x.gs \o y.gs, amount |-> x.amount + y.amount] :
                 x \in upTo[n - 1], y \in ResolveConfig(cs[n]) }
  IN  upTo[Len(cs)]

(* Those of the drivers that are loaded on the spot come in any order.      *)
Orders(S) == { s \in [1 .. Cardinality(S) -> S] : \A x \in S : \E n \in DOMAIN s : s[n] = x }

LoadDrivers ==
  LET drivers == request'.drivers
      configs == Elements(drivers) \ loaded
      sync == ~request'.async
      there == loaded \cup (IF sync THEN configs \ Missing ELSE {})
  IN  \E thenLoaded \in Orders(IF sync THEN configs \ Missing ELSE {}) :
      \E r \in ResolveConfigs(OnlyIn(loaded, drivers) \o thenLoaded) :
        /\ asked' = r.amount
        /\ IF configs # {} /\ ~sync
           THEN /\ phase' = "configs" /\ toLoad' = configs
                /\ pending' = r.gs /\ checkFrom' = 1
                /\ loaded' = there /\ stacks' = << >>
           ELSE LoadCheck(r.gs, 1, there)

Fail ==
  /\ phase' = "failed" /\ stacks' = << >> /\ pending' = << >>
  /\ checkFrom' = 1 /\ toLoad' = {} /\ asked' = 0
  /\ UNCHANGED loaded

Run(drivers, expand, async) ==
  /\ phase = "idle"
  /\ request' = [source |-> NoDrop, drivers |-> drivers, expand |-> expand, async |-> async]
  /\ IF drivers = << >> \/ NoAsset \in Elements(drivers) THEN Fail ELSE LoadDrivers

(* The configs have been loaded: they are resolved into a copy of the       *)
(* action, of which nothing is kept.                                        *)
ConfigsLoaded ==
  /\ phase = "configs"
  /\ UNCHANGED <<request, asked>>
  /\ LoadCheck(pending, 1, loaded \cup (toLoad \ Missing))

(* Mutated: the check begins anew after every load. *)
DropsLoadedAnew ==
  /\ phase = "drops" /\ request.source = NoDrop
  /\ UNCHANGED <<request, asked>>
  /\ LoadCheck(pending, 1, loaded \cup (toLoad \ Missing))

DropsLoaded ==
  /\ phase = "drops" /\ request.source = NoDrop
  /\ UNCHANGED <<request, asked>>
  /\ LoadCheck(pending, checkFrom, loaded \cup (toLoad \ Missing))

-----------------------------------------------------------------------------
(* A request for one source: its asset and those of its resource slots are  *)
(* asked for until they are in memory.                                      *)

LoadCheckSingle(source, there) ==
  LET load == (({source.asset} \cup source.slots) \ {NoAsset}) \ there
  IN  IF load = {}
      THEN Generate(<<[drop |-> source, count |-> 1]>>, there) /\ loaded' = there
      ELSE /\ phase' = "drops" /\ toLoad' = load /\ loaded' = there
           /\ UNCHANGED <<pending, checkFrom, stacks>>

(* Outside a game world an asset that never loads is asked for without end: *)
(* the call does not return, and is not made here.                          *)
RunSingle(source, async) ==
  /\ phase = "idle"
  /\ LET wanted == ({source.asset} \cup source.slots) \ {NoAsset}
     IN  /\ async \/ wanted \cap Missing = {}
         /\ request' = [source |-> source, drivers |-> << >>, expand |-> FALSE, async |-> async]
         /\ IF source.asset = NoAsset THEN Fail
            ELSE /\ LoadCheckSingle(source, IF async THEN loaded ELSE loaded \cup wanted)
                 /\ asked' = 1

SingleLoaded ==
  /\ phase = "drops" /\ request.source # NoDrop
  /\ UNCHANGED <<request, asked>>
  /\ LoadCheckSingle(request.source, loaded \cup (toLoad \ Missing))

-----------------------------------------------------------------------------

LoadDone == ConfigsLoaded \/ DropsLoaded \/ SingleLoaded
GenNext ==
  \/ \E drivers \in DriverLists, expand, async \in BOOLEAN : Run(drivers, expand, async)
  \/ \E source \in Sources, async \in BOOLEAN : RunSingle(source, async)
  \/ LoadDone

GenInit ==
  /\ phase = "idle" /\ request = NoGeneration
  /\ loaded \in InMemory
  /\ pending = << >> /\ checkFrom = 1 /\ toLoad = {}
  /\ stacks = << >> /\ asked = 0
GenSpec == GenInit /\ [][GenNext]_genVars

-----------------------------------------------------------------------------

CopiesMade == SumTo([ n \in DOMAIN stacks |-> stacks[n].copies ], Len(stacks))

(* A generation that completes has made as many copies as the configs it    *)
(* resolved asked for, whichever procedure split the amount and whichever   *)
(* loads came in between; at most as many where a draw came to nothing.     *)
NothingIsDrawn ==
  \/ \E p \in Pools \cup Configs : NoAsset \in AssetsOf(p)
  \/ \E p \in Pools : AssetsOf(p) = {}

MakesWhatWasAsked ==
  phase = "completed" /\ ~request.expand =>
    CopiesMade <= asked /\ (~NothingIsDrawn => CopiesMade = asked)

(* GetDrop over the adjusted weights gives each drop of a pool the share    *)
(* its weight is of the sum, before any request is made.                    *)
DrawsFollowWeights == phase = "idle" => DrawsAreEven

(* Every generation comes to an end, however pools nest and whatever never  *)
(* loads; one for a single source does when its assets can be loaded.       *)
GenerationEnds ==
  phase \in Loading /\ (request.source # NoDrop =>
      ({request.source.asset} \cup request.source.slots) \cap Missing = {})
    ~> phase \in Ended
=============================================================================
