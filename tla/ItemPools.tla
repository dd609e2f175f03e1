----------------------------- MODULE ItemPools -----------------------------
(***************************************************************************)
(* Weighted pools of drops, the procedures that draw from them, and the     *)
(* instancing of a drop (FFaerieWeightedPool, FFaerieGenerationProcedure,    *)
(* UFaerieItemPool, FFaerieTableDrop).  A random draw is a choice: a         *)
(* procedure is the set of what it may add to the pending generations.      *)
(***************************************************************************)
EXTENDS Integers, Sequences, FiniteSets

CONSTANTS
  Plain,     \* sources of immutable items
  Unique,    \* sources that can be mutable
  Pools,     \* pools, sources too
  NoAsset,   \* a reference that is not set
  DropsOf    \* of each pool and each config: its drops, as [asset, slots]

Assets == Plain \cup Unique \cup Pools \cup {NoAsset}
TableDrops == [asset : Assets, slots : SUBSET Assets]
AssetsOf(p) == { DropsOf[p][i].asset : i \in DOMAIN DropsOf[p] }

ASSUME ItemPoolsAssumption ==
  /\ NoAsset \notin Plain \cup Unique \cup Pools /\ Pools \cap (Plain \cup Unique) = {}
  /\ Pools \subseteq DOMAIN DropsOf
  /\ \A p \in DOMAIN DropsOf : DropsOf[p] \in Seq(TableDrops)

(* The elements of a sequence, and those of them in a set, in order.        *)
Elements(s) == { s[n] : n \in DOMAIN s }
OnlyIn(S, s) ==
  LET upTo[n \in 0 .. Len(s)] ==
        IF n = 0 THEN << >>
        ELSE IF s[n] \in S THEN Append(upTo[n - 1], s[n]) ELSE upTo[n - 1]
  IN  upTo[Len(s)]

-----------------------------------------------------------------------------
(* Weights.  A draw is a number from 0 up to, and without, 1, given here as *)
(* a fraction r over the sum of the weights.                                *)

SumTo(ws, i) ==
  LET sum[n \in 0 .. Len(ws)] == IF n = 0 THEN 0 ELSE sum[n - 1] + ws[n]
  IN  sum[i]

(* Mutated: every drop has its own weight alone. *)
PercentagesApart(ws) == ws

(* FFaerieWeightedPool::CalculatePercentages: the adjusted weights, times   *)
(* the sum.                                                                 *)
CalculatePercentages(ws) == [ i \in DOMAIN ws |-> SumTo(ws, i) ]

(* GetDrop: the first drop whose adjusted weight is not below the draw, 0   *)
(* when the search runs out of the list.                                    *)
GetDrop(ws, twiceR) ==
  LET adjusted == CalculatePercentages(ws)
      found == { i \in DOMAIN ws : 2 * adjusted[i] >= twiceR }
  IN  IF Len(ws) = 1 THEN 1
      ELSE IF found = {} THEN 0
      ELSE CHOOSE i \in found : \A j \in found : i <= j

-----------------------------------------------------------------------------
(* Procedures: sequences of pending generations for an amount of at least   *)
(* one.                                                                     *)

PendingDrop(p, i, count) == [drop |-> DropsOf[p][i], count |-> count]
Drawn(p) == DOMAIN DropsOf[p]

(* X of 1. *)
OfOne(p, amount) ==
  IF DropsOf[p] = << >> THEN {<< >>} ELSE { <<PendingDrop(p, i, amount)>> : i \in Drawn(p) }

(* X of Any. *)
OfAny(p, amount) ==
  IF DropsOf[p] = << >> THEN {<< >>}
  ELSE { [ n \in 1 .. amount |-> PendingDrop(p, f[n], 1) ] : f \in [1 .. amount -> Drawn(p)] }

Shared(p, shares) ==
  { [ n \in DOMAIN shares |-> PendingDrop(p, f[n], shares[n]) ] : f \in [DOMAIN shares -> Drawn(p)] }

(* Mutated: a chunk does not count against the amount beyond one. *)
ChunkedForgetful(p, amount) ==
  IF DropsOf[p] = << >> THEN {<< >>}
  ELSE UNION { Shared(p, shares) :
                 shares \in { c \in [1 .. amount -> 1 .. amount] : \A n \in 1 .. amount : c[n] <= amount - n + 1 } }

(* Chunked: shares of at least one until the amount is used up. *)
Chunked(p, amount) ==
  IF DropsOf[p] = << >> THEN {<< >>}
  ELSE UNION { Shared(p, shares) :
                 shares \in { c \in UNION { [1 .. k -> 1 .. amount] : k \in 1 .. amount } :
                                SumTo(c, Len(c)) = amount } }

(* X of All. *)
OfAll(p, amount) == { [ i \in Drawn(p) |-> PendingDrop(p, i, amount) ] }

ResolvedBy(procedure, p, amount) ==
  CASE procedure = "OfOne" -> OfOne(p, amount)
    [] procedure = "OfAny" -> OfAny(p, amount)
    [] procedure = "Chunked" -> Chunked(p, amount)
    [] procedure = "OfAll" -> OfAll(p, amount)

-----------------------------------------------------------------------------
(* Instancing.                                                              *)

(* The sources that drops of drops of ... of a source come to, itself too.   *)
Within(a) ==
  { b \in Assets : \A S \in SUBSET Assets :
                     (a \in S /\ \A p \in S \cap Pools : AssetsOf(p) \subseteq S) => b \in S }

(* IFaerieItemSource::CanBeMutable; of a pool, if a drop of it can be.      *)
CanBeMutable(a) == Within(a) \cap Unique # {}

(* The items CreateItemStack may give one of; none of a pool whose draw has *)
(* no asset.                                                                *)
CreateItemStack(a) ==
  (Within(a) \ Pools) \cup (IF \E p \in Within(a) \cap Pools : AssetsOf(p) = {} THEN {NoAsset} ELSE {})

(* ResolveGeneration: the stacks one generation may add.  Sources that can  *)
(* be mutable are asked for each copy, others once for all of them.         *)
Stack(item, copies) == [item |-> item, copies |-> copies]
OnlySet(stacks) == OnlyIn({ s \in Elements(stacks) : s.item # NoAsset }, stacks)

ResolveGeneration(g) ==
  IF CanBeMutable(g.drop.asset)
  THEN { OnlySet([ n \in 1 .. g.count |-> Stack(f[n], 1) ]) :
           f \in [1 .. g.count -> CreateItemStack(g.drop.asset)] }
  ELSE { OnlySet(<<Stack(item, g.count)>>) : item \in CreateItemStack(g.drop.asset) }

-----------------------------------------------------------------------------

(* Of draws taken evenly a drop of a pool gets the share its weight is of   *)
(* the sum: draws at the middle of each 1/sum, so none falls on a border.   *)
WeightLists == UNION { [1 .. n -> 1 .. 3] : n \in 1 .. 3 }
DrawsAreEven ==
  \A ws \in WeightLists : \A i \in DOMAIN ws :
    LET total == SumTo(ws, Len(ws))
    IN  Cardinality({ r \in 0 .. total - 1 : GetDrop(ws, 2 * r + 1) = i }) = ws[i]
=============================================================================
