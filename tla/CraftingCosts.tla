--------------------------- MODULE CraftingCosts ---------------------------
(***************************************************************************)
(* What crafting and upgrading costs: the slots of a recipe or an upgrade,   *)
(* their payment in copies or in uses, the uses of a tool and what happens   *)
(* with the last one, and upgrades with their mutators.  The items are in    *)
(* one storage that others use too while an upgrade waits for its assets.    *)
(***************************************************************************)
EXTENDS Integers, Sequences, FiniteSets

CONSTANTS
  Items,       \* items a storage may hold
  Tools,       \* mutable items, each with a token that counts its uses
  LastUse,     \* of each tool: what its last use does
  Scrap,       \* the item a tool is replaced with
  Locked,      \* items an extension of the storage does not let go
  NoItem,      \* a proxy's item when it is gone
  MaxCopies,   \* bound on copies of an item
  MaxUses,     \* bound on the uses of a tool
  Regauged,    \* bound: the tools whose uses are set anew
  Payments,    \* [cost, filled, consume]: slots and the proxies that fill some
  Marks,       \* what mutators do to items
  Mutators,    \* [kind, mark, children], the children among them
  MutatorDepth,\* bound: how deep mutators nest
  UpgradeConfigs, \* [mutator, require, release]
  TargetLists  \* the proxies of an upgrade: one, or those of a bulk upgrade

ChildrenOf(m) == IF m.kind = "mark" THEN {} ELSE { m.children[k] : k \in DOMAIN m.children }

ASSUME CraftingCostsAssumption ==
  /\ Regauged \subseteq Tools /\ Tools \subseteq Items /\ Scrap \in Items \ Tools /\ NoItem \notin Items
  /\ MaxCopies \in Nat /\ MaxUses \in Nat
  /\ \A p \in Payments :
       /\ p.cost \in Seq({ p.cost[k] : k \in DOMAIN p.cost })
       /\ \A k \in DOMAIN p.cost : p.cost[k].amount \in Nat
       /\ \A name \in DOMAIN p.filled : p.filled[name] \in Items
  /\ MutatorDepth \in Nat
  /\ \E depth \in [Mutators -> 1 .. MutatorDepth] :
       \A m \in Mutators : \A child \in ChildrenOf(m) : child \in Mutators /\ depth[child] < depth[m]
  /\ \A m \in Mutators :
       /\ m.kind \in {"mark", "first", "any", "all", "unmarked"}
       /\ m.kind = "mark" => m.mark \in Marks
       /\ m.kind # "mark" => m.children \in Seq(Mutators)
       /\ m.kind = "unmarked" => Len(m.children) = 1
  /\ \A config \in UpgradeConfigs : config.mutator \in Mutators
  /\ \A targets \in TargetLists : targets \in Seq(Items)

VARIABLES
  stock,       \* the storage: [copies, uses, max, marks] of each item
  job,         \* the upgrade that waits for its assets, NoJob if none
  answer       \* what the callback of the last request was given

costVars == <<stock, job, answer>>

NoJob == [targets |-> << >>, config |-> NoItem, cost |-> << >>, filled |-> << >>, consume |-> FALSE]
NoAnswer == [result |-> "none", stacks |-> << >>]

Present(st, i) == st[i].copies > 0

-----------------------------------------------------------------------------
(* The storage and the uses of a tool.                                      *)

(* Release through a proxy or an owner: nothing when there are too few      *)
(* copies or an extension refuses.                                          *)
CanRelease(st, i, n) == st[i].copies >= n /\ i \notin Locked
Release(st, i, n) == IF CanRelease(st, i, n) THEN [st EXCEPT ![i].copies = @ - n] ELSE st

(* OnLastUse: Destroy, Replace or none.                                     *)
OnLastUse(st, t) ==
  CASE LastUse[t] = "destroy" -> Release(st, t, 1)
    [] LastUse[t] = "replace" -> [Release(st, t, 1) EXCEPT ![Scrap].copies = @ + 1]
    [] OTHER -> st

RemoveUses(st, t, n) ==
  LET used == [st EXCEPT ![t].uses = @ - n]
  IN  CASE st[t].uses < n -> st
        [] st[t].uses > n -> used
        [] st[t].uses = n -> OnLastUse(used, t)

-----------------------------------------------------------------------------
(* Slots: [name, amount, inUses, optional, accepts].                        *)

SlotPaid(st, slot, i) ==
  /\ Present(st, i) /\ i \in slot.accepts
  /\ IF slot.inUses THEN i \in Tools /\ st[i].uses >= slot.amount
                    ELSE st[i].copies >= slot.amount

ValidateFilledSlots(st, filled, cost) ==
  /\ \A name \in DOMAIN filled : Present(st, filled[name])
  /\ \A k \in DOMAIN cost :
       IF cost[k].name \in DOMAIN filled THEN SlotPaid(st, cost[k], filled[cost[k].name])
                                         ELSE cost[k].optional

(* ConsumeSlotCosts, one slot: it ends with the first that is not filled,   *)
(* whose item is gone or that is paid in uses.                              *)
PaySlot(w, filled, slot) ==
  LET i == filled[slot.name]
  IN  IF w.over \/ slot.name \notin DOMAIN filled \/ ~Present(w.stock, i) THEN [w EXCEPT !.over = TRUE]
      ELSE IF slot.inUses /\ i \in Tools THEN [over |-> TRUE, stock |-> RemoveUses(w.stock, i, slot.amount)]
      ELSE IF slot.inUses THEN w
      ELSE [w EXCEPT !.stock = Release(@, i, slot.amount)]

ConsumeSlotCosts(st, filled, cost) ==
  LET after[k \in 0 .. Len(cost)] ==
        IF k = 0 THEN [over |-> FALSE, stock |-> st] ELSE PaySlot(after[k - 1], filled, cost[k])
  IN  after[Len(cost)].stock

-----------------------------------------------------------------------------
(* Mutators, applied to the item of a stack: `stored' are the marks of the  *)
(* item itself, `own' those of the stack's item, a duplicate if `apart'.    *)

Instances ==
  [may : BOOLEAN, own : SUBSET Marks, stored : SUBSET Marks, apart : BOOLEAN, ok : BOOLEAN]

Fails(t) == [t EXCEPT !.ok = FALSE]
Mark(t, m) ==
  [t EXCEPT !.ok = TRUE, !.own = @ \cup {m}, !.stored = IF t.apart THEN @ ELSE @ \cup {m}]

(* The children one after another, `effect' what each does: until one did,  *)
(* or all; `ok' then tells whether all did.                                 *)
ApplyFirst(effect, children, t) ==
  LET after[k \in 0 .. Len(children)] ==
        IF k = 0 THEN Fails(t)
        ELSE LET s == after[k - 1] IN IF s.ok THEN s ELSE effect[children[k]][s]
  IN  after[Len(children)]

ApplyEach(effect, children, t) ==
  LET after[k \in 0 .. Len(children)] ==
        IF k = 0 THEN [t EXCEPT !.ok = TRUE]
        ELSE LET s == after[k - 1]
                 done == effect[children[k]][s]
             IN  [done EXCEPT !.ok = s.ok /\ done.ok]
  IN  after[Len(children)]

(* ApplyAll works on a duplicate and gives it to the stack when no child    *)
(* failed.                                                                  *)
ApplyAll(effect, children, t) ==
  LET copy == ApplyEach(effect, children, [t EXCEPT !.apart = TRUE])
  IN  IF t.may /\ copy.ok THEN copy ELSE Fails(t)

TryApply(effect, m, t) ==
  CASE m.kind = "mark" -> IF t.may THEN Mark(t, m.mark) ELSE Fails(t)
    [] m.kind = "first" -> ApplyFirst(effect, m.children, t)
    [] m.kind = "any" -> [ApplyEach(effect, m.children, t) EXCEPT !.ok = TRUE]
    [] m.kind = "all" -> ApplyAll(effect, m.children, t)
    [] m.kind = "unmarked" -> IF t.may /\ m.mark \notin t.own THEN effect[m.children[1]][t] ELSE Fails(t)

(* What a mutator makes of an instance: level by level, those that nest     *)
(* deeper from those that nest less deep.                                   *)
Effects ==
  LET upTo[d \in 0 .. MutatorDepth] ==
        IF d = 0 THEN [ m \in Mutators |-> [ t \in Instances |-> Fails(t) ] ]
        ELSE LET less == upTo[d - 1]
             IN  [ m \in Mutators |-> [ t \in Instances |-> TryApply(less, m, t) ] ]
  IN  upTo[MutatorDepth]

(* ApplyUpgrade: one stack after another, until one has no copies or is     *)
(* refused; what was done to those before it stays.                         *)
ApplyUpgrade(config, todo) ==
  LET mutated == [ k \in DOMAIN todo |-> Effects[config.mutator][todo[k].inst] ]
      refused == { k \in DOMAIN todo : todo[k].copies = 0 \/ (~mutated[k].ok /\ config.require) }
      reached(k) == todo[k].copies # 0 /\ \A j \in refused : j >= k
  IN  [ok |-> refused = {},
       stacks |-> [ k \in DOMAIN todo |-> IF reached(k) THEN [todo[k] EXCEPT !.inst = mutated[k]] ELSE todo[k] ]]

-----------------------------------------------------------------------------

Fresh == [ i \in Items |-> [copies |-> IF i = Scrap THEN 0 ELSE IF i \in Tools THEN 1 ELSE MaxCopies,
                           uses |-> IF i \in Tools THEN MaxUses ELSE 0, max |-> MaxUses, marks |-> {}] ]
CostInit ==
  /\ stock = Fresh
  /\ job = NoJob /\ answer = NoAnswer

(* The runner reports a failure when an action has no stacks, and gives the *)
(* stacks only with a success.                                              *)
Finish(ok, stacks) ==
  answer' = IF ok /\ stacks # << >> THEN [result |-> "succeeded", stacks |-> stacks]
                                    ELSE [result |-> "failed", stacks |-> << >>]

(* FFaerieCraftRecipeAction::Run; the source of the recipe may make nothing.*)
Craft(cost, filled, consume, makes) ==
  /\ job = NoJob
  /\ IF ValidateFilledSlots(stock, filled, cost) /\ makes
     THEN /\ Finish(TRUE, <<[item |-> NoItem, copies |-> 1, marks |-> {}]>>)
          /\ stock' = IF consume THEN ConsumeSlotCosts(stock, filled, cost) ELSE stock
     ELSE Finish(FALSE, << >>) /\ UNCHANGED stock
  /\ UNCHANGED job

(* Run of an upgrade of one item or of several: its assets are loaded first.*)
Upgrade(targets, config, cost, filled, consume) ==
  /\ job = NoJob
  /\ job' = [targets |-> targets, config |-> config, cost |-> cost, filled |-> filled, consume |-> consume]
  /\ answer' = [result |-> "waits", stacks |-> << >>]
  /\ UNCHANGED stock

(* The stacks Execute works on: released, a copy for each target while      *)
(* there are copies, or the items where they are.                           *)
Released(st, targets) ==
  [ i \in Items |->
      LET times == Cardinality({ k \in DOMAIN targets : targets[k] = i })
      IN  IF i \in Locked THEN st[i]
          ELSE [st[i] EXCEPT !.copies = IF @ <= times THEN 0 ELSE @ - times] ]

StackOf(i, copies) ==
  LET marks == IF i = NoItem THEN {} ELSE stock[i].marks
  IN  [item |-> i, copies |-> copies,
       inst |-> [may |-> i \in Tools, own |-> marks, stored |-> marks, apart |-> FALSE, ok |-> TRUE]]

OperationStacks ==
  [ k \in DOMAIN job.targets |->
      LET i == job.targets[k]
          nth == Cardinality({ j \in 1 .. k : job.targets[j] = i })
      IN  IF job.config.release
          THEN IF CanRelease(stock, i, nth) THEN StackOf(i, 1) ELSE StackOf(NoItem, 0)
          ELSE StackOf(IF Present(stock, i) THEN i ELSE NoItem, 1) ]

Marked(st, stacks) ==
  [ i \in Items |-> LET of == { k \in DOMAIN stacks : stacks[k].item = i }
                    IN  IF of = {} THEN st[i] ELSE [st[i] EXCEPT !.marks = stacks[CHOOSE k \in of : TRUE].inst.stored] ]

PaidFor(st, n) ==
  LET after[k \in 0 .. n] == IF k = 0 THEN st ELSE ConsumeSlotCosts(after[k - 1], job.filled, job.cost)
  IN  after[n]

(* Mutated: the cost is paid before the mutator has run. *)
ExecutePaysFirst ==
  /\ job # NoJob
  /\ job' = NoJob
  /\ IF ~ValidateFilledSlots(stock, job.filled, job.cost) THEN Finish(FALSE, << >>) /\ UNCHANGED stock
     ELSE LET upgraded == ApplyUpgrade(job.config, OperationStacks)
              held == IF job.config.release THEN Released(stock, job.targets) ELSE stock
              after == Marked(held, upgraded.stacks)
          IN  /\ Finish(upgraded.ok, [ k \in DOMAIN upgraded.stacks |->
                    [item |-> upgraded.stacks[k].item, copies |-> upgraded.stacks[k].copies, marks |-> upgraded.stacks[k].inst.own] ])
              /\ stock' = IF job.consume THEN PaidFor(after, Len(job.targets)) ELSE after

(* Execute: every target's cost is looked at by itself, against the same    *)
(* stock, and is of one kind; every target pays when all are upgraded.      *)
Execute ==
  /\ job # NoJob
  /\ job' = NoJob
  /\ IF ~ValidateFilledSlots(stock, job.filled, job.cost) THEN Finish(FALSE, << >>) /\ UNCHANGED stock
     ELSE LET upgraded == ApplyUpgrade(job.config, OperationStacks)
              held == IF job.config.release THEN Released(stock, job.targets) ELSE stock
              after == Marked(held, upgraded.stacks)
          IN  /\ Finish(upgraded.ok, [ k \in DOMAIN upgraded.stacks |->
                    [item |-> upgraded.stacks[k].item, copies |-> upgraded.stacks[k].copies, marks |-> upgraded.stacks[k].inst.own] ])
              /\ stock' = IF upgraded.ok /\ job.consume THEN PaidFor(after, Len(job.targets)) ELSE after

-----------------------------------------------------------------------------
(* Others who use the storage and its tools meanwhile.                      *)

Others(change) == stock' = change /\ answer' = NoAnswer /\ UNCHANGED job

(* TryConsume: the consumable's own logic runs first and may use the item.  *)
TryConsume(t, within) ==
  /\ Present(stock, t) /\ stock[t].uses >= 1
  /\ Others(RemoveUses(IF within THEN RemoveUses(stock, t, 1) ELSE stock, t, 1))

AddUses(t, clamp) ==
  /\ Present(stock, t) /\ stock[t].uses < MaxUses
  /\ Others([stock EXCEPT ![t].uses = IF clamp /\ @ + 1 > stock[t].max THEN stock[t].max ELSE @ + 1])

ResetUses(t) ==
  /\ Present(stock, t)
  /\ stock[t].uses # stock[t].max /\ Others([stock EXCEPT ![t].uses = stock[t].max])

SetMaxUses(t, max, clamp) ==
  /\ Present(stock, t) /\ max # stock[t].max
  /\ Others([stock EXCEPT ![t].max = max, ![t].uses = IF clamp /\ @ > max THEN max ELSE @])

Take(i) == Present(stock, i) /\ CanRelease(stock, i, 1) /\ Others(Release(stock, i, 1))
Give(i) ==
  /\ stock[i].copies < IF i \in Tools THEN 1 ELSE MaxCopies
  /\ stock[Scrap].copies < MaxCopies
  /\ Others([stock EXCEPT ![i].copies = @ + 1])

Meanwhile ==
  \/ \E t \in Tools, within \in BOOLEAN : TryConsume(t, within)
  \/ \E t \in Regauged, clamp \in BOOLEAN : AddUses(t, clamp)
  \/ \E t \in Regauged, max \in 1 .. MaxUses, clamp \in BOOLEAN : SetMaxUses(t, max, clamp)
  \/ \E t \in Regauged : ResetUses(t)
  \/ \E i \in Items : Take(i)
  \/ \E i \in Items : Give(i)

CostNext ==
  \/ \E r \in Payments, makes \in BOOLEAN : Craft(r.cost, r.filled, r.consume, makes)
  \/ \E targets \in TargetLists, config \in UpgradeConfigs, r \in Payments :
       Upgrade(targets, config, r.cost, r.filled, r.consume)
  \/ Execute
  \/ Meanwhile
CostSpec == CostInit /\ [][CostNext]_costVars

-----------------------------------------------------------------------------

(* A request that fails has cost nothing: no copies, no uses, and, when the *)
(* upgrade works on items where they are with ApplyAll, no mark on an item,  *)
(* whichever targets had already been upgraded.                             *)
FailuresCostNothing ==
  [][answer'.result = "failed" /\ ~(job # NoJob /\ job.config.release) =>
       \A i \in Items :
         /\ stock'[i].copies = stock[i].copies /\ stock'[i].uses = stock[i].uses
         /\ job # NoJob /\ job.config.mutator.kind = "all" => stock'[i].marks = stock[i].marks]_costVars
=============================================================================
