----------------------------- MODULE ItemFilters -----------------------------
(***************************************************************************)
(* The filters of items: the rules assets are built from (subclasses of     *)
(* UFaerieItemDataFilter, templates, and the extension and the query that   *)
(* ask them), with what a rule tells the editor beside its answer.          *)
(*                                                                         *)
(* An item is [tokens, instance, always, limit, tags, references]: the      *)
(* classes of its tokens; its InstanceMutability and AlwaysTokenMutable     *)
(* flags; the value of its stack limiter; the tags of its tag token; and    *)
(* the classes of the tokens of the item it refers to by default.  A rule   *)
(* is a record of its kind and what that kind of rule is configured with.   *)
(***************************************************************************)
EXTENDS Integers, Sequences, FiniteSets

CONSTANTS
    MutableClasses, \* of tokens: what IsMutable says of the class's default
    Ancestors,      \* class -> the classes it IsA, itself included
    TagsAbove,      \* tag -> the tags it matches, itself included
    Rules,          \* the rules that are asked, and those in them
    RuleDepth,      \* bound: how deep rules nest
    SomeViews,      \* the views they are asked about: [item, copies]
    SomeBatches     \* the sequences of views that are added at once

NoRule == [kind |-> "none"]

-----------------------------------------------------------------------------
(* What rules are configured with; a rule may be missing (NoRule) where one  *)
(* is tested for.                                                           *)

CompareOperators == {"Less", "LessOrEqual", "Greater", "GreaterOrEqual", "Equal", "NotEqual"}
LimitOperators == CompareOperators \cup {"HasLimit", "HasNoLimit"}

LogicConfig ==
    [Literal |-> {}, Or |-> {"rules"}, And |-> {"rules"}, Not |-> {"rule"},
     Condition |-> {"condition", "then", "otherwise"},
     Ternary |-> {"condition", "then", "otherwise"}]
ItemConfig ==
    [Mutability |-> {"mutable"}, MatchTemplate |-> {"pattern"}, HasTokens |-> {"classes", "references"},
     Copies |-> {"op", "amount"}, StackLimit |-> {"op", "amount"}, TagAny |-> {"tags"}, TagAll |-> {"tags"}]

IsConfigured(rule) ==
    \/ rule.kind \in DOMAIN LogicConfig /\ DOMAIN rule = {"kind"} \cup LogicConfig[rule.kind]
    \/ rule.kind \in DOMAIN ItemConfig /\ DOMAIN rule = {"kind"} \cup ItemConfig[rule.kind]

\* The rules in a rule.
ChildrenOf(rule) ==
    (CASE rule.kind \in {"Or", "And"} -> { rule.rules[k] : k \in DOMAIN rule.rules }
       [] rule.kind = "Not" -> {rule.rule}
       [] rule.kind = "Condition" -> {rule.condition, rule.then}
       [] rule.kind = "Ternary" -> {rule.condition, rule.then, rule.otherwise}
       [] rule.kind = "MatchTemplate" -> {rule.pattern}
       [] OTHER -> {}) \ {NoRule}

\* The rules that lie so many rules deep.
Deep[d \in 0 .. RuleDepth] == IF d = 0 THEN Rules ELSE UNION { ChildrenOf(rule) : rule \in Deep[d - 1] }

ASSUME ItemFiltersAssumption ==
    /\ RuleDepth \in Nat /\ Deep[RuleDepth] = {}
    /\ NoRule \notin Rules /\ \A rule \in Rules : IsConfigured(rule) /\ ChildrenOf(rule) \subseteq Rules
    /\ \A rule \in Rules :
         /\ rule.kind \in {"Or", "And"} => rule.rules \in Seq(Rules)
         /\ rule.kind = "Not" => rule.rule \in Rules
         /\ rule.kind = "Copies" => rule.op \in CompareOperators /\ rule.amount \in Nat \ {0}
         /\ rule.kind = "StackLimit" => rule.op \in LimitOperators /\ rule.amount \in Nat \ {0}
    /\ \A c \in DOMAIN Ancestors : c \in Ancestors[c]
    /\ \A t \in DOMAIN TagsAbove : t \in TagsAbove[t]
    /\ \A v \in SomeViews : v.copies \in Nat \ {0}
    /\ \A views \in SomeBatches : views # <<>> /\ views \in Seq({ views[k] : k \in DOMAIN views })

-----------------------------------------------------------------------------
NoTags == {}
NoLimit == 0  \* a limit of 0 is none (UnlimitedStack is another number)

VARIABLES
    asked,   \* the rule and the view last asked about
    passed,  \* what Exec answered
    logged,  \* what ExecWithLog answered, and whether it gave a reason
    status   \* what GetMutabilityStatus says of the rule

filterVars == <<asked, passed, logged, status>>

-----------------------------------------------------------------------------
(* What rules look at.                                                      *)

CanMutate(item) ==
    /\ item.instance
    /\ item.always \/ \E k \in DOMAIN item.tokens : item.tokens[k] \in MutableClasses

\* UFaerieStackLimiterToken::GetItemStackLimit
StackLimitOf(item) == IF CanMutate(item) THEN 1 ELSE item.limit

Compare(op, a, b) ==
    \/ op \in {"Less", "LessOrEqual", "NotEqual"} /\ a < b
    \/ op \in {"Equal", "LessOrEqual", "GreaterOrEqual"} /\ a = b
    \/ op \in {"Greater", "GreaterOrEqual", "NotEqual"} /\ a > b

CompareLimit(op, limit, amount) ==
    \/ op = "HasLimit" /\ limit # NoLimit
    \/ op = "HasNoLimit" /\ limit = NoLimit
    \/ limit = NoLimit /\ op \in {"Greater", "GreaterOrEqual", "NotEqual"}
    \/ limit # NoLimit /\ op \in CompareOperators /\ Compare(op, limit, amount)

\* The classes left when those of the item's tokens, and of the tokens it
\* refers to, are crossed off.
MissingClasses(rule, item) ==
    LET owned == { c \in rule.classes :
                     \E k \in DOMAIN item.tokens : c \in Ancestors[item.tokens[k]] }
        referenced == { c \in rule.classes :
                          rule.references /\ \E d \in item.references : c \in Ancestors[d] }
    IN  rule.classes \ (owned \cup referenced)

HasTag(tags, t) == \E x \in tags : t \in TagsAbove[x]

-----------------------------------------------------------------------------
(* Exec, ExecWithLog and GetMutabilityStatus.                               *)

\* Exec of each kind of rule; `below' are the answers of the rules in it.
Answered(below, rule, view) ==
    LET Branch(r) == r # NoRule /\ below[r]
    IN CASE rule.kind = "Literal" -> TRUE
         [] rule.kind = "Or" -> \E k \in DOMAIN rule.rules : below[rule.rules[k]]
         [] rule.kind = "And" -> \A k \in DOMAIN rule.rules : below[rule.rules[k]]
         [] rule.kind = "Condition" ->
              /\ rule.condition # NoRule
              /\ IF below[rule.condition] THEN Branch(rule.then) ELSE rule.otherwise
         [] rule.kind = "Ternary" ->
              /\ rule.condition # NoRule
              /\ IF below[rule.condition] THEN Branch(rule.then) ELSE Branch(rule.otherwise)
         [] rule.kind = "Not" -> ~below[rule.rule]
         [] rule.kind = "Mutability" -> CanMutate(view.item) = rule.mutable
         [] rule.kind = "MatchTemplate" -> Branch(rule.pattern)
         [] rule.kind = "HasTokens" -> MissingClasses(rule, view.item) = {}
         [] rule.kind = "Copies" -> Compare(rule.op, view.copies, rule.amount)
         [] rule.kind = "StackLimit" -> CompareLimit(rule.op, StackLimitOf(view.item), rule.amount)
         [] rule.kind = "TagAny" -> \E t \in rule.tags : HasTag(view.item.tags, t)
         [] rule.kind = "TagAll" ->
              view.item.tags # NoTags /\ \A t \in rule.tags : HasTag(view.item.tags, t)

\* The answers of all rules that nest no deeper than so many levels.
Execs(view) ==
    LET upTo[d \in 0 .. RuleDepth] ==
          IF d = 0 THEN [ rule \in Rules |-> FALSE ]
          ELSE LET less == upTo[d - 1] IN [ rule \in Rules |-> Answered(less, rule, view) ]
    IN  upTo

Exec(rule, view) == Execs(view)[RuleDepth][rule]

\* An alternative is logged like a conjunction: up to the first rule that fails.
LogOfRules(log) ==
    LET failed == { k \in DOMAIN log : ~log[k].passed }
    IN  [passed |-> failed = {},
         reason |-> \E k \in failed : log[k].reason /\ \A j \in failed : k <= j]

\* TryMatchWithDescriptions: a failure without a reason is given one.
LogOfPattern(log) == [passed |-> log.passed, reason |-> ~log.passed]

LogOfAnswer(answer) == [passed |-> answer, reason |-> ~answer]

\* ExecWithLog of each kind of rule.
Logged(below, exec, rule) ==
    CASE rule.kind \in {"Or", "And"} -> LogOfRules([ k \in DOMAIN rule.rules |-> below[rule.rules[k]] ])
      [] rule.kind = "MatchTemplate" ->
           IF rule.pattern = NoRule THEN [passed |-> FALSE, reason |-> FALSE]
           ELSE LogOfPattern(below[rule.pattern])
      [] OTHER -> LogOfAnswer(exec[rule])

Logs(view) ==
    LET upTo[d \in 0 .. RuleDepth] ==
          IF d = 0 THEN [ rule \in Rules |-> LogOfAnswer(FALSE) ]
          ELSE LET less == upTo[d - 1] IN [ rule \in Rules |-> Logged(less, Execs(view)[d], rule) ]
    IN  upTo

ExecWithLog(rule, view) == Logs(view)[RuleDepth][rule]

OnlyStacksOrSingles(op, amount) ==
    \/ op = "Greater"
    \/ op \in {"GreaterOrEqual", "Equal"} /\ amount >= 1
    \/ op = "NotEqual" /\ amount = 1

OnlyStacks(op, amount) ==
    \/ op = "Greater"
    \/ op \in {"GreaterOrEqual", "Equal"} /\ amount > 1
    \/ op = "NotEqual" /\ amount = 1

\* What a combination of rules says once one of them says something.
AnyKnown(statuses) == IF statuses \subseteq {"Unknown"} THEN "Unknown" ELSE "KnownMutable"

\* GetMutabilityStatus of each kind of rule.
Advised(below, rule) ==
    LET Known(b) == IF b THEN "KnownMutable" ELSE "KnownImmutable"
    IN CASE rule.kind \in {"Or", "And"} ->
              AnyKnown({ below[rule.rules[k]] : k \in DOMAIN rule.rules })
         [] rule.kind = "Not" -> below[rule.rule]
         [] rule.kind = "Mutability" -> Known(rule.mutable)
         [] rule.kind = "MatchTemplate" /\ rule.pattern # NoRule -> below[rule.pattern]
         [] rule.kind = "HasTokens" /\ rule.classes \cap MutableClasses # {} -> Known(TRUE)
         [] rule.kind = "Copies" /\ OnlyStacks(rule.op, rule.amount) -> Known(FALSE)
         [] rule.kind = "StackLimit"
              /\ (OnlyStacks(rule.op, rule.amount) \/ rule.op = "HasNoLimit") -> Known(FALSE)
         [] OTHER -> "Unknown"

Statuses ==
    LET upTo[d \in 0 .. RuleDepth] ==
          IF d = 0 THEN [ rule \in Rules |-> "Unknown" ]
          ELSE LET less == upTo[d - 1] IN [ rule \in Rules |-> Advised(less, rule) ]
    IN  upTo

MutabilityStatus(rule) == Statuses[RuleDepth][rule]

-----------------------------------------------------------------------------
(* Who asks: UInventoryContentFilterExtension, of all that is added at       *)
(* once; an equipment query, of the items in the slots of some tags.        *)

AllowsAddition(filter, views) ==
    IF filter = NoRule THEN "NoExplicitResponse"
    ELSE IF \A k \in DOMAIN views : Exec(filter, views[k]) THEN "Allowed" ELSE "Disallowed"

\* The first of a sequence that is so, 0 when none is.
First(seq, IsSo(_)) ==
    LET those == { k \in DOMAIN seq : IsSo(seq[k]) }
    IN  IF those = {} THEN 0 ELSE CHOOSE k \in those : \A j \in those : k <= j

\* The slot that passes a query; empty slots are NoRule.
EquipmentQuery(slots, filter, inverted) ==
    First(slots, LAMBDA view : view # NoRule /\ Exec(filter, view) # inverted)

FilterInit ==
    /\ asked = [rule |-> NoRule, view |-> NoRule]
    /\ passed = FALSE /\ logged = [passed |-> FALSE, reason |-> FALSE] /\ status = "Unknown"

Answer(rule, view, answer) ==
    /\ asked' = [rule |-> rule, view |-> view]
    /\ passed' = answer
    /\ logged' = ExecWithLog(rule, view)
    /\ status' = MutabilityStatus(rule)

Ask(rule, view) == Answer(rule, view, Exec(rule, view))

\* An addition is allowed once the last stack is; the first that fails ends it.
AskAddition(rule, views) ==
    LET failing == First(views, LAMBDA view : ~Exec(rule, view))
    IN  Answer(rule, views[IF failing = 0 THEN Len(views) ELSE failing],
               AllowsAddition(rule, views) = "Allowed")

AskSlots(rule, slots, inverted) ==
    LET k == EquipmentQuery(slots, rule, inverted)
    IN  k # 0 /\ Answer(rule, slots[k], ~inverted)

FilterNext ==
    \/ \E rule \in Rules, view \in SomeViews : Ask(rule, view)
    \/ \E rule \in Rules, views \in SomeBatches :
          \/ AskAddition(rule, views)
          \/ \E inverted \in BOOLEAN : AskSlots(rule, views, inverted)
FilterSpec == FilterInit /\ [][FilterNext]_filterVars

-----------------------------------------------------------------------------
(* What should hold.                                                        *)

\* The rules whose advice can be relied on.  A log goes wrong below an
\* alternative, and says nothing of a template that is missing; a status is
\* wrong when it is passed up through And and Or (known to be immutable becomes
\* mutable) or through Not, and when a mutable token may be another item's, a
\* reference.
Reliable(below, rule) ==
    [logs |-> CASE rule.kind = "Or" -> FALSE
                [] rule.kind = "And" -> \A k \in DOMAIN rule.rules : below[rule.rules[k]].logs
                [] rule.kind = "MatchTemplate" -> rule.pattern # NoRule /\ below[rule.pattern].logs
                [] OTHER -> TRUE,
     advises |-> CASE rule.kind \in {"Or", "And", "Not"} -> FALSE
                   [] rule.kind = "MatchTemplate" -> rule.pattern = NoRule \/ below[rule.pattern].advises
                   [] rule.kind = "HasTokens" -> ~rule.references
                   [] OTHER -> TRUE]

Reliables ==
    LET upTo[d \in 0 .. RuleDepth] ==
          IF d = 0 THEN [ rule \in Rules |-> [logs |-> TRUE, advises |-> TRUE] ]
          ELSE LET less == upTo[d - 1] IN [ rule \in Rules |-> Reliable(less, rule) ]
    IN  upTo

LogsWell(rule) == Reliables[RuleDepth][rule].logs
AdvisesWell(rule) == Reliables[RuleDepth][rule].advises

\* Beside its answer a rule gives a log, for the validation of assets, and a
\* mutability status, from which the editor concludes what kind of item can
\* get past it; these are computed by code of their own.  Both are true of
\* every rule but those they are known to be wrong about: the log agrees with
\* the answer and names a reason for a refusal, and a rule that is known to
\* pass only mutable items, or only immutable ones, passes no other instance.
AdviceIsTrue ==
    LET rule == asked.rule
        item == asked.view.item
    IN  rule # NoRule =>
          /\ LogsWell(rule) => /\ logged.passed = passed
                               /\ ~passed => logged.reason
          /\ AdvisesWell(rule) /\ passed /\ item.instance =>
                /\ status = "KnownMutable" => CanMutate(item)
                /\ status = "KnownImmutable" => ~CanMutate(item)
=============================================================================
