\* Every loop over every small entry; then two entries that come, change and go
\* on the server while updates to a client are sent, lost and received.  The
\* call ends and the bounds of the replication are reached: deadlock.
CONSTANTS
    SomeLimits <- FourLimits
    Copies <- SomeCopies
    Sizes <- SomeSizes
    Requests <- SomeRequests
    EntryKeys = {1, 2}
    SomeStacks <- OneStackOrTwo
    Proxied <- SecondStacks
    MaxArrayKey = 4
    MaxInFlight = 2
    MaxLosses = 2
    MutableClasses <- MutableTokens
    Ancestors <- TokenAncestors
    TagsAbove <- ItemTags
    Rules <- FilterRules
    RuleDepth = 3
    SomeViews <- FilterViews
    SomeBatches <- FilterBatches
    Lists <- WalkedLists
    Predicates <- WalkPredicates
    IsClass <- TokenAncestors
    MaxCalls = 3
SPECIFICATION MCSpec
CHECK_DEADLOCK FALSE
INVARIANTS
    LoopsGiveClosedForms
    ClientsFollowServer
    AdviceIsTrue
    EmitsWhatWasAsked
