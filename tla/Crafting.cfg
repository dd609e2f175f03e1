\* Requests whose handles may coincide, and callbacks that submit more of them.
CONSTANTS
    Requests = {r1, r2, r3}
    Handles = {h1, h2}
    NoRequest = NoRequest
    FromCallbacks = {"Submit"}
    MaxLoads = 2
SPECIFICATION Spec
CHECK_DEADLOCK FALSE
PROPERTIES
    AnsweredOnce
    EveryRequestAnswered
