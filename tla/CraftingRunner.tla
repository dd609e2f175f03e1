---------------------------- MODULE CraftingRunner ----------------------------
(***************************************************************************)
(* UFaerieItemCraftingRunner: crafting actions that run, load assets, time  *)
(* out, and answer through a callback, all on the game thread.              *)
(*                                                                         *)
(* A request is one submitted action.  An action is known by its handle,    *)
(* which is drawn at random: a handle in use may be drawn again, and its    *)
(* action is then written over.  The callback of an action runs before the  *)
(* action is removed, and may call the runner, so the calls of the runner   *)
(* that wait for a callback are a stack of frames.                          *)
(***************************************************************************)
EXTENDS Integers, SequencesExt

CONSTANTS
    Requests,      \* the requests that clients submit
    Handles,       \* the values of FMath::Rand() that come up
    NoRequest,     \* no action
    FromCallbacks, \* what callbacks call: "Submit", "Cancel", "CancelAll"
    MaxLoads       \* bound of the loads that one action starts

ASSUME RunnerAssumption ==
    /\ NoRequest \notin Requests
    /\ FromCallbacks \subseteq {"Submit", "Cancel", "CancelAll"}
    /\ MaxLoads \in Nat

VARIABLES
    active,    \* ActiveActions: the request that runs under each handle
    timers,    \* the timeout timers that run, <<handle, request that set it>>
    loads,     \* the loads under way, <<handle, request that can cancel it>>
    started,   \* the number of loads each request has started
    answers,   \* what each request's callback was called with
    displaced, \* requests whose action one of the same handle wrote over or removed
    frames,    \* the calls that wait for a callback to return
    halted     \* an action was used that is not there

vars == <<active, timers, loads, started, answers, displaced, frames, halted>>

Results == {"Failed", "Timeout", "Cancelled", "Succeeded"}

\* FinishActionImpl in its callback: its action, whether that is a copy
\* (CancelAllActions works on copies), and the copies that come after it.
Frame(h, r, copy, rest) == [handle |-> h, request |-> r, copy |-> copy, rest |-> rest]

World ==
    [active |-> active, timers |-> timers, loads |-> loads, started |-> started,
     answers |-> answers, displaced |-> displaced, frames |-> frames, halted |-> halted]

Init ==
    /\ active = [h \in Handles |-> NoRequest]
    /\ timers = {} /\ loads = {}
    /\ started = [r \in Requests |-> 0]
    /\ answers = [r \in Requests |-> <<>>]
    /\ displaced = {}
    /\ frames = <<>>
    /\ halted = FALSE

\* The step that leaves world w behind.
Becomes(w) ==
    /\ active' = w.active /\ timers' = w.timers /\ loads' = w.loads
    /\ started' = w.started /\ answers' = w.answers /\ displaced' = w.displaced
    /\ frames' = w.frames /\ halted' = w.halted

Submitted(r) == r \in displaced \/ answers[r] # <<>> \/ \E h \in Handles : active[h] = r

\* A call comes from the game, or from the callback on top of the stack.
MayCall(name) == frames = <<>> \/ name \in FromCallbacks

-----------------------------------------------------------------------------
(* Finishing an action.                                                     *)

LoadsWithout(ls, h, r) == ls \ {<<h, r>>}

\* Without stacks every result becomes a failure.
Reported(result, made) == IF made THEN result ELSE "Failed"

\* FinishActionImpl, up to its callback.
Finished(w, h, r, copy, rest, result, made) ==
    [active    |-> w.active,
     timers    |-> w.timers \ {<<h, r>>},
     loads     |-> LoadsWithout(w.loads, h, r),
     started   |-> w.started,
     answers   |-> [w.answers EXCEPT ![r] = Append(@, Reported(result, made))],
     displaced |-> w.displaced,
     frames    |-> Append(w.frames, Frame(h, r, copy, rest)),
     halted    |-> w.halted]

\* Mutated: whatever the handle finds is finished.
FinishUnfound(w, h, result, made) == Finished(w, h, w.active[h], FALSE, <<>>, result, made)

FinishAction(w, h, result, made) ==
    IF w.active[h] = NoRequest THEN w
    ELSE Finished(w, h, w.active[h], FALSE, <<>>, result, made)

\* Mutated: the action stays when its callback has returned.
KeptByHash(w, h, r) == w

RemoveByHash(w, h, r) ==
    [active    |-> [w.active EXCEPT ![h] = NoRequest],
     timers    |-> w.timers,
     loads     |-> w.loads,
     started   |-> w.started,
     answers   |-> w.answers,
     displaced |-> w.displaced \cup ({w.active[h]} \ {r, NoRequest}),
     frames    |-> w.frames,
     halted    |-> w.halted]

\* The callback on top of the stack returns: the action is removed by the handle
\* it holds, which is not there to be read if the action is gone already.
CallbackReturns ==
    LET f == Last(frames)
        w == [World EXCEPT !.frames = Front(@)]
        removed == RemoveByHash(w, f.handle, f.request)
    IN  /\ frames # <<>>
        /\ Becomes(IF ~f.copy /\ active[f.handle] # f.request THEN [w EXCEPT !.halted = TRUE]
                   ELSE IF f.rest = <<>> THEN removed
                   ELSE Finished(removed, Head(f.rest)[1], Head(f.rest)[2], TRUE,
                                 Tail(f.rest), "Cancelled", FALSE))

-----------------------------------------------------------------------------
(* Running an action.                                                       *)

\* Mutated: the action is captured, but no timer is set for it.
CapturedUntimed(w, r, h) ==
    [w EXCEPT !.active[h] = r, !.displaced = @ \cup ({w.active[h]} \ {NoRequest})]

\* SubmitCraftingAction_Impl, up to Run.
Captured(w, r, h) ==
    [active    |-> [w.active EXCEPT ![h] = r],
     timers    |-> w.timers \cup {<<h, r>>},
     loads     |-> w.loads,
     started   |-> w.started,
     answers   |-> w.answers,
     displaced |-> w.displaced \cup ({w.active[h]} \ {NoRequest}),
     frames    |-> w.frames,
     halted    |-> w.halted]

\* The action starts a load; of one that it started before it loses the handle.
LoadStarted(w, h) ==
    LET r == w.active[h]
        lost == IF <<h, r>> \in w.loads THEN {<<h, NoRequest>>} ELSE {}
    IN  [active    |-> w.active,
         timers    |-> w.timers,
         loads     |-> w.loads \cup lost \cup {<<h, r>>},
         started   |-> [w.started EXCEPT ![r] = @ + 1],
         answers   |-> w.answers,
         displaced |-> w.displaced,
         frames    |-> w.frames,
         halted    |-> w.halted]

\* LoadDrivers, LoadCheck, Generate, Execute: more to load, or the end.
Proceeds(w, h) ==
    \/ w.started[w.active[h]] < MaxLoads /\ Becomes(LoadStarted(w, h))
    \/ \E result \in {"Succeeded", "Failed"}, made \in BOOLEAN :
          Becomes(FinishAction(w, h, result, made))

\* A recipe action without a recipe does nothing when it runs.
Submit(r, h) ==
    /\ MayCall("Submit")
    /\ ~Submitted(r)
    /\ Becomes(Captured(World, r, h)) \/ Proceeds(Captured(World, r, h), h)

\* A load is done: its delegate looks for the action by its handle.
LoadArrives(h, r) ==
    LET w == [World EXCEPT !.loads = @ \ {<<h, r>>}]
    IN  /\ frames = <<>>
        /\ <<h, r>> \in loads
        /\ IF active[h] = NoRequest THEN Becomes([w EXCEPT !.halted = TRUE]) ELSE Proceeds(w, h)

TimerFires(h, r) ==
    /\ frames = <<>>
    /\ <<h, r>> \in timers
    /\ Becomes(FinishAction([World EXCEPT !.timers = @ \ {<<h, r>>}], h, "Timeout", FALSE))

CancelCraftingAction(h) ==
    /\ MayCall("Cancel")
    /\ Becomes(FinishAction(World, h, "Cancelled", FALSE))

CancelAllActions ==
    /\ MayCall("CancelAll")
    /\ \E copies \in SetToSeqs({<<h, active[h]>> : h \in {g \in Handles : active[g] # NoRequest}}) :
          /\ copies # <<>>
          /\ Becomes(Finished(World, copies[1][1], copies[1][2], TRUE, Tail(copies),
                              "Cancelled", FALSE))

-----------------------------------------------------------------------------
Pending == Handles \X (Requests \cup {NoRequest})

Next ==
    /\ ~halted
    /\ \/ \E r \in Requests, h \in Handles : Submit(r, h)
       \/ \E p \in Pending : LoadArrives(p[1], p[2]) \/ TimerFires(p[1], p[2])
       \/ \E h \in Handles : CancelCraftingAction(h)
       \/ CancelAllActions
       \/ CallbackReturns

\* The engine ticks its timers, and callbacks return.
Fairness ==
    /\ WF_vars(~halted /\ CallbackReturns)
    /\ \A p \in Pending : WF_vars(~halted /\ TimerFires(p[1], p[2]))

Spec == Init /\ [][Next]_vars /\ Fairness

-----------------------------------------------------------------------------
(* Properties.                                                              *)

\* The type invariant: an answer is a result, a frame is of an action.
TypeOK ==
    /\ active \in [Handles -> Requests \cup {NoRequest}]
    /\ timers \subseteq Handles \X Requests
    /\ loads \subseteq Pending
    /\ started \in [Requests -> 0..MaxLoads]
    /\ \A r \in Requests : answers[r] \in Seq(Results)
    /\ displaced \subseteq Requests
    /\ \A n \in DOMAIN frames : frames[n].request \in Requests /\ frames[n].handle \in Handles

\* The runner uses an action that is not there only when handles coincide.
HaltsOnlyOnCollision == halted => displaced # {}

\* A request is answered at most once (OnCompletedCallback).
Promise == INSTANCE CraftingAnswers WITH
    state <- [r \in Requests |->
                IF answers[r] # <<>> THEN answers[r]
                ELSE IF r \in displaced THEN <<"Displaced">>
                ELSE IF Submitted(r) THEN <<"Running">> ELSE <<"New">>]

AnsweredOnce == Promise!Spec

\* An action that runs is answered, unless one of the same handle comes over it:
\* by itself, or when its time is up ("It must finish before the timer runs out").
EveryRequestAnswered ==
    \A r \in Requests : Submitted(r) ~> (answers[r] # <<>> \/ r \in displaced \/ halted)

\* When CancelAllActions has finished, no action is left (its ensure).
CancelAllEmpties ==
    [][CallbackReturns /\ Last(frames).copy /\ Last(frames).rest = <<>>
       => active' = [h \in Handles |-> NoRequest]]_vars
=============================================================================
