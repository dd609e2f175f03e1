------------------------ MODULE CraftingRunner_proofs ------------------------
(* What the crafting runner's calls do to actions, frames and answers.  A    *)
(* call is a chain of operators on the runner's world, so each lemma says    *)
(* what one link keeps.  Then what requests cost (CraftingCosts), and what   *)
(* generation makes of what was asked (ItemGeneration).                      *)
EXTENDS CraftingRunner, CraftingCosts, ItemGeneration, FiniteSetTheorems, WellFoundedInduction, TLAPS

-----------------------------------------------------------------------------
(* Types.                                                                   *)

Copies == Handles \X Requests
Frames == [handle : Handles, request : Requests, copy : BOOLEAN, rest : Seq(Copies)]

IsWorld(w) ==
    /\ w = [active |-> w.active, timers |-> w.timers, loads |-> w.loads, started |-> w.started,
            answers |-> w.answers, displaced |-> w.displaced, frames |-> w.frames,
            halted |-> w.halted]
    /\ w.active \in [Handles -> Requests \cup {NoRequest}]
    /\ w.timers \subseteq Handles \X Requests
    /\ w.loads \subseteq Pending
    /\ w.started \in [Requests -> 0..MaxLoads]
    /\ w.answers \in [Requests -> Seq(Results)]
    /\ w.displaced \subseteq Requests
    /\ w.frames \in Seq(Frames)
    /\ w.halted \in BOOLEAN

Typed == IsWorld(World)

\* What FinishActionImpl reports is a result.
LEMMA ReportedResult ==
    ASSUME NEW result \in Results, NEW made
    PROVE  Reported(result, made) \in Results
BY DEF Reported, Results

\* FinishActionImpl in its callback.
LEMMA FinishedWorld ==
    ASSUME NEW w, IsWorld(w), NEW h \in Handles, NEW r \in Requests, NEW copy \in BOOLEAN,
           NEW rest \in Seq(Copies), NEW result \in Results, NEW made
    PROVE  IsWorld(Finished(w, h, r, copy, rest, result, made))
<1> DEFINE v == Finished(w, h, r, copy, rest, result, made)
           a == Reported(result, made)
<1>1. a \in Results
  BY ReportedResult
<1> HIDE DEF a
<1>2. v.answers \in [Requests -> Seq(Results)]
  <2>1. Append(w.answers[r], a) \in Seq(Results)
    BY <1>1 DEF IsWorld
  <2>2. v.answers = [w.answers EXCEPT ![r] = Append(@, a)]
    BY DEF Finished, a
  <2> QED
    BY <2>1, <2>2 DEF IsWorld
<1>3. Frame(h, r, copy, rest) \in Frames
  BY DEF Frame, Frames
<1>4. v.frames \in Seq(Frames)
  BY <1>3 DEF Finished, IsWorld
<1>5. /\ v.active = w.active /\ v.timers \subseteq w.timers /\ v.loads \subseteq w.loads
      /\ v.started = w.started /\ v.displaced = w.displaced /\ v.halted = w.halted
  BY DEF Finished, LoadsWithout
<1>6. v = [active |-> v.active, timers |-> v.timers, loads |-> v.loads, started |-> v.started,
           answers |-> v.answers, displaced |-> v.displaced, frames |-> v.frames,
           halted |-> v.halted]
  BY DEF Finished
<1> HIDE DEF v
<1>7. IsWorld(v)
  BY <1>2, <1>4, <1>5, <1>6 DEF IsWorld
<1> QED
  BY <1>7 DEF v

\* FinishActionImpl of what the handle finds.
LEMMA FinishActionWorld ==
    ASSUME NEW w, IsWorld(w), NEW h \in Handles, NEW result \in Results, NEW made
    PROVE  IsWorld(FinishAction(w, h, result, made))
<1>1. CASE w.active[h] = NoRequest
  BY <1>1 DEF FinishAction
<1>2. CASE w.active[h] # NoRequest
  <2>1. w.active[h] \in Requests
    BY <1>2 DEF IsWorld
  <2>2. FinishAction(w, h, result, made) = Finished(w, h, w.active[h], FALSE, <<>>, result, made)
    BY <1>2 DEF FinishAction
  <2>3. <<>> \in Seq(Copies)
    OBVIOUS
  <2> QED
    BY <2>1, <2>2, <2>3, FinishedWorld
<1> QED
  BY <1>1, <1>2

\* RemoveByHash.
LEMMA RemoveByHashWorld ==
    ASSUME NEW w, IsWorld(w), NEW h \in Handles, NEW r
    PROVE  IsWorld(RemoveByHash(w, h, r))
<1> DEFINE v == RemoveByHash(w, h, r)
<1>1. v.active \in [Handles -> Requests \cup {NoRequest}] /\ v.displaced \subseteq Requests
  BY DEF RemoveByHash, IsWorld
<1>2. /\ v.timers = w.timers /\ v.loads = w.loads /\ v.started = w.started
      /\ v.answers = w.answers /\ v.frames = w.frames /\ v.halted = w.halted
  BY DEF RemoveByHash
<1>3. v = [active |-> v.active, timers |-> v.timers, loads |-> v.loads, started |-> v.started,
           answers |-> v.answers, displaced |-> v.displaced, frames |-> v.frames,
           halted |-> v.halted]
  BY DEF RemoveByHash
<1> HIDE DEF v
<1>4. IsWorld(v)
  BY <1>1, <1>2, <1>3 DEF IsWorld
<1> QED
  BY <1>4 DEF v

\* SubmitCraftingAction_Impl.
LEMMA CapturedWorld ==
    ASSUME NEW w, IsWorld(w), NEW r \in Requests, NEW h \in Handles
    PROVE  IsWorld(Captured(w, r, h)) /\ Captured(w, r, h).active[h] = r
<1> DEFINE v == Captured(w, r, h)
<1>1. /\ v.active \in [Handles -> Requests \cup {NoRequest}] /\ v.active[h] = r
      /\ v.displaced \subseteq Requests
      /\ v.timers \subseteq Handles \X Requests
  BY DEF Captured, IsWorld
<1>2. /\ v.loads = w.loads /\ v.started = w.started
      /\ v.answers = w.answers /\ v.frames = w.frames /\ v.halted = w.halted
  BY DEF Captured
<1>3. v = [active |-> v.active, timers |-> v.timers, loads |-> v.loads, started |-> v.started,
           answers |-> v.answers, displaced |-> v.displaced, frames |-> v.frames,
           halted |-> v.halted]
  BY DEF Captured
<1> HIDE DEF v
<1>4. IsWorld(v)
  BY <1>1, <1>2, <1>3 DEF IsWorld
<1> QED
  BY <1>1, <1>4 DEF v

\* A load is started.
LEMMA LoadStartedWorld ==
    ASSUME NEW w, IsWorld(w), NEW h \in Handles, w.active[h] \in Requests,
           w.started[w.active[h]] < MaxLoads
    PROVE  IsWorld(LoadStarted(w, h))
<1> DEFINE v == LoadStarted(w, h)
           r == w.active[h]
<1>1. v.started = [w.started EXCEPT ![r] = @ + 1]
  BY DEF LoadStarted
<1>2. v.started \in [Requests -> 0..MaxLoads]
  BY <1>1, RunnerAssumption DEF IsWorld
<1>3. v.loads \subseteq Pending
  BY DEF LoadStarted, IsWorld, Pending
<1>4. /\ v.active = w.active /\ v.timers = w.timers /\ v.displaced = w.displaced
      /\ v.answers = w.answers /\ v.frames = w.frames /\ v.halted = w.halted
  BY DEF LoadStarted
<1>5. v = [active |-> v.active, timers |-> v.timers, loads |-> v.loads, started |-> v.started,
           answers |-> v.answers, displaced |-> v.displaced, frames |-> v.frames,
           halted |-> v.halted]
  BY DEF LoadStarted
<1> HIDE DEF v
<1>6. IsWorld(v)
  BY <1>2, <1>3, <1>4, <1>5 DEF IsWorld
<1> QED
  BY <1>6 DEF v

\* The world after a load, and after a timer, is gone from the list.
Unloaded(p) == [World EXCEPT !.loads = @ \ {p}]
Untimed(p) == [World EXCEPT !.timers = @ \ {p}]

\* The frame on top is gone, and the action it was for.
Popped == [World EXCEPT !.frames = Front(@)]
Stopped(w) == [w EXCEPT !.halted = TRUE]

\* What is left when the last of some frames is gone.
LEMMA FrontFrames ==
    ASSUME NEW S, NEW fs \in Seq(S), fs # <<>>
    PROVE  /\ Front(fs) \in Seq(S) /\ Last(fs) \in S /\ Last(fs) = fs[Len(fs)]
           /\ Len(fs) \in DOMAIN fs /\ Len(Front(fs)) = Len(fs) - 1
           /\ \A n \in DOMAIN Front(fs) : n \in DOMAIN fs /\ n # Len(fs) /\ Front(fs)[n] = fs[n]
           /\ \A n \in DOMAIN fs : n # Len(fs) => n \in DOMAIN Front(fs)
<1>1. Front(fs) = SubSeq(fs, 1, Len(fs) - 1) /\ Last(fs) = fs[Len(fs)]
  BY DEF Front, Last
<1>2. Len(fs) \in Nat \ {0} /\ DOMAIN fs = 1..Len(fs) /\ fs \in [1..Len(fs) -> S]
  OBVIOUS
<1> DEFINE n == Len(fs)
           front == SubSeq(fs, 1, n - 1)
<1>3. n \in DOMAIN fs /\ fs[n] \in S
  BY <1>2
<1>4. front \in Seq(S) /\ Len(front) = n - 1 /\ DOMAIN front = 1..(n - 1)
  BY <1>2
<1>5. \A m \in 1..(n - 1) : front[m] = fs[m]
  BY <1>2
<1> HIDE DEF n, front
<1>6. n \in Nat \ {0} /\ DOMAIN fs = 1..n
  BY <1>2 DEF n
<1>7. /\ \A m \in DOMAIN front : m \in DOMAIN fs /\ m # n /\ front[m] = fs[m]
      /\ \A m \in DOMAIN fs : m # n => m \in DOMAIN front
  BY <1>4, <1>5, <1>6
<1> QED
  BY <1>1, <1>3, <1>4, <1>7 DEF front, n

\* The worlds that the steps change first.
LEMMA ChangedWorlds ==
    ASSUME Typed
    PROVE  /\ \A p : IsWorld(Unloaded(p)) /\ IsWorld(Untimed(p))
           /\ frames # <<>> => IsWorld(Popped)
           /\ \A w : IsWorld(w) => IsWorld(Stopped(w))
<1>1. ASSUME NEW p PROVE IsWorld(Unloaded(p)) /\ IsWorld(Untimed(p))
  <2>1. Unloaded(p) = [active |-> active, timers |-> timers, loads |-> loads \ {p},
                       started |-> started, answers |-> answers, displaced |-> displaced,
                       frames |-> frames, halted |-> halted]
    BY DEF Unloaded, World
  <2>2. Untimed(p) = [active |-> active, timers |-> timers \ {p}, loads |-> loads,
                      started |-> started, answers |-> answers, displaced |-> displaced,
                      frames |-> frames, halted |-> halted]
    BY DEF Untimed, World
  <2> HIDE DEF Frames
  <2> QED
    BY <2>1, <2>2 DEF World, Typed, IsWorld
<1>2. ASSUME frames # <<>> PROVE IsWorld(Popped)
  <2>1. Front(frames) \in Seq(Frames)
    BY <1>2, FrontFrames DEF Typed, IsWorld, World
  <2>2. Popped = [active |-> active, timers |-> timers, loads |-> loads,
                  started |-> started, answers |-> answers, displaced |-> displaced,
                  frames |-> Front(frames), halted |-> halted]
    BY DEF Popped, World
  <2> HIDE DEF Frames
  <2> QED
    BY <2>1, <2>2 DEF World, Typed, IsWorld
<1>3. ASSUME NEW w, IsWorld(w) PROVE IsWorld(Stopped(w))
  <2> DEFINE v == Stopped(w)
  <2>1. v = [active |-> w.active, timers |-> w.timers, loads |-> w.loads,
             started |-> w.started, answers |-> w.answers, displaced |-> w.displaced,
             frames |-> w.frames, halted |-> TRUE]
    <3>1. w = [active |-> w.active, timers |-> w.timers, loads |-> w.loads,
               started |-> w.started, answers |-> w.answers, displaced |-> w.displaced,
               frames |-> w.frames, halted |-> w.halted]
      BY <1>3 DEF IsWorld
    <3>2. v = [w EXCEPT !.halted = TRUE]
      BY DEF Stopped
    <3> HIDE DEF v
    <3> QED
      BY ONLY <3>1, <3>2
  <2> HIDE DEF v
  <2>2. IsWorld(v)
    BY <1>3, <2>1 DEF IsWorld
  <2> QED
    BY <2>2 DEF v
<1> QED
  BY <1>1, <1>2, <1>3

\* A step that leaves a world behind leaves a typed state.
LEMMA BecomesTyped ==
    ASSUME NEW w, IsWorld(w), Becomes(w)
    PROVE  Typed' /\ World' = w
<1>1. World' = [active |-> w.active, timers |-> w.timers, loads |-> w.loads,
                started |-> w.started, answers |-> w.answers, displaced |-> w.displaced,
                frames |-> w.frames, halted |-> w.halted]
  BY DEF Becomes, World
<1>2. World' = w
  BY <1>1 DEF IsWorld
<1>3. IsWorld(World')
  BY <1>2
<1> QED
  BY <1>2, <1>3 DEF Typed, IsWorld

\* What goes on with an action: more is loaded, or it is finished.
LEMMA ProceedsWorld ==
    ASSUME NEW w, IsWorld(w), NEW h \in Handles, w.active[h] \in Requests, Proceeds(w, h)
    PROVE  \E v : /\ IsWorld(v) /\ Becomes(v)
                  /\ \/ v = LoadStarted(w, h)
                     \/ \E result \in Results, made \in BOOLEAN : v = FinishAction(w, h, result, made)
<1>1. CASE w.started[w.active[h]] < MaxLoads /\ Becomes(LoadStarted(w, h))
  <2>1. IsWorld(LoadStarted(w, h))
    BY <1>1, LoadStartedWorld
  <2> QED
    BY <1>1, <2>1
<1>2. ASSUME NEW result \in {"Succeeded", "Failed"}, NEW made \in BOOLEAN,
             Becomes(FinishAction(w, h, result, made))
      PROVE  \E v : /\ IsWorld(v) /\ Becomes(v)
                    /\ \E res \in Results, m \in BOOLEAN : v = FinishAction(w, h, res, m)
  <2>1. result \in Results
    BY DEF Results
  <2>2. IsWorld(FinishAction(w, h, result, made))
    BY <2>1, FinishActionWorld
  <2> QED
    BY <1>2, <2>1, <2>2
<1> QED
  BY <1>1, <1>2 DEF Proceeds

\* The actions that run, each with its handle, in some order.
Running == {<<h, active[h]>> : h \in {g \in Handles : active[g] # NoRequest}}

LEMMA CopiesOfActions ==
    ASSUME Typed, IsFiniteSet(Handles), NEW copies \in SetToSeqs(Running)
    PROVE  /\ copies \in Seq(Copies)
           /\ \A m \in DOMAIN copies : /\ copies[m][1] \in Handles /\ copies[m][2] \in Requests
                                       /\ active[copies[m][1]] = copies[m][2]
           /\ \A l, m \in DOMAIN copies : copies[l] = copies[m] => l = m
<1> DEFINE G == {g \in Handles : active[g] # NoRequest}
<1>1. IsFiniteSet(Running)
  <2>1. IsFiniteSet(G)
    BY FS_Subset
  <2> DEFINE named == [h \in G |-> <<h, active[h]>>]
  <2>2. named \in Surjection(G, Running)
    BY DEF Surjection, Running
  <2> HIDE DEF G, named
  <2> QED
    BY <2>1, <2>2, FS_Surjection
<1>2. Cardinality(Running) \in Nat
  BY <1>1, FS_CardinalityType
<1>3. /\ copies \in [1..Cardinality(Running) -> Running]
      /\ \A i, j \in 1..Cardinality(Running) : copies[i] = copies[j] => i = j
  BY DEF SetToSeqs
<1>4. \A p \in Running : p \in Copies /\ p[1] \in Handles /\ p[2] \in Requests /\ active[p[1]] = p[2]
  <2>1. active \in [Handles -> Requests \cup {NoRequest}]
    BY DEF Typed, IsWorld, World
  <2>2. ASSUME NEW h \in G PROVE active[h] \in Requests
    BY <2>1
  <2> QED
    BY <2>2 DEF Running, Copies
<1> HIDE DEF Copies
<1> DEFINE K == Cardinality(Running)
<1>5. K \in Nat /\ copies \in [1..K -> Running]
  BY <1>2, <1>3
<1>6. \A i, j \in 1..K : copies[i] = copies[j] => i = j
  BY <1>3
<1> HIDE DEF K
<1>7. DOMAIN copies = 1..K /\ copies \in [1..K -> Copies]
  BY <1>4, <1>5
<1>8. copies \in Seq(Copies)
  BY <1>5, <1>7
<1> QED
  BY <1>4, <1>5, <1>6, <1>7, <1>8

\* A step is one of a few chains of operators.
Steps ==
    \/ UNCHANGED vars
    \/ \E r \in Requests, h \in Handles :
          /\ MayCall("Submit") /\ ~Submitted(r)
          /\ \/ World' = Captured(World, r, h)
             \/ World' = LoadStarted(Captured(World, r, h), h)
             \/ \E result \in Results, made \in BOOLEAN :
                   World' = FinishAction(Captured(World, r, h), h, result, made)
    \/ \E h \in Handles, w \in {Unloaded(p) : p \in Pending} :
          /\ frames = <<>>
          /\ \/ World' = Stopped(w)
             \/ World' = LoadStarted(w, h)
             \/ \E result \in Results, made \in BOOLEAN : World' = FinishAction(w, h, result, made)
    \/ \E h \in Handles, p \in Pending :
          frames = <<>> /\ World' = FinishAction(Untimed(p), h, "Timeout", FALSE)
    \/ \E h \in Handles :
          MayCall("Cancel") /\ World' = FinishAction(World, h, "Cancelled", FALSE)
    \/ \E copies \in SetToSeqs(Running) :
          /\ MayCall("CancelAll") /\ copies # <<>>
          /\ World' = Finished(World, copies[1][1], copies[1][2], TRUE, Tail(copies),
                               "Cancelled", FALSE)
    \/ /\ frames # <<>>
       /\ LET f == Last(frames)
              removed == RemoveByHash(Popped, f.handle, f.request)
          IN  \/ active[f.handle] # f.request /\ World' = Stopped(Popped)
              \/ f.rest = <<>> /\ World' = removed
              \/ f.rest # <<>> /\ World' = Finished(removed, Head(f.rest)[1], Head(f.rest)[2], TRUE,
                                                    Tail(f.rest), "Cancelled", FALSE)

LEMMA SubmitSteps ==
    ASSUME Typed, NEW r \in Requests, NEW h \in Handles, Submit(r, h)
    PROVE  Typed' /\ Steps
<1> DEFINE w == Captured(World, r, h)
<1>1. IsWorld(w) /\ w.active[h] = r
  BY CapturedWorld DEF Typed
<1> HIDE DEF w
<1>2. MayCall("Submit") /\ ~Submitted(r) /\ (Becomes(w) \/ Proceeds(w, h))
  BY DEF Submit, w
<1>3. CASE Becomes(w)
  <2>1. Typed' /\ World' = w
    BY <1>1, <1>3, BecomesTyped
  <2> QED
    BY <1>2, <2>1 DEF Steps, w
<1>4. CASE Proceeds(w, h)
  <2>1. PICK v : /\ IsWorld(v) /\ Becomes(v)
                 /\ \/ v = LoadStarted(w, h)
                    \/ \E result \in Results, made \in BOOLEAN : v = FinishAction(w, h, result, made)
    BY <1>1, <1>4, ProceedsWorld
  <2>2. Typed' /\ World' = v
    BY <2>1, BecomesTyped
  <2> QED
    BY <1>2, <2>1, <2>2 DEF Steps, w
<1> QED
  BY <1>2, <1>3, <1>4

LEMMA LoadSteps ==
    ASSUME Typed, NEW p \in Pending, LoadArrives(p[1], p[2])
    PROVE  Typed' /\ Steps
<1> DEFINE h == p[1]
           w == Unloaded(p)
<1>1. IsWorld(w) /\ h \in Handles /\ p = <<p[1], p[2]>>
  BY ChangedWorlds DEF Pending
<1>2. /\ frames = <<>>
      /\ IF active[h] = NoRequest THEN Becomes([w EXCEPT !.halted = TRUE]) ELSE Proceeds(w, h)
  BY <1>1 DEF LoadArrives, Unloaded
<1>3. w.active = active
  BY DEF Unloaded, World
<1>4. w \in {Unloaded(q) : q \in Pending}
  OBVIOUS
<1> HIDE DEF w, h
<1>5. CASE active[h] = NoRequest
  <2>1. IsWorld(Stopped(w)) /\ Becomes(Stopped(w))
    BY <1>1, <1>2, <1>5, ChangedWorlds DEF Stopped
  <2>2. Typed' /\ World' = Stopped(w)
    BY <2>1, BecomesTyped
  <2> QED
    BY <1>1, <1>2, <1>4, <2>2 DEF Steps
<1>6. CASE active[h] # NoRequest
  <2>1. w.active[h] \in Requests
    BY <1>1, <1>3, <1>6 DEF IsWorld
  <2>2. PICK v : /\ IsWorld(v) /\ Becomes(v)
                 /\ \/ v = LoadStarted(w, h)
                    \/ \E result \in Results, made \in BOOLEAN : v = FinishAction(w, h, result, made)
    BY <1>1, <1>2, <1>6, <2>1, ProceedsWorld
  <2>3. Typed' /\ World' = v
    BY <2>2, BecomesTyped
  <2> QED
    BY <1>1, <1>2, <1>4, <2>2, <2>3 DEF Steps
<1> QED
  BY <1>5, <1>6

LEMMA TimerSteps ==
    ASSUME Typed, NEW p \in Pending, TimerFires(p[1], p[2])
    PROVE  Typed' /\ Steps
<1>1. p = <<p[1], p[2]>> /\ p[1] \in Handles
  BY DEF Pending
<1>2. frames = <<>> /\ Becomes(FinishAction(Untimed(p), p[1], "Timeout", FALSE))
  BY <1>1 DEF TimerFires, Untimed
<1>3. IsWorld(Untimed(p)) /\ "Timeout" \in Results
  BY ChangedWorlds DEF Results
<1>4. IsWorld(FinishAction(Untimed(p), p[1], "Timeout", FALSE))
  BY <1>1, <1>3, FinishActionWorld
<1>5. Typed' /\ World' = FinishAction(Untimed(p), p[1], "Timeout", FALSE)
  BY <1>2, <1>4, BecomesTyped
<1> QED
  BY <1>1, <1>2, <1>5 DEF Steps

LEMMA CancelSteps ==
    ASSUME Typed, NEW h \in Handles, CancelCraftingAction(h)
    PROVE  Typed' /\ Steps
<1>1. IsWorld(FinishAction(World, h, "Cancelled", FALSE))
  <2>1. "Cancelled" \in Results
    BY DEF Results
  <2> QED
    BY <2>1, FinishActionWorld DEF Typed
<1>2. Typed' /\ World' = FinishAction(World, h, "Cancelled", FALSE)
  BY <1>1, BecomesTyped DEF CancelCraftingAction
<1> QED
  BY <1>2 DEF Steps, CancelCraftingAction

LEMMA CancelAllSteps ==
    ASSUME Typed, IsFiniteSet(Handles), CancelAllActions
    PROVE  Typed' /\ Steps
<1>1. PICK copies \in SetToSeqs(Running) :
         /\ MayCall("CancelAll") /\ copies # <<>>
         /\ Becomes(Finished(World, copies[1][1], copies[1][2], TRUE, Tail(copies),
                             "Cancelled", FALSE))
  BY DEF CancelAllActions, Running
<1>2. copies \in Seq(Copies) /\ 1 \in DOMAIN copies
  BY <1>1, CopiesOfActions
<1>3. copies[1][1] \in Handles /\ copies[1][2] \in Requests
  BY <1>2, CopiesOfActions
<1>4. Tail(copies) \in Seq(Copies)
  BY <1>1, <1>2
<1>5. "Cancelled" \in Results
  BY DEF Results
<1>6. IsWorld(Finished(World, copies[1][1], copies[1][2], TRUE, Tail(copies), "Cancelled", FALSE))
  BY <1>3, <1>4, <1>5, FinishedWorld DEF Typed
<1>7. /\ Typed'
      /\ World' = Finished(World, copies[1][1], copies[1][2], TRUE, Tail(copies), "Cancelled", FALSE)
  BY <1>1, <1>6, BecomesTyped
<1> QED
  BY <1>1, <1>7 DEF Steps

\* The parts of the frame on top.
LEMMA TopFrame ==
    ASSUME Typed, frames # <<>>
    PROVE  /\ Last(frames).handle \in Handles /\ Last(frames).request \in Requests
           /\ Last(frames).copy \in BOOLEAN /\ Last(frames).rest \in Seq(Copies)
<1>1. frames \in Seq(Frames)
  BY DEF Typed, IsWorld, World
<1> HIDE DEF Frames
<1>2. Last(frames) \in Frames
  BY <1>1, FrontFrames
<1> DEFINE f == Last(frames)
<1>3. f \in Frames
  BY <1>2
<1> HIDE DEF f
<1>4. f.handle \in Handles /\ f.request \in Requests /\ f.copy \in BOOLEAN /\ f.rest \in Seq(Copies)
  BY <1>3 DEF Frames
<1> QED
  BY <1>4 DEF f

\* The parts of what comes next in CancelAllActions.
LEMMA RestParts ==
    ASSUME NEW rest \in Seq(Copies), rest # <<>>
    PROVE  /\ Head(rest) = rest[1] /\ Head(rest)[1] \in Handles /\ Head(rest)[2] \in Requests
           /\ Tail(rest) \in Seq(Copies) /\ 1 \in DOMAIN rest
           /\ \A m \in DOMAIN Tail(rest) : m + 1 \in DOMAIN rest /\ Tail(rest)[m] = rest[m + 1]
<1>1. Head(rest) = rest[1] /\ 1 \in DOMAIN rest /\ rest[1] \in Copies
  OBVIOUS
<1>2. rest[1][1] \in Handles /\ rest[1][2] \in Requests
  BY <1>1 DEF Copies
<1> HIDE DEF Copies
<1>3. Tail(rest) \in Seq(Copies) /\ Len(Tail(rest)) = Len(rest) - 1 /\ Len(rest) \in Nat \ {0}
  OBVIOUS
<1>4. \A m \in 1..(Len(rest) - 1) : Tail(rest)[m] = rest[m + 1]
  OBVIOUS
<1>5. DOMAIN rest = 1..Len(rest) /\ DOMAIN Tail(rest) = 1..(Len(rest) - 1)
  BY <1>3
<1>6. \A m \in DOMAIN Tail(rest) : m + 1 \in DOMAIN rest /\ Tail(rest)[m] = rest[m + 1]
  BY <1>3, <1>4, <1>5
<1> QED
  BY <1>1, <1>2, <1>3, <1>6

LEMMA ReturnSteps ==
    ASSUME Typed, CallbackReturns
    PROVE  Typed' /\ Steps
<1> DEFINE f == Last(frames)
           removed == RemoveByHash(Popped, f.handle, f.request)
           next == Finished(removed, Head(f.rest)[1], Head(f.rest)[2], TRUE,
                            Tail(f.rest), "Cancelled", FALSE)
<1>1. /\ frames # <<>>
      /\ Becomes(IF ~f.copy /\ active[f.handle] # f.request THEN Stopped(Popped)
                 ELSE IF f.rest = <<>> THEN removed ELSE next)
  BY DEF CallbackReturns, Popped, Stopped
<1>2. IsWorld(Popped) /\ IsWorld(Stopped(Popped))
  BY <1>1, ChangedWorlds
<1>3. f.handle \in Handles /\ f.request \in Requests /\ f.rest \in Seq(Copies)
  BY <1>1, TopFrame
<1>4. IsWorld(removed)
  BY <1>2, <1>3, RemoveByHashWorld
<1> HIDE DEF f, removed
<1>5. CASE ~f.copy /\ active[f.handle] # f.request
  <2>1. Becomes(Stopped(Popped))
    BY <1>1, <1>5
  <2>2. Typed' /\ World' = Stopped(Popped)
    BY <1>2, <2>1, BecomesTyped
  <2> QED
    BY <1>1, <1>5, <2>2 DEF Steps, f
<1>6. CASE ~(~f.copy /\ active[f.handle] # f.request) /\ f.rest = <<>>
  <2>1. Becomes(removed)
    BY <1>1, <1>6
  <2>2. Typed' /\ World' = removed
    BY <1>4, <2>1, BecomesTyped
  <2> QED
    BY <1>1, <1>6, <2>2 DEF Steps, f, removed
<1>7. CASE ~(~f.copy /\ active[f.handle] # f.request) /\ f.rest # <<>>
  <2>1. Becomes(next)
    BY <1>1, <1>7
  <2>2. "Cancelled" \in Results
    BY DEF Results
  <2>3. Head(f.rest)[1] \in Handles /\ Head(f.rest)[2] \in Requests /\ Tail(f.rest) \in Seq(Copies)
    BY <1>3, <1>7, RestParts
  <2>4. IsWorld(next)
    BY <1>4, <2>2, <2>3, FinishedWorld
  <2> HIDE DEF next
  <2>5. Typed' /\ World' = next
    BY <2>1, <2>4, BecomesTyped
  <2> QED
    BY <1>1, <1>7, <2>5 DEF Steps, f, removed, next
<1> QED
  BY <1>5, <1>6, <1>7

\* Every step keeps the types, and is one of the chains above.
LEMMA StepsAre ==
    ASSUME Typed, IsFiniteSet(Handles), [Next]_vars
    PROVE  Typed' /\ Steps
<1>1. CASE UNCHANGED vars
  <2>1. World' = World
    BY <1>1 DEF vars, World
  <2> QED
    BY <1>1, <2>1 DEF Typed, IsWorld, Steps
<1>2. CASE Next
  BY <1>2, SubmitSteps, LoadSteps, TimerSteps, CancelSteps, CancelAllSteps, ReturnSteps DEF Next
<1> QED
  BY <1>1, <1>2

\* At first nothing runs.
LEMMA InitTyped == Init => Typed
<1> SUFFICES ASSUME Init PROVE Typed
  OBVIOUS
<1>1. MaxLoads \in Nat /\ 0 \in 0..MaxLoads
  BY RunnerAssumption
<1>2. started \in [Requests -> 0..MaxLoads]
  BY <1>1 DEF Init
<1>3. /\ active \in [Handles -> Requests \cup {NoRequest}]
      /\ timers \subseteq Handles \X Requests /\ loads \subseteq Pending
      /\ displaced \subseteq Requests /\ halted \in BOOLEAN
  BY DEF Init
<1>4. answers \in [Requests -> Seq(Results)] /\ frames \in Seq(Frames)
  BY DEF Init
<1> QED
  BY <1>2, <1>3, <1>4 DEF Typed, IsWorld, World

\* A typed world is a typed state.
LEMMA TypedIsTypeOK == Typed => TypeOK
<1> SUFFICES ASSUME Typed PROVE TypeOK
  OBVIOUS
<1>1. ASSUME NEW n \in DOMAIN frames
      PROVE  frames[n].request \in Requests /\ frames[n].handle \in Handles
  <2>1. frames[n] \in Frames
    BY DEF Typed, IsWorld, World
  <2> QED
    BY <2>1 DEF Frames
<1> QED
  BY <1>1 DEF Typed, IsWorld, World, TypeOK

\* The type invariant holds of every runner whose handles are finitely many:
\* an answer is a result (EGenerationActionResult), and a call that waits for a
\* callback is of an action that was submitted.
THEOREM TypesHold == IsFiniteSet(Handles) => (Spec => []TypeOK)
<1> SUFFICES ASSUME IsFiniteSet(Handles) PROVE Spec => []TypeOK
  OBVIOUS
<1>1. Typed /\ [Next]_vars => Typed'
  BY StepsAre
<1> QED
  BY <1>1, InitTyped, TypedIsTypeOK, PTL DEF Spec

-----------------------------------------------------------------------------
(* Whose callback waits, and who is still to be answered.                   *)

Answered(w, q) == w.answers[q] # <<>>
Runs(w, q) == \E h \in Handles : w.active[h] = q
Handed(w, q) == q \in w.displaced \/ Answered(w, q) \/ Runs(w, q)

\* The copies that CancelAllActions is still to finish: none is answered, and
\* the action of each runs under its own handle if it runs.
RestHolds(w, rest) ==
    /\ \A m \in DOMAIN rest :
          /\ ~Answered(w, rest[m][2]) /\ Handed(w, rest[m][2])
          /\ \A g \in Handles : w.active[g] = rest[m][2] => g = rest[m][1]
    /\ \A l, m \in DOMAIN rest : rest[l][2] = rest[m][2] => l = m

\* Two handles never find one action.
OneHandleEach(w) ==
    \A g, h \in Handles : w.active[g] = w.active[h] /\ w.active[g] # NoRequest => g = h

\* An action that is answered and still there waits for its callback.
AnsweredWait(w) ==
    \A h \in Handles : w.active[h] # NoRequest /\ Answered(w, w.active[h]) =>
       \E n \in DOMAIN w.frames : w.frames[n].handle = h /\ w.frames[n].request = w.active[h]

\* Only the first frame is of CancelAllActions.
FramesHold(w) ==
    \A n \in DOMAIN w.frames :
       /\ Answered(w, w.frames[n].request)
       /\ n > 1 => w.frames[n].rest = <<>>
       /\ RestHolds(w, w.frames[n].rest)

\* What stays true of a runner whose callbacks only submit.
Sound(w) == OneHandleEach(w) /\ AnsweredWait(w) /\ FramesHold(w)

\* What a client sees of its request.
Course(w, q) ==
    IF Answered(w, q) THEN w.answers[q]
    ELSE IF q \in w.displaced THEN <<"Displaced">>
    ELSE IF Handed(w, q) THEN <<"Running">> ELSE <<"New">>

\* The same actions, answers and frames.
SameCourse(w, v) ==
    /\ v.active = w.active /\ v.answers = w.answers
    /\ v.displaced = w.displaced /\ v.frames = w.frames

LEMMA SameCourseSound ==
    ASSUME NEW w, NEW v, SameCourse(w, v)
    PROVE  /\ Sound(w) => Sound(v)
           /\ \A q : Course(v, q) = Course(w, q) /\ (Handed(v, q) <=> Handed(w, q))
<1>1. /\ v.active = w.active /\ v.answers = w.answers
      /\ v.displaced = w.displaced /\ v.frames = w.frames
  BY DEF SameCourse
<1>2. ASSUME NEW q
      PROVE  (Runs(v, q) <=> Runs(w, q)) /\ (Answered(v, q) <=> Answered(w, q))
  BY <1>1 DEF Answered, Runs
<1>3. ASSUME NEW q
      PROVE  Handed(v, q) <=> Handed(w, q)
  BY <1>1, <1>2 DEF Handed
<1>4. ASSUME NEW q
      PROVE  Course(v, q) = Course(w, q)
  BY <1>1, <1>2, <1>3 DEF Course
<1>5. OneHandleEach(w) => OneHandleEach(v)
  BY <1>1 DEF OneHandleEach
<1>6. AnsweredWait(w) => AnsweredWait(v)
  BY <1>1, <1>2 DEF AnsweredWait
<1>7. ASSUME FramesHold(w) PROVE FramesHold(v)
  <2>1. ASSUME NEW rest, RestHolds(w, rest) PROVE RestHolds(v, rest)
    <3>1. ASSUME NEW m \in DOMAIN rest PROVE ~Answered(v, rest[m][2]) /\ Handed(v, rest[m][2])
      BY <2>1, <1>2, <1>3 DEF RestHolds
    <3>2. ASSUME NEW m \in DOMAIN rest, NEW g \in Handles, v.active[g] = rest[m][2] PROVE g = rest[m][1]
      BY <2>1, <1>1, <3>2 DEF RestHolds
    <3>3. \A l, m \in DOMAIN rest : rest[l][2] = rest[m][2] => l = m
      BY <2>1 DEF RestHolds
    <3> QED
      BY ONLY <3>1, <3>2, <3>3 DEF RestHolds
  <2> QED
    BY <1>7, <1>1, <1>2, <2>1 DEF FramesHold
<1> QED
  BY <1>3, <1>4, <1>5, <1>6, <1>7 DEF Sound

\* Loads, timers and a halt change none of it.
LEMMA LoadsKeepCourse ==
    ASSUME NEW w
    PROVE  \A h : SameCourse(w, LoadStarted(w, h))
BY DEF SameCourse, LoadStarted

LEMMA ChangesKeepCourse ==
    /\ \A p : SameCourse(World, Unloaded(p)) /\ SameCourse(World, Untimed(p))
    /\ \A w : IsWorld(w) => SameCourse(w, Stopped(w))
<1>1. ASSUME NEW p PROVE SameCourse(World, Unloaded(p)) /\ SameCourse(World, Untimed(p))
  BY DEF SameCourse, Unloaded, Untimed, World
<1>2. ASSUME NEW w, IsWorld(w) PROVE SameCourse(w, Stopped(w))
  <2> DEFINE v == Stopped(w)
  <2>1. w = [active |-> w.active, timers |-> w.timers, loads |-> w.loads,
             started |-> w.started, answers |-> w.answers, displaced |-> w.displaced,
             frames |-> w.frames, halted |-> w.halted]
    BY <1>2 DEF IsWorld
  <2>2. v = [w EXCEPT !.halted = TRUE]
    BY DEF Stopped
  <2> HIDE DEF v
  <2>3. /\ v.active = w.active /\ v.answers = w.answers
        /\ v.displaced = w.displaced /\ v.frames = w.frames
    BY ONLY <2>1, <2>2
  <2> QED
    BY <2>3 DEF SameCourse, v
<1> QED
  BY <1>1, <1>2

\* What is left to finish stays in order when its actions stay unanswered and
\* come under no other handle.
LEMMA RestKept ==
    ASSUME NEW w, NEW v, NEW rest \in Seq(Copies), RestHolds(w, rest),
           \A q \in Requests : Handed(w, q) => Handed(v, q),
           \A m \in DOMAIN rest : /\ ~Answered(v, rest[m][2])
                                  /\ \A g \in Handles : v.active[g] = rest[m][2] =>
                                                        w.active[g] = rest[m][2]
    PROVE  RestHolds(v, rest)
<1>1. \A m \in DOMAIN rest : rest[m][2] \in Requests
  BY DEF Copies
<1> QED
  BY <1>1 DEF RestHolds

\* The frames of a world, and their parts.
LEMMA FrameParts ==
    ASSUME NEW w, IsWorld(w), NEW n \in DOMAIN w.frames
    PROVE  /\ w.frames[n].handle \in Handles /\ w.frames[n].request \in Requests
           /\ w.frames[n].rest \in Seq(Copies)
<1>1. w.frames[n] \in Frames
  BY DEF IsWorld
<1> DEFINE f == w.frames[n]
<1>2. f \in Frames
  BY <1>1
<1> HIDE DEF f
<1>3. f.handle \in Handles /\ f.request \in Requests /\ f.rest \in Seq(Copies)
  BY <1>2 DEF Frames
<1> QED
  BY <1>3 DEF f

\* A new action is captured under a handle.
LEMMA CapturedSound ==
    ASSUME NEW w, IsWorld(w), Sound(w), NEW r \in Requests, NEW h \in Handles, ~Handed(w, r)
    PROVE  /\ Sound(Captured(w, r, h))
           /\ ~Answered(Captured(w, r, h), r) /\ Handed(Captured(w, r, h), r)
           /\ \A g \in Handles : Captured(w, r, h).active[g] = r => g = h
           /\ \A q \in Requests : Handed(w, q) => Handed(Captured(w, r, h), q)
           /\ Captured(w, r, h).answers = w.answers /\ Captured(w, r, h).frames = w.frames
           /\ Captured(w, r, h).displaced = w.displaced \cup ({w.active[h]} \ {NoRequest})
<1> DEFINE v == Captured(w, r, h)
<1>1. /\ v.active = [w.active EXCEPT ![h] = r] /\ v.answers = w.answers /\ v.frames = w.frames
      /\ v.displaced = w.displaced \cup ({w.active[h]} \ {NoRequest})
  BY DEF Captured
<1> HIDE DEF v
<1>2. /\ w.active \in [Handles -> Requests \cup {NoRequest}] /\ NoRequest \notin Requests
      /\ v.active[h] = r /\ \A g \in Handles : g # h => v.active[g] = w.active[g]
  BY <1>1, RunnerAssumption DEF IsWorld
<1>3. \A q : Answered(v, q) <=> Answered(w, q)
  BY <1>1 DEF Answered
<1>4. ~Answered(w, r) /\ r \notin w.displaced /\ \A g \in Handles : w.active[g] # r
  BY DEF Handed, Runs
<1>5. \A g \in Handles : v.active[g] = r => g = h
  BY <1>2, <1>4
<1>6. \A q \in Requests : Handed(w, q) => Handed(v, q)
  <2> SUFFICES ASSUME NEW q \in Requests, Handed(w, q) PROVE Handed(v, q)
    OBVIOUS
  <2>1. CASE q \in w.displaced \/ Answered(w, q)
    BY <1>1, <1>3, <2>1 DEF Handed
  <2>2. ASSUME NEW g \in Handles, w.active[g] = q PROVE Handed(v, q)
    <3>1. CASE g = h
      BY <1>1, <1>2, <2>2, <3>1 DEF Handed
    <3>2. CASE g # h
      BY <1>2, <2>2, <3>2 DEF Handed, Runs
    <3> QED
      BY <3>1, <3>2
  <2> QED
    BY <2>1, <2>2 DEF Handed, Runs
<1>7. Handed(v, r)
  BY <1>2 DEF Handed, Runs
<1>8. OneHandleEach(v)
  BY <1>2, <1>5 DEF OneHandleEach, Sound
<1>9. AnsweredWait(v)
  <2> SUFFICES ASSUME NEW g \in Handles, v.active[g] # NoRequest, Answered(v, v.active[g])
               PROVE  \E n \in DOMAIN v.frames : /\ v.frames[n].handle = g
                                                 /\ v.frames[n].request = v.active[g]
    BY DEF AnsweredWait
  <2>1. g # h /\ v.active[g] = w.active[g]
    BY <1>2, <1>3, <1>4
  <2> QED
    BY <1>1, <1>3, <2>1 DEF Sound, AnsweredWait
<1>10. FramesHold(v)
  <2> SUFFICES ASSUME NEW n \in DOMAIN w.frames
               PROVE  /\ Answered(v, w.frames[n].request)
                      /\ n > 1 => w.frames[n].rest = <<>>
                      /\ RestHolds(v, w.frames[n].rest)
    BY <1>1 DEF FramesHold
  <2> DEFINE rest == w.frames[n].rest
  <2>1. Answered(w, w.frames[n].request) /\ (n > 1 => rest = <<>>) /\ RestHolds(w, rest)
    BY DEF Sound, FramesHold
  <2>2. rest \in Seq(Copies)
    BY FrameParts
  <2> HIDE DEF rest
  <2>3. \A m \in DOMAIN rest : /\ ~Answered(v, rest[m][2])
                               /\ \A g \in Handles : v.active[g] = rest[m][2] =>
                                                     w.active[g] = rest[m][2]
    <3> SUFFICES ASSUME NEW m \in DOMAIN rest
                 PROVE  /\ ~Answered(v, rest[m][2])
                        /\ \A g \in Handles : v.active[g] = rest[m][2] =>
                                              w.active[g] = rest[m][2]
      OBVIOUS
    <3>1. ~Answered(w, rest[m][2]) /\ Handed(w, rest[m][2])
      BY <2>1 DEF RestHolds
    <3> QED
      BY <1>2, <1>3, <3>1
  <2>4. RestHolds(v, rest)
    BY <1>6, <2>1, <2>2, <2>3, RestKept
  <2> QED
    BY <1>3, <2>1, <2>4 DEF rest
<1> QED
  BY <1>1, <1>3, <1>4, <1>5, <1>6, <1>7, <1>8, <1>9, <1>10 DEF Sound, v

\* One more frame on top.
LEMMA MoreFrames ==
    ASSUME NEW S, NEW fs \in Seq(S), NEW f \in S
    PROVE  /\ DOMAIN fs = 1..Len(fs) /\ Len(fs) \in Nat
           /\ DOMAIN Append(fs, f) = (DOMAIN fs) \cup {Len(fs) + 1}
           /\ Append(fs, f)[Len(fs) + 1] = f
           /\ \A n \in DOMAIN fs : n # Len(fs) + 1 /\ Append(fs, f)[n] = fs[n]
OBVIOUS

\* An action that may be finished under handle h, with more of CancelAllActions
\* to come: it is not answered, and is none of what is left to finish.
Finishable(w, h, r, rest) ==
    /\ ~Answered(w, r) /\ Handed(w, r)
    /\ \A g \in Handles : w.active[g] = r => g = h
    /\ RestHolds(w, rest) /\ (rest # <<>> => w.frames = <<>>)
    /\ \A m \in DOMAIN rest : rest[m][2] # r
    /\ \A n \in DOMAIN w.frames : \A m \in DOMAIN w.frames[n].rest : w.frames[n].rest[m][2] # r

\* One request is answered, and clients see nothing else.
Settles(w, v, r, a) ==
    \A q \in Requests : Course(v, q) = IF q = r THEN <<a>> ELSE Course(w, q)

\* It is finished, and its callback waits.
LEMMA FinishedSound ==
    ASSUME NEW w, IsWorld(w), Sound(w), NEW h \in Handles, NEW r \in Requests,
           NEW copy \in BOOLEAN, NEW rest \in Seq(Copies), NEW result \in Results, NEW made,
           Finishable(w, h, r, rest)
    PROVE  /\ Sound(Finished(w, h, r, copy, rest, result, made))
           /\ Settles(w, Finished(w, h, r, copy, rest, result, made), r, Reported(result, made))
<1> DEFINE v == Finished(w, h, r, copy, rest, result, made)
           a == Reported(result, made)
           f == Frame(h, r, copy, rest)
<1>0. /\ ~Answered(w, r) /\ Handed(w, r) /\ (\A g \in Handles : w.active[g] = r => g = h)
      /\ RestHolds(w, rest) /\ (rest # <<>> => w.frames = <<>>)
      /\ \A m \in DOMAIN rest : rest[m][2] # r
      /\ \A n \in DOMAIN w.frames : \A m \in DOMAIN w.frames[n].rest : w.frames[n].rest[m][2] # r
  BY DEF Finishable
<1> USE <1>0
<1>1. /\ v.active = w.active /\ v.displaced = w.displaced
      /\ v.answers = [w.answers EXCEPT ![r] = Append(@, a)] /\ v.frames = Append(w.frames, f)
  BY DEF Finished
<1>2. f \in Frames /\ f.handle = h /\ f.request = r /\ f.rest = rest
  BY DEF Frame, Frames
<1>3. a \in Results
  BY ReportedResult
<1> HIDE DEF v, a, f, Frames
<1>4. w.answers \in [Requests -> Seq(Results)] /\ w.frames \in Seq(Frames)
  BY DEF IsWorld
<1>5. v.answers[r] = <<a>> /\ \A q \in Requests : q # r => v.answers[q] = w.answers[q]
  <2>1. w.answers[r] = <<>>
    BY DEF Answered
  <2>2. Append(<<>>, a) = <<a>>
    OBVIOUS
  <2> QED
    BY <1>1, <1>4, <2>1, <2>2
<1>6. Answered(v, r) /\ \A q \in Requests : q # r => (Answered(v, q) <=> Answered(w, q))
  BY <1>5 DEF Answered
<1>7. \A q \in Requests : Handed(v, q) <=> Handed(w, q)
  BY <1>1, <1>6 DEF Handed, Runs
<1>8. \A q \in Requests : Course(v, q) = IF q = r THEN <<a>> ELSE Course(w, q)
  <2> SUFFICES ASSUME NEW q \in Requests
               PROVE  Course(v, q) = IF q = r THEN <<a>> ELSE Course(w, q)
    OBVIOUS
  <2>1. CASE q = r
    BY <1>5, <1>6, <2>1 DEF Course
  <2>2. CASE q # r
    BY <1>1, <1>5, <1>6, <1>7, <2>2 DEF Course
  <2> QED
    BY <2>1, <2>2
<1> DEFINE N == Len(w.frames)
<1>9. /\ DOMAIN w.frames = 1..N /\ N \in Nat
      /\ DOMAIN v.frames = (DOMAIN w.frames) \cup {N + 1} /\ v.frames[N + 1] = f
      /\ \A n \in DOMAIN w.frames : n # N + 1 /\ v.frames[n] = w.frames[n]
  BY <1>1, <1>2, <1>4, MoreFrames
<1> HIDE DEF N
<1>10. OneHandleEach(v)
  BY <1>1 DEF OneHandleEach, Sound
<1>11. AnsweredWait(v)
  <2> SUFFICES ASSUME NEW g \in Handles, v.active[g] # NoRequest, Answered(v, v.active[g])
               PROVE  \E n \in DOMAIN v.frames : /\ v.frames[n].handle = g
                                                 /\ v.frames[n].request = v.active[g]
    BY DEF AnsweredWait
  <2>1. w.active[g] \in Requests /\ v.active[g] = w.active[g]
    BY <1>1 DEF IsWorld
  <2>2. CASE w.active[g] = r
    BY <1>2, <1>9, <2>1, <2>2
  <2>3. CASE w.active[g] # r
    <3>1. PICK n \in DOMAIN w.frames : /\ w.frames[n].handle = g
                                       /\ w.frames[n].request = w.active[g]
      BY <1>6, <2>1, <2>3 DEF Sound, AnsweredWait
    <3> QED
      BY <1>9, <2>1, <3>1
  <2> QED
    BY <2>2, <2>3
<1>12. ASSUME NEW some \in Seq(Copies), RestHolds(w, some), \A m \in DOMAIN some : some[m][2] # r
       PROVE  RestHolds(v, some)
  <2>1. \A m \in DOMAIN some : some[m][2] \in Requests
    BY DEF Copies
  <2>2. \A m \in DOMAIN some : /\ ~Answered(v, some[m][2])
                               /\ \A g \in Handles : v.active[g] = some[m][2] =>
                                                     w.active[g] = some[m][2]
    BY <1>1, <1>6, <1>12, <2>1 DEF RestHolds
  <2> QED
    BY <1>7, <1>12, <2>2, RestKept
<1>13. FramesHold(v)
  <2> SUFFICES ASSUME NEW n \in DOMAIN v.frames
               PROVE  /\ Answered(v, v.frames[n].request)
                      /\ n > 1 => v.frames[n].rest = <<>>
                      /\ RestHolds(v, v.frames[n].rest)
    BY DEF FramesHold
  <2>1. CASE n \in DOMAIN w.frames
    <3>1. /\ Answered(w, w.frames[n].request) /\ (n > 1 => w.frames[n].rest = <<>>)
          /\ RestHolds(w, w.frames[n].rest)
      BY <2>1 DEF Sound, FramesHold
    <3>2. w.frames[n].rest \in Seq(Copies) /\ w.frames[n].request \in Requests
      BY <2>1, FrameParts
    <3>3. \A m \in DOMAIN w.frames[n].rest : w.frames[n].rest[m][2] # r
      BY <2>1
    <3>4. RestHolds(v, w.frames[n].rest)
      BY <1>12, <3>1, <3>2, <3>3
    <3>5. Answered(v, w.frames[n].request)
      BY <1>6, <3>1, <3>2
    <3> QED
      BY <1>9, <2>1, <3>1, <3>4, <3>5
  <2>2. CASE n = N + 1
    <3>1. n > 1 => rest = <<>>
      <4>1. rest # <<>> => N = 0
        BY DEF N
      <4> QED
        BY <1>9, <2>2, <4>1
    <3>2. RestHolds(v, rest)
      BY <1>12
    <3> QED
      BY <1>2, <1>6, <1>9, <2>2, <3>1, <3>2
  <2> QED
    BY <1>9, <2>1, <2>2
<1> QED
  BY <1>8, <1>10, <1>11, <1>13 DEF Sound, Settles, v, a

\* The callback on top returns, and what its handle finds is removed: what ran
\* there besides the finished action is displaced.
LEMMA RemovedSound ==
    ASSUME Typed, Sound(World), frames # <<>>, NEW f, f = Last(frames),
           NEW v, v = RemoveByHash(Popped, f.handle, f.request)
    PROVE  /\ Sound(v) /\ RestHolds(v, f.rest) /\ (f.rest # <<>> => v.frames = <<>>)
           /\ \A q \in Requests :
                 /\ Answered(v, q) <=> Answered(World, q)
                 /\ Course(v, q) =
                       IF q = active[f.handle] /\ q # f.request /\ ~Answered(World, q)
                       THEN <<"Displaced">> ELSE Course(World, q)
<1> DEFINE h == f.handle
           r == f.request
<1>1. /\ v.active = [active EXCEPT ![h] = NoRequest] /\ v.answers = answers
      /\ v.displaced = displaced \cup ({active[h]} \ {r, NoRequest}) /\ v.frames = Front(frames)
  BY DEF RemoveByHash, Popped, World
<1>2. h \in Handles /\ r \in Requests /\ f.rest \in Seq(Copies)
  BY TopFrame
<1>3. /\ active \in [Handles -> Requests \cup {NoRequest}] /\ NoRequest \notin Requests
      /\ answers \in [Requests -> Seq(Results)] /\ frames \in Seq(Frames)
  BY RunnerAssumption DEF Typed, IsWorld, World
<1> HIDE DEF Frames
<1>4. /\ Front(frames) \in Seq(Frames) /\ f = frames[Len(frames)] /\ Len(frames) \in DOMAIN frames
      /\ Len(Front(frames)) = Len(frames) - 1
      /\ \A n \in DOMAIN Front(frames) :
            n \in DOMAIN frames /\ n # Len(frames) /\ Front(frames)[n] = frames[n]
      /\ \A n \in DOMAIN frames : n # Len(frames) => n \in DOMAIN Front(frames)
  BY <1>3, FrontFrames
<1>5. /\ World.active = active /\ World.answers = answers /\ World.displaced = displaced
      /\ World.frames = frames
  BY DEF World
<1>6. \A q : Answered(v, q) <=> Answered(World, q)
  BY <1>1, <1>5 DEF Answered
<1>7. /\ v.active[h] = NoRequest /\ \A g \in Handles : g # h => v.active[g] = active[g]
  BY <1>1, <1>2, <1>3
<1>8. /\ Answered(World, r) /\ (Len(frames) > 1 => f.rest = <<>>) /\ RestHolds(World, f.rest)
  BY <1>4, <1>5 DEF Sound, FramesHold
<1> HIDE DEF h, r
<1>9. \A q \in Requests : Handed(World, q) <=> Handed(v, q)
  <2> SUFFICES ASSUME NEW q \in Requests PROVE Handed(World, q) <=> Handed(v, q)
    OBVIOUS
  <2>1. CASE Answered(World, q)
    BY <1>6, <2>1 DEF Handed
  <2>2. CASE ~Answered(World, q) /\ active[h] = q
    <3>1. q # r /\ q # NoRequest
      BY <1>3, <1>8, <2>2
    <3>2. q \in v.displaced
      BY <1>1, <2>2, <3>1
    <3> QED
      BY <1>2, <1>5, <2>2, <3>2 DEF Handed, Runs
  <2>3. CASE ~Answered(World, q) /\ active[h] # q
    <3>1. (q \in v.displaced) <=> (q \in displaced)
      BY <1>1, <2>3
    <3>2. Runs(v, q) <=> Runs(World, q)
      BY <1>3, <1>5, <1>7, <2>3 DEF Runs
    <3> QED
      BY <1>5, <1>6, <3>1, <3>2 DEF Handed
  <2> QED
    BY <2>1, <2>2, <2>3
<1>10. ASSUME NEW some \in Seq(Copies), RestHolds(World, some)
       PROVE  RestHolds(v, some)
  <2>1. \A m \in DOMAIN some : some[m][2] \in Requests
    BY DEF Copies
  <2>2. \A m \in DOMAIN some : ~Answered(v, some[m][2])
    BY <1>6, <1>10 DEF RestHolds
  <2>3. ASSUME NEW m \in DOMAIN some, NEW g \in Handles, v.active[g] = some[m][2]
        PROVE  World.active[g] = some[m][2]
    BY <1>3, <1>5, <1>7, <2>1, <2>3
  <2> QED
    BY <1>9, <1>10, <2>2, <2>3, RestKept
<1>11. OneHandleEach(v)
  <2>1. OneHandleEach(World)
    BY DEF Sound
  <2> QED
    BY <1>5, <1>7, <2>1 DEF OneHandleEach
<1>12. AnsweredWait(v)
  <2> SUFFICES ASSUME NEW g \in Handles, v.active[g] # NoRequest, Answered(v, v.active[g])
               PROVE  \E n \in DOMAIN v.frames : /\ v.frames[n].handle = g
                                                 /\ v.frames[n].request = v.active[g]
    BY DEF AnsweredWait
  <2>1. g # h /\ v.active[g] = active[g]
    BY <1>7
  <2>2. PICK n \in DOMAIN frames : frames[n].handle = g /\ frames[n].request = active[g]
    BY <1>5, <1>6, <2>1 DEF Sound, AnsweredWait
  <2>3. n # Len(frames)
    BY <1>4, <2>1, <2>2 DEF h
  <2> QED
    BY <1>1, <1>4, <2>1, <2>2, <2>3
<1>13. FramesHold(v)
  <2> SUFFICES ASSUME NEW n \in DOMAIN v.frames
               PROVE  /\ Answered(v, v.frames[n].request)
                      /\ n > 1 => v.frames[n].rest = <<>>
                      /\ RestHolds(v, v.frames[n].rest)
    BY DEF FramesHold
  <2>1. n \in DOMAIN frames /\ v.frames[n] = frames[n]
    BY <1>1, <1>4
  <2>2. /\ Answered(World, frames[n].request) /\ (n > 1 => frames[n].rest = <<>>)
        /\ RestHolds(World, frames[n].rest)
    BY <1>5, <2>1 DEF Sound, FramesHold
  <2>3. frames[n].rest \in Seq(Copies)
    BY <1>5, <2>1, FrameParts DEF Typed
  <2>4. RestHolds(v, frames[n].rest)
    BY <1>10, <2>2, <2>3
  <2> QED
    BY <1>6, <2>1, <2>2, <2>4
<1>14. RestHolds(v, f.rest)
  BY <1>2, <1>8, <1>10
<1>15. f.rest # <<>> => v.frames = <<>>
  <2>1. CASE Len(frames) > 1
    BY <1>8, <2>1
  <2>2. CASE ~(Len(frames) > 1)
    <3>1. Len(frames) \in Nat
      BY <1>3
    <3>2. Len(Front(frames)) = 0
      <4>1. Len(Front(frames)) \in Nat
        BY <1>4
      <4> QED
        BY <1>4, <2>2, <3>1, <4>1
    <3> QED
      BY <1>1, <1>4, <3>2
  <2> QED
    BY <2>1, <2>2
<1>16. ASSUME NEW q \in Requests
       PROVE  Course(v, q) = IF q = active[h] /\ q # r /\ ~Answered(World, q)
                             THEN <<"Displaced">> ELSE Course(World, q)
  <2>1. CASE Answered(World, q)
    BY <1>1, <1>5, <1>6, <2>1 DEF Course
  <2>2. CASE ~Answered(World, q) /\ q = active[h]
    <3>1. q # r /\ q # NoRequest
      BY <1>3, <1>8, <2>2
    <3>2. q \in v.displaced
      BY <1>1, <2>2, <3>1
    <3> QED
      BY <1>6, <2>2, <3>1, <3>2 DEF Course
  <2>3. CASE ~Answered(World, q) /\ q # active[h]
    <3>1. (q \in v.displaced) <=> (q \in displaced)
      BY <1>1, <2>3
    <3> QED
      BY <1>5, <1>6, <1>9, <2>3, <3>1 DEF Course
  <2> QED
    BY <2>1, <2>2, <2>3
<1> QED
  BY <1>6, <1>11, <1>12, <1>13, <1>14, <1>15, <1>16 DEF Sound, h, r

\* If the handle of the frame on top finds another action, that one waits for
\* its own callback or is still to be answered.
LEMMA PoppedSound ==
    ASSUME Typed, Sound(World), frames # <<>>,
           active[Last(frames).handle] # Last(frames).request
    PROVE  Sound(Popped) /\ \A q \in Requests : Course(Popped, q) = Course(World, q)
<1> DEFINE f == Last(frames)
           v == Popped
<1>1. /\ v.active = active /\ v.answers = answers
      /\ v.displaced = displaced /\ v.frames = Front(frames)
  BY DEF Popped, World
<1>2. /\ World.active = active /\ World.answers = answers /\ World.displaced = displaced
      /\ World.frames = frames
  BY DEF World
<1> HIDE DEF v
<1>3. frames \in Seq(Frames)
  BY DEF Typed, IsWorld, World
<1> HIDE DEF Frames
<1>4. /\ f = frames[Len(frames)]
      /\ \A n \in DOMAIN Front(frames) :
            n \in DOMAIN frames /\ n # Len(frames) /\ Front(frames)[n] = frames[n]
      /\ \A n \in DOMAIN frames : n # Len(frames) => n \in DOMAIN Front(frames)
  BY <1>3, FrontFrames
<1> HIDE DEF f
<1>5. \A q : (Answered(v, q) <=> Answered(World, q)) /\ (Handed(v, q) <=> Handed(World, q))
  BY <1>1, <1>2 DEF Answered, Handed, Runs
<1>6. \A rest : RestHolds(World, rest) => RestHolds(v, rest)
  BY <1>1, <1>2, <1>5 DEF RestHolds
<1>7. FramesHold(v)
  BY <1>1, <1>2, <1>4, <1>5, <1>6 DEF Sound, FramesHold
<1>8. AnsweredWait(v)
  <2> SUFFICES ASSUME NEW g \in Handles, active[g] # NoRequest, Answered(World, active[g])
               PROVE  \E n \in DOMAIN v.frames : /\ v.frames[n].handle = g
                                                 /\ v.frames[n].request = active[g]
    BY <1>1, <1>5 DEF AnsweredWait
  <2>1. PICK n \in DOMAIN frames : frames[n].handle = g /\ frames[n].request = active[g]
    BY <1>2 DEF Sound, AnsweredWait
  <2>2. n # Len(frames)
    BY <1>4, <2>1 DEF f
  <2> QED
    BY <1>1, <1>4, <2>1, <2>2
<1>9. OneHandleEach(v)
  BY <1>1, <1>2 DEF OneHandleEach, Sound
<1>10. \A q \in Requests : Course(v, q) = Course(World, q)
  BY <1>1, <1>2, <1>5 DEF Course
<1> QED
  BY <1>7, <1>8, <1>9, <1>10 DEF Sound, v

\* An action of the world that waits for nothing is not answered yet.
LEMMA NobodyWaits ==
    ASSUME NEW w, IsWorld(w), Sound(w), w.frames = <<>>
    PROVE  /\ \A h \in Handles : w.active[h] # NoRequest =>
                 /\ w.active[h] \in Requests /\ ~Answered(w, w.active[h])
                 /\ Handed(w, w.active[h])
                 /\ \A g \in Handles : w.active[g] = w.active[h] => g = h
           /\ RestHolds(w, <<>>)
<1>1. DOMAIN w.frames = {}
  OBVIOUS
<1>2. RestHolds(w, <<>>)
  BY DEF RestHolds
<1>3. ASSUME NEW h \in Handles, w.active[h] # NoRequest
      PROVE  /\ w.active[h] \in Requests /\ ~Answered(w, w.active[h]) /\ Handed(w, w.active[h])
             /\ \A g \in Handles : w.active[g] = w.active[h] => g = h
  BY <1>1, <1>3 DEF IsWorld, Sound, AnsweredWait, OneHandleEach, Handed, Runs
<1> QED
  BY <1>2, <1>3

\* FinishActionImpl of what the handle finds, when no callback runs.
LEMMA FinishActionSound ==
    ASSUME NEW w, IsWorld(w), Sound(w), w.frames = <<>>, NEW h \in Handles,
           NEW result \in Results, NEW made
    PROVE  /\ Sound(FinishAction(w, h, result, made))
           /\ \/ FinishAction(w, h, result, made) = w
              \/ \E r \in Requests, a \in Results :
                    /\ ~Answered(w, r) /\ Handed(w, r)
                    /\ Settles(w, FinishAction(w, h, result, made), r, a)
<1>1. CASE w.active[h] = NoRequest
  BY <1>1 DEF FinishAction
<1>2. CASE w.active[h] # NoRequest
  <2> DEFINE r == w.active[h]
             v == Finished(w, h, r, FALSE, <<>>, result, made)
  <2>1. FinishAction(w, h, result, made) = v
    BY <1>2 DEF FinishAction
  <2>2. /\ r \in Requests /\ ~Answered(w, r) /\ Handed(w, r) /\ RestHolds(w, <<>>)
        /\ \A g \in Handles : w.active[g] = r => g = h
    BY <1>2, NobodyWaits
  <2> HIDE DEF r
  <2>3. <<>> \in Seq(Copies) /\ DOMAIN w.frames = {}
    OBVIOUS
  <2>4. Finishable(w, h, r, <<>>)
    BY <2>2, <2>3 DEF Finishable
  <2>5. Sound(v) /\ Settles(w, v, r, Reported(result, made))
    BY <2>2, <2>3, <2>4, FinishedSound
  <2>6. Reported(result, made) \in Results
    BY ReportedResult
  <2> HIDE DEF v
  <2> QED
    BY <2>1, <2>2, <2>5, <2>6
<1> QED
  BY <1>1, <1>2

-----------------------------------------------------------------------------
(* What clients see of a step.                                              *)

Waits(q) == ~Answered(World, q) /\ Handed(World, q)

\* The course of one request changes, and some requests are displaced.
Shifts(w, v, r, now, D) ==
    \A q \in Requests :
       Course(v, q) = IF q = r THEN now ELSE IF q \in D THEN <<"Displaced">> ELSE Course(w, q)

SeesNothing == \A q \in Requests : Course(World', q) = Course(World, q)

SeesSubmission ==
    \E r \in Requests, now \in {<<"Running">>} \cup {<<a>> : a \in Results}, D \in SUBSET Requests :
       /\ Course(World, r) = <<"New">> /\ r \notin D /\ \A q \in D : Waits(q)
       /\ Shifts(World, World', r, now, D)

SeesAnswer ==
    \E r \in Requests, a \in Results, D \in SUBSET Requests :
       /\ Waits(r) /\ r \notin D /\ \A q \in D : Waits(q)
       /\ Shifts(World, World', r, <<a>>, D)

SeesDisplacement ==
    \E r \in Requests : Waits(r) /\ Shifts(World, World', r, <<"Displaced">>, {})

\* A request is new until it is submitted.
LEMMA NewRequests ==
    ASSUME NEW q \in Requests
    PROVE  /\ Submitted(q) <=> Handed(World, q)
           /\ ~Submitted(q) => Course(World, q) = <<"New">> /\ ~Answered(World, q)
           /\ Waits(q) => Course(World, q) \in {<<"Running">>, <<"Displaced">>}
BY DEF Submitted, Handed, Runs, Answered, Course, World, Waits

\* The action that a handle finds is displaced by a new one, unless it is
\* answered already.
LEMMA CapturedShifts ==
    ASSUME Typed, Sound(World), NEW r \in Requests, NEW h \in Handles, ~Submitted(r)
    PROVE  \E D \in SUBSET Requests :
              /\ \A q \in D : Waits(q) /\ q # r
              /\ Shifts(World, Captured(World, r, h), r, <<"Running">>, D)
<1> DEFINE v == Captured(World, r, h)
           D == {q \in Requests : q = active[h] /\ Waits(q)}
<1>1. ~Handed(World, r) /\ IsWorld(World)
  BY NewRequests DEF Typed
<1>2. /\ ~Answered(v, r) /\ Handed(v, r) /\ v.answers = World.answers
      /\ v.displaced = World.displaced \cup ({World.active[h]} \ {NoRequest})
      /\ \A q \in Requests : Handed(World, q) => Handed(v, q)
  BY <1>1, CapturedSound
<1>3. v.active = [active EXCEPT ![h] = r]
  BY DEF Captured, World
<1> HIDE DEF v
<1>4. /\ World.active = active /\ World.answers = answers /\ World.displaced = displaced
      /\ active \in [Handles -> Requests \cup {NoRequest}] /\ NoRequest \notin Requests
  BY RunnerAssumption DEF World, Typed, IsWorld
<1>5. r \notin World.displaced /\ active[h] # r /\ r # NoRequest
  BY <1>1, <1>4 DEF Handed, Runs
<1>6. r \notin v.displaced
  BY <1>2, <1>4, <1>5
<1>7. ASSUME NEW q \in Requests
      PROVE  Course(v, q) = IF q = r THEN <<"Running">>
                            ELSE IF q \in D THEN <<"Displaced">> ELSE Course(World, q)
  <2>1. CASE q = r
    BY <1>2, <1>6, <2>1 DEF Course
  <2>2. CASE q # r /\ Answered(World, q)
    BY <1>2, <2>2 DEF Course, Answered, Waits
  <2>3. CASE q # r /\ ~Answered(World, q) /\ q = active[h]
    <3>1. Handed(World, q) /\ q \in v.displaced /\ ~Answered(v, q)
      BY <1>2, <1>4, <2>3 DEF Handed, Runs, Answered
    <3> QED
      BY <2>3, <3>1 DEF Course, Waits
  <2>4. CASE q # r /\ ~Answered(World, q) /\ q # active[h]
    <3>1. ~Answered(v, q) /\ (q \in v.displaced <=> q \in World.displaced)
      BY <1>2, <1>4, <2>4 DEF Answered
    <3>2. Runs(v, q) <=> Runs(World, q)
      BY <1>3, <1>4, <2>4 DEF Runs
    <3>3. Handed(v, q) <=> Handed(World, q)
      BY <2>4, <3>1, <3>2 DEF Handed
    <3> QED
      BY <2>4, <3>1, <3>3 DEF Course
  <2> QED
    BY <2>1, <2>2, <2>3, <2>4
<1>8. \A q \in D : Waits(q) /\ q # r
  BY <1>5
<1>9. D \in SUBSET Requests
  OBVIOUS
<1> HIDE DEF D
<1> QED
  BY <1>7, <1>8, <1>9 DEF Shifts, v

\* Submit, and what the action does before it returns.
LEMMA SubmitSound ==
    ASSUME Typed, Sound(World), NEW r \in Requests, NEW h \in Handles, ~Submitted(r),
           \/ World' = Captured(World, r, h)
           \/ World' = LoadStarted(Captured(World, r, h), h)
           \/ \E result \in Results, made \in BOOLEAN :
                 World' = FinishAction(Captured(World, r, h), h, result, made)
    PROVE  Sound(World') /\ SeesSubmission
<1> DEFINE w == Captured(World, r, h)
<1>1. /\ ~Handed(World, r) /\ IsWorld(World) /\ Course(World, r) = <<"New">>
      /\ World.frames = frames
  BY NewRequests DEF Typed, World
<1>2. /\ Sound(w) /\ ~Answered(w, r) /\ Handed(w, r) /\ w.frames = frames
      /\ \A g \in Handles : w.active[g] = r => g = h
  BY <1>1, CapturedSound
<1>3. IsWorld(w) /\ w.active[h] = r
  BY <1>1, CapturedWorld
<1>4. PICK D \in SUBSET Requests : /\ \A q \in D : Waits(q) /\ q # r
                                   /\ Shifts(World, w, r, <<"Running">>, D)
  BY CapturedShifts
<1> HIDE DEF w
<1>5. <<"Running">> \in {<<"Running">>} \cup {<<a>> : a \in Results}
  OBVIOUS
<1>6. CASE World' = w
  BY <1>1, <1>2, <1>4, <1>5, <1>6 DEF SeesSubmission
<1>7. CASE World' = LoadStarted(w, h)
  <2>1. Sound(World') /\ \A q \in Requests : Course(World', q) = Course(w, q)
    BY <1>2, <1>7, LoadsKeepCourse, SameCourseSound
  <2>2. Shifts(World, World', r, <<"Running">>, D)
    BY <1>4, <2>1 DEF Shifts
  <2> QED
    BY <1>1, <1>4, <1>5, <2>1, <2>2 DEF SeesSubmission
<1>8. ASSUME NEW result \in Results, NEW made \in BOOLEAN,
             World' = FinishAction(w, h, result, made)
      PROVE  Sound(World') /\ SeesSubmission
  <2>1. World' = Finished(w, h, r, FALSE, <<>>, result, made)
    BY <1>3, <1>8, RunnerAssumption DEF FinishAction
  <2>2. <<>> \in Seq(Copies) /\ RestHolds(w, <<>>)
    BY DEF RestHolds
  <2>3. \A n \in DOMAIN w.frames : \A m \in DOMAIN w.frames[n].rest : w.frames[n].rest[m][2] # r
    <3> SUFFICES ASSUME NEW n \in DOMAIN frames, NEW m \in DOMAIN frames[n].rest
                 PROVE  frames[n].rest[m][2] # r
      BY <1>2
    <3>1. RestHolds(World, frames[n].rest)
      BY <1>1 DEF Sound, FramesHold
    <3> QED
      BY <1>1, <3>1 DEF RestHolds
  <2>4. Finishable(w, h, r, <<>>)
    BY <1>2, <2>2, <2>3 DEF Finishable
  <2>5. Sound(World') /\ Settles(w, World', r, Reported(result, made))
    BY <1>2, <1>3, <2>1, <2>2, <2>4, FinishedSound
  <2> DEFINE a == Reported(result, made)
  <2>6. a \in Results
    BY ReportedResult
  <2>7. <<a>> \in {<<"Running">>} \cup {<<b>> : b \in Results}
    BY <2>6
  <2> HIDE DEF a
  <2>8. Shifts(World, World', r, <<a>>, D)
    BY <1>4, <2>5 DEF Shifts, Settles, a
  <2> QED
    BY <1>1, <1>4, <2>5, <2>7, <2>8 DEF SeesSubmission
<1> QED
  BY <1>6, <1>7, <1>8 DEF w

\* FinishActionImpl of what a handle finds in a world that clients see like the
\* one before the step, when no callback runs.
LEMMA FinishSeen ==
    ASSUME Typed, Sound(World), frames = <<>>, NEW w, IsWorld(w), SameCourse(World, w),
           NEW h \in Handles, NEW result \in Results, NEW made,
           World' = FinishAction(w, h, result, made)
    PROVE  Sound(World') /\ (SeesNothing \/ SeesAnswer)
<1>1. /\ Sound(w)
      /\ \A q : Course(w, q) = Course(World, q) /\ (Handed(w, q) <=> Handed(World, q))
  BY SameCourseSound
<1>2. w.frames = <<>> /\ \A q : Answered(w, q) <=> Answered(World, q)
  BY DEF SameCourse, World, Answered
<1>3. /\ Sound(World')
      /\ \/ World' = w
         \/ \E r \in Requests, a \in Results :
               ~Answered(w, r) /\ Handed(w, r) /\ Settles(w, World', r, a)
  BY <1>1, <1>2, FinishActionSound
<1>4. CASE World' = w
  BY <1>1, <1>3, <1>4 DEF SeesNothing
<1>5. ASSUME NEW r \in Requests, NEW a \in Results, ~Answered(w, r), Handed(w, r),
             Settles(w, World', r, a)
      PROVE  SeesAnswer
  <2>1. Waits(r)
    BY <1>1, <1>2, <1>5 DEF Waits
  <2>2. Shifts(World, World', r, <<a>>, {})
    BY <1>1, <1>5 DEF Shifts, Settles
  <2> QED
    BY <2>1, <2>2 DEF SeesAnswer
<1> QED
  BY <1>3, <1>4, <1>5

\* CancelAllActions, up to the callback of its first copy.
LEMMA CancelAllSound ==
    ASSUME Typed, Sound(World), IsFiniteSet(Handles), frames = <<>>,
           NEW copies \in SetToSeqs(Running), copies # <<>>,
           World' = Finished(World, copies[1][1], copies[1][2], TRUE, Tail(copies),
                             "Cancelled", FALSE)
    PROVE  Sound(World') /\ SeesAnswer
<1> DEFINE h == copies[1][1]
           r == copies[1][2]
           rest == Tail(copies)
<1>1. /\ copies \in Seq(Copies)
      /\ \A m \in DOMAIN copies : /\ copies[m][1] \in Handles /\ copies[m][2] \in Requests
                                  /\ active[copies[m][1]] = copies[m][2]
      /\ \A l, m \in DOMAIN copies : copies[l] = copies[m] => l = m
  BY CopiesOfActions
<1>2. /\ 1 \in DOMAIN copies /\ rest \in Seq(Copies)
      /\ \A m \in DOMAIN rest : m + 1 \in DOMAIN copies /\ rest[m] = copies[m + 1]
  BY <1>1, RestParts
<1>3. IsWorld(World) /\ World.frames = <<>> /\ World.active = active
  BY DEF Typed, World
<1>4. \A m \in DOMAIN copies :
         /\ copies[m] = <<copies[m][1], copies[m][2]>> /\ copies[m][1] \in Handles
         /\ copies[m][2] \in Requests /\ ~Answered(World, copies[m][2])
         /\ Handed(World, copies[m][2])
         /\ \A g \in Handles : active[g] = copies[m][2] => g = copies[m][1]
  <2> SUFFICES ASSUME NEW m \in DOMAIN copies
               PROVE  /\ copies[m] = <<copies[m][1], copies[m][2]>> /\ copies[m][1] \in Handles
                      /\ copies[m][2] \in Requests /\ ~Answered(World, copies[m][2])
                      /\ Handed(World, copies[m][2])
                      /\ \A g \in Handles : active[g] = copies[m][2] => g = copies[m][1]
    OBVIOUS
  <2>1. /\ copies[m][1] \in Handles /\ copies[m][2] \in Requests
        /\ active[copies[m][1]] = copies[m][2] /\ copies[m][2] # NoRequest
    BY <1>1, RunnerAssumption
  <2>2. copies[m] = <<copies[m][1], copies[m][2]>>
    BY <1>1 DEF Copies
  <2> QED
    BY <1>3, <2>1, <2>2, NobodyWaits
<1>5. \A l, m \in DOMAIN copies : copies[l][2] = copies[m][2] => l = m
  <2> SUFFICES ASSUME NEW l \in DOMAIN copies, NEW m \in DOMAIN copies,
                      copies[l][2] = copies[m][2]
               PROVE  l = m
    OBVIOUS
  <2>1. copies[l][1] = copies[m][1]
    BY <1>1, <1>4
  <2>2. copies[l] = copies[m]
    BY <1>4, <2>1
  <2> QED
    BY <1>1, <2>2
<1>6. h \in Handles /\ r \in Requests /\ "Cancelled" \in Results
  BY <1>2, <1>4 DEF Results
<1>7. DOMAIN copies \subseteq Nat /\ \A m \in DOMAIN rest : m \in Nat /\ m >= 1
  <2>1. DOMAIN copies = 1..Len(copies) /\ DOMAIN rest = 1..Len(rest) /\ Len(rest) \in Nat
    BY <1>1, <1>2
  <2> QED
    BY <2>1
<1> HIDE DEF rest, h, r
<1>8. \A m \in DOMAIN rest : rest[m][2] # r
  BY <1>2, <1>5, <1>7 DEF r
<1>9. RestHolds(World, rest)
  <2>1. ASSUME NEW m \in DOMAIN rest
        PROVE  /\ ~Answered(World, rest[m][2]) /\ Handed(World, rest[m][2])
               /\ \A g \in Handles : World.active[g] = rest[m][2] => g = rest[m][1]
    <3>1. m + 1 \in DOMAIN copies /\ rest[m] = copies[m + 1]
      BY <1>2
    <3> QED
      BY <1>3, <1>4, <3>1
  <2>2. ASSUME NEW l \in DOMAIN rest, NEW m \in DOMAIN rest, rest[l][2] = rest[m][2]
        PROVE  l = m
    <3>1. l + 1 = m + 1
      BY <1>2, <1>5, <2>2
    <3> QED
      BY <1>7, <3>1
  <2> QED
    BY <2>1, <2>2 DEF RestHolds
<1>10. Finishable(World, h, r, rest)
  <2>1. ~Answered(World, r) /\ Handed(World, r) /\ \A g \in Handles : World.active[g] = r => g = h
    BY <1>2, <1>3, <1>4 DEF h, r
  <2>2. DOMAIN World.frames = {}
    BY <1>3
  <2> QED
    BY <1>3, <1>8, <1>9, <2>1, <2>2 DEF Finishable
<1>11. World' = Finished(World, h, r, TRUE, rest, "Cancelled", FALSE)
  BY DEF h, r, rest
<1>12. Sound(World') /\ Settles(World, World', r, Reported("Cancelled", FALSE))
  BY <1>2, <1>3, <1>6, <1>10, <1>11, FinishedSound
<1> DEFINE a == Reported("Cancelled", FALSE)
<1>13. a \in Results
  BY <1>6, ReportedResult
<1> HIDE DEF a
<1>14. Waits(r) /\ Shifts(World, World', r, <<a>>, {})
  BY <1>10, <1>12 DEF Waits, Finishable, Shifts, Settles, a
<1> QED
  BY <1>6, <1>12, <1>13, <1>14 DEF SeesAnswer

\* A callback returns, and what is left of CancelAllActions goes on.
LEMMA ReturnSound ==
    ASSUME Typed, Sound(World), frames # <<>>, NEW f, f = Last(frames),
           NEW removed, removed = RemoveByHash(Popped, f.handle, f.request),
           \/ active[f.handle] # f.request /\ World' = Stopped(Popped)
           \/ f.rest = <<>> /\ World' = removed
           \/ f.rest # <<>> /\ World' = Finished(removed, Head(f.rest)[1], Head(f.rest)[2], TRUE,
                                                 Tail(f.rest), "Cancelled", FALSE)
    PROVE  Sound(World') /\ (SeesNothing \/ SeesAnswer \/ SeesDisplacement)
<1>1. /\ f.handle \in Handles /\ f.request \in Requests /\ f.rest \in Seq(Copies)
  BY TopFrame
<1>2. IsWorld(Popped) /\ IsWorld(removed)
  BY <1>1, ChangedWorlds, RemoveByHashWorld
<1>3. /\ Sound(removed) /\ RestHolds(removed, f.rest) /\ (f.rest # <<>> => removed.frames = <<>>)
      /\ \A q \in Requests :
            /\ Answered(removed, q) <=> Answered(World, q)
            /\ Course(removed, q) =
                  IF q = active[f.handle] /\ q # f.request /\ ~Answered(World, q)
                  THEN <<"Displaced">> ELSE Course(World, q)
  BY RemovedSound
<1> DEFINE d == active[f.handle]
<1>4. d \in Requests \cup {NoRequest} /\ (d \in Requests => Handed(World, d))
  BY <1>1 DEF Typed, IsWorld, World, Handed, Runs
<1> HIDE DEF d
<1>5. CASE d # f.request /\ World' = Stopped(Popped)
  <2>1. Sound(Popped) /\ \A q \in Requests : Course(Popped, q) = Course(World, q)
    BY <1>5, PoppedSound DEF d
  <2> QED
    BY <1>2, <1>5, <2>1, ChangesKeepCourse, SameCourseSound DEF SeesNothing
<1>6. CASE f.rest = <<>> /\ World' = removed
  <2>1. CASE d \in Requests /\ d # f.request /\ ~Answered(World, d)
    <3>1. Waits(d) /\ Shifts(World, World', d, <<"Displaced">>, {})
      BY <1>3, <1>4, <1>6, <2>1 DEF Shifts, Waits, d
    <3> QED
      BY <1>3, <1>6, <2>1, <3>1 DEF SeesDisplacement
  <2>2. CASE ~(d \in Requests /\ d # f.request /\ ~Answered(World, d))
    BY <1>3, <1>6, <2>2 DEF SeesNothing, d
  <2> QED
    BY <2>1, <2>2
<1>7. CASE f.rest # <<>> /\ World' = Finished(removed, Head(f.rest)[1], Head(f.rest)[2], TRUE,
                                              Tail(f.rest), "Cancelled", FALSE)
  <2> DEFINE h == Head(f.rest)[1]
             r == Head(f.rest)[2]
             rest == Tail(f.rest)
             D == {q \in Requests : q = d /\ q # r /\ Waits(q) /\ q # f.request}
             a == Reported("Cancelled", FALSE)
  <2>1. /\ h = f.rest[1][1] /\ r = f.rest[1][2] /\ h \in Handles /\ r \in Requests
        /\ rest \in Seq(Copies) /\ 1 \in DOMAIN f.rest
        /\ \A m \in DOMAIN rest : m + 1 \in DOMAIN f.rest /\ rest[m] = f.rest[m + 1]
    BY <1>1, <1>7, RestParts
  <2>2. "Cancelled" \in Results /\ a \in Results
    BY ReportedResult DEF Results
  <2>3. \A m \in DOMAIN rest : m \in Nat /\ m >= 1
    <3>1. DOMAIN rest = 1..Len(rest) /\ Len(rest) \in Nat
      BY <2>1
    <3> QED
      BY <3>1
  <2>4. World' = Finished(removed, h, r, TRUE, rest, "Cancelled", FALSE)
    BY <1>7
  <2> HIDE DEF h, r, rest, a
  <2>5. removed.frames = <<>> /\ DOMAIN removed.frames = {}
    BY <1>3, <1>7
  <2>6. /\ ~Answered(removed, r) /\ Handed(removed, r)
        /\ \A g \in Handles : removed.active[g] = r => g = h
    BY <1>3, <2>1 DEF RestHolds
  <2>7. \A m \in DOMAIN rest : rest[m][2] # r
    BY <1>3, <2>1, <2>3 DEF RestHolds
  <2>8. RestHolds(removed, rest)
    <3>1. ASSUME NEW m \in DOMAIN rest
          PROVE  /\ ~Answered(removed, rest[m][2]) /\ Handed(removed, rest[m][2])
                 /\ \A g \in Handles : removed.active[g] = rest[m][2] => g = rest[m][1]
      <4>1. m + 1 \in DOMAIN f.rest /\ rest[m] = f.rest[m + 1]
        BY <2>1
      <4> QED
        BY <1>3, <4>1 DEF RestHolds
    <3>2. ASSUME NEW l \in DOMAIN rest, NEW m \in DOMAIN rest, rest[l][2] = rest[m][2]
          PROVE  l = m
      <4>1. l + 1 = m + 1
        BY <1>3, <2>1, <3>2 DEF RestHolds
      <4> QED
        BY <2>3, <4>1
    <3> QED
      BY <3>1, <3>2 DEF RestHolds
  <2>9. Finishable(removed, h, r, rest)
    BY <2>5, <2>6, <2>7, <2>8 DEF Finishable
  <2>10. Sound(World') /\ Settles(removed, World', r, a)
    BY <1>2, <1>3, <2>1, <2>2, <2>4, <2>9, FinishedSound DEF a
  <2>11. Waits(r)
    <3>1. RestHolds(World, f.rest)
      <4>1. frames \in Seq(Frames) /\ World.frames = frames
        BY DEF Typed, IsWorld, World
      <4> HIDE DEF Frames
      <4>2. f = frames[Len(frames)] /\ Len(frames) \in DOMAIN frames
        BY <4>1, FrontFrames
      <4> QED
        BY <4>1, <4>2 DEF Sound, FramesHold
    <3> QED
      BY <2>1, <3>1 DEF RestHolds, Waits
  <2>12. \A q \in D : Waits(q) /\ q # r
    OBVIOUS
  <2>13. Shifts(World, World', r, <<a>>, D)
    <3> SUFFICES ASSUME NEW q \in Requests
                 PROVE  Course(World', q) = IF q = r THEN <<a>>
                                            ELSE IF q \in D THEN <<"Displaced">> ELSE Course(World, q)
      BY DEF Shifts
    <3>1. CASE q = r
      BY <2>10, <3>1 DEF Settles
    <3>2. CASE q # r
      <4>1. Course(World', q) = Course(removed, q)
        BY <2>10, <3>2 DEF Settles
      <4>2. q \in D <=> (q = d /\ q # f.request /\ ~Answered(World, q))
        BY <1>4, <3>2 DEF Waits
      <4> QED
        BY <1>3, <3>2, <4>1, <4>2 DEF d
    <3> QED
      BY <3>1, <3>2
  <2>14. D \in SUBSET Requests /\ r \notin D
    OBVIOUS
  <2> HIDE DEF D
  <2> QED
    BY <2>1, <2>2, <2>10, <2>11, <2>12, <2>13, <2>14 DEF SeesAnswer
<1> QED
  BY <1>5, <1>6, <1>7 DEF d

\* Every step of a runner whose callbacks only submit.
LEMMA StepsSound ==
    ASSUME FromCallbacks \subseteq {"Submit"}, IsFiniteSet(Handles),
           Typed, Sound(World), Steps
    PROVE  Sound(World') /\ (SeesNothing \/ SeesSubmission \/ SeesAnswer \/ SeesDisplacement)
<1>0. IsWorld(World) /\ SameCourse(World, World)
  BY DEF Typed, SameCourse
<1>1. CASE UNCHANGED vars
  <2>1. World' = World
    BY <1>1 DEF vars, World
  <2> QED
    BY <2>1 DEF SeesNothing
<1>2. ASSUME NEW r \in Requests, NEW h \in Handles, ~Submitted(r),
             \/ World' = Captured(World, r, h)
             \/ World' = LoadStarted(Captured(World, r, h), h)
             \/ \E result \in Results, made \in BOOLEAN :
                   World' = FinishAction(Captured(World, r, h), h, result, made)
      PROVE  Sound(World') /\ SeesSubmission
  BY <1>2, SubmitSound
<1>3. ASSUME NEW h \in Handles, NEW w \in {Unloaded(p) : p \in Pending}, frames = <<>>,
             \/ World' = Stopped(w)
             \/ World' = LoadStarted(w, h)
             \/ \E result \in Results, made \in BOOLEAN : World' = FinishAction(w, h, result, made)
      PROVE  Sound(World') /\ (SeesNothing \/ SeesAnswer)
  <2>1. IsWorld(w) /\ SameCourse(World, w)
    BY ChangedWorlds, ChangesKeepCourse
  <2>2. Sound(w) /\ \A q \in Requests : Course(w, q) = Course(World, q)
    BY <2>1, SameCourseSound
  <2>3. CASE World' = Stopped(w)
    <3>1. SameCourse(w, World')
      BY <2>1, <2>3, ChangesKeepCourse
    <3> QED
      BY <2>2, <3>1, SameCourseSound DEF SeesNothing
  <2>4. CASE World' = LoadStarted(w, h)
    <3>1. SameCourse(w, World')
      BY <2>4, LoadsKeepCourse
    <3> QED
      BY <2>2, <3>1, SameCourseSound DEF SeesNothing
  <2>5. CASE \E result \in Results, made \in BOOLEAN : World' = FinishAction(w, h, result, made)
    BY <1>3, <2>1, <2>5, FinishSeen
  <2> QED
    BY <1>3, <2>3, <2>4, <2>5
<1>4. ASSUME NEW h \in Handles, NEW p \in Pending, frames = <<>>,
             World' = FinishAction(Untimed(p), h, "Timeout", FALSE)
      PROVE  Sound(World') /\ (SeesNothing \/ SeesAnswer)
  <2>1. IsWorld(Untimed(p)) /\ SameCourse(World, Untimed(p)) /\ "Timeout" \in Results
    BY ChangedWorlds, ChangesKeepCourse DEF Results
  <2> QED
    BY <1>4, <2>1, FinishSeen
<1>5. ASSUME NEW h \in Handles, MayCall("Cancel"), World' = FinishAction(World, h, "Cancelled", FALSE)
      PROVE  Sound(World') /\ (SeesNothing \/ SeesAnswer)
  <2>1. frames = <<>> /\ "Cancelled" \in Results
    BY <1>5 DEF MayCall, Results
  <2> QED
    BY <1>0, <1>5, <2>1, FinishSeen
<1>6. ASSUME NEW copies \in SetToSeqs(Running), MayCall("CancelAll"), copies # <<>>,
             World' = Finished(World, copies[1][1], copies[1][2], TRUE, Tail(copies),
                               "Cancelled", FALSE)
      PROVE  Sound(World') /\ SeesAnswer
  <2>1. frames = <<>>
    BY <1>6 DEF MayCall
  <2> QED
    BY <1>6, <2>1, CancelAllSound
<1>7. ASSUME frames # <<>>,
             LET f == Last(frames)
                 removed == RemoveByHash(Popped, f.handle, f.request)
             IN  \/ active[f.handle] # f.request /\ World' = Stopped(Popped)
                 \/ f.rest = <<>> /\ World' = removed
                 \/ f.rest # <<>> /\ World' = Finished(removed, Head(f.rest)[1], Head(f.rest)[2],
                                                       TRUE, Tail(f.rest), "Cancelled", FALSE)
      PROVE  Sound(World') /\ (SeesNothing \/ SeesAnswer \/ SeesDisplacement)
  BY <1>7, ReturnSound
<1> QED
  BY <1>1, <1>2, <1>3, <1>4, <1>5, <1>6, <1>7 DEF Steps

-----------------------------------------------------------------------------
(* The runner keeps the promise of CraftingAnswers.                         *)

\* The state of each request that clients see.
Seen ==
    [r \in Requests |->
        IF answers[r] # <<>> THEN answers[r]
        ELSE IF r \in displaced THEN <<"Displaced">>
        ELSE IF Submitted(r) THEN <<"Running">> ELSE <<"New">>]

LEMMA SeenCourses ==
    /\ \A r \in Requests : Seen[r] = Course(World, r) /\ Seen'[r] = Course(World', r)
    /\ Seen = [r \in Requests |-> Seen[r]] /\ Seen' = [r \in Requests |-> Seen'[r]]
<1>1. /\ \A r \in Requests : Seen[r] = Course(World, r)
      /\ Seen = [r \in Requests |-> Seen[r]]
  BY DEF Seen, Course, Answered, Handed, Runs, Submitted, World
<1>2. Seen' = [r \in Requests |->
                  IF answers'[r] # <<>> THEN answers'[r]
                  ELSE IF r \in displaced' THEN <<"Displaced">>
                  ELSE IF Submitted(r)' THEN <<"Running">> ELSE <<"New">>]
  BY DEF Seen
<1>3. \A r \in Requests : Seen'[r] = Course(World', r)
  BY <1>2 DEF Course, Answered, Handed, Runs, Submitted, World
<1> QED
  BY <1>1, <1>2, <1>3

\* What clients see changes as promised.
LEMMA PromiseKept ==
    ASSUME SeesNothing \/ SeesSubmission \/ SeesAnswer \/ SeesDisplacement
    PROVE  Promise!Next \/ Seen' = Seen
<1>1. CASE SeesNothing
  BY <1>1, SeenCourses DEF SeesNothing
<1> DEFINE Waiting == {r \in Requests : Seen[r] \in {<<"Running">>, <<"Displaced">>}}
<1>2. \A q \in Requests : Waits(q) => q \in Waiting
  BY NewRequests, SeenCourses
<1>3. ASSUME NEW r \in Requests, NEW now \in {<<"Running">>} \cup {<<a>> : a \in Results},
             NEW D \in SUBSET Requests, Course(World, r) = <<"New">>, r \notin D,
             \A q \in D : Waits(q), Shifts(World, World', r, now, D)
      PROVE  Promise!Next
  <2>1. Seen[r] = <<"New">> /\ D \in SUBSET Waiting
    BY <1>2, <1>3, SeenCourses
  <2>2. Seen' = [q \in Requests |->
                    CASE q = r -> now [] q \in D -> <<"Displaced">> [] OTHER -> Seen[q]]
    <3>1. \A q \in Requests :
             Seen'[q] = CASE q = r -> now [] q \in D -> <<"Displaced">> [] OTHER -> Seen[q]
      BY <1>3, SeenCourses DEF Shifts
    <3> QED
      BY <3>1, SeenCourses
  <2>3. Promise!Submit(r)
    BY <1>3, <2>1, <2>2 DEF Promise!Submit, Promise!New, Promise!Running, Promise!Displaced,
                            Promise!Waiting, Seen
  <2> QED
    BY <2>3 DEF Promise!Next
<1>4. ASSUME NEW r \in Requests, NEW a \in Results, NEW D \in SUBSET Requests,
             Waits(r), r \notin D, \A q \in D : Waits(q), Shifts(World, World', r, <<a>>, D)
      PROVE  Promise!Next
  <2>1. r \in Waiting /\ D \in SUBSET (Waiting \ {r})
    BY <1>2, <1>4
  <2>2. Seen' = [q \in Requests |->
                    CASE q = r -> <<a>> [] q \in D -> <<"Displaced">> [] OTHER -> Seen[q]]
    <3>1. \A q \in Requests :
             Seen'[q] = CASE q = r -> <<a>> [] q \in D -> <<"Displaced">> [] OTHER -> Seen[q]
      BY <1>4, SeenCourses DEF Shifts
    <3> QED
      BY <3>1, SeenCourses
  <2>3. Promise!Answer(r)
    BY <2>1, <2>2 DEF Promise!Answer, Promise!Running, Promise!Displaced, Promise!Waiting, Seen
  <2> QED
    BY <2>3 DEF Promise!Next
<1>5. ASSUME NEW r \in Requests, Waits(r), Shifts(World, World', r, <<"Displaced">>, {})
      PROVE  Promise!Next
  <2>1. r \in Waiting
    BY <1>2, <1>5
  <2>2. Seen' = [Seen EXCEPT ![r] = <<"Displaced">>]
    <3>1. \A q \in Requests : Seen'[q] = IF q = r THEN <<"Displaced">> ELSE Seen[q]
      BY <1>5, SeenCourses DEF Shifts
    <3> QED
      BY <3>1, SeenCourses
  <2>3. Promise!Displace(r)
    BY <2>1, <2>2 DEF Promise!Displace, Promise!Running, Promise!Displaced, Promise!Waiting, Seen
  <2> QED
    BY <2>3 DEF Promise!Next
<1> QED
  BY <1>1, <1>3, <1>4, <1>5 DEF SeesSubmission, SeesAnswer, SeesDisplacement

\* At first no request is submitted.
LEMMA InitSound == Init => Sound(World) /\ Promise!Init
<1> SUFFICES ASSUME Init PROVE Sound(World) /\ Promise!Init
  OBVIOUS
<1>1. \A h \in Handles : active[h] = NoRequest
  BY DEF Init
<1>2. DOMAIN frames = {} /\ World.frames = frames /\ World.active = active
  BY DEF Init, World
<1>3. Sound(World)
  BY <1>1, <1>2 DEF Sound, OneHandleEach, AnsweredWait, FramesHold
<1>4. \A r \in Requests : ~Submitted(r)
  BY <1>1, RunnerAssumption DEF Submitted, Init
<1>5. Seen = [r \in Requests |-> <<"New">>]
  BY <1>4 DEF Seen, Init
<1> QED
  BY <1>3, <1>5 DEF Promise!Init, Promise!New, Seen

\* Every request is answered at most once, and its answer stands: the runner
\* implements CraftingAnswers, whatever handles FMath::Rand() draws, when the
\* callbacks only submit.  A callback that cancels its own action again has it
\* finished twice, for FinishActionImpl removes the action when its callback has
\* returned.
THEOREM AnswersComeOnce ==
    IsFiniteSet(Handles) /\ FromCallbacks \subseteq {"Submit"} => (Spec => AnsweredOnce)
<1> SUFFICES ASSUME IsFiniteSet(Handles), FromCallbacks \subseteq {"Submit"}
             PROVE  Spec => AnsweredOnce
  OBVIOUS
<1> DEFINE Kept == Typed /\ Sound(World)
<1>1. Init => Kept /\ Promise!Init
  BY InitTyped, InitSound
<1>2. Kept /\ [Next]_vars => Kept' /\ (Promise!Next \/ Seen' = Seen)
  <2> SUFFICES ASSUME Kept, [Next]_vars PROVE Kept' /\ (Promise!Next \/ Seen' = Seen)
    OBVIOUS
  <2>1. Typed' /\ Steps
    BY StepsAre
  <2>2. Sound(World') /\ (SeesNothing \/ SeesSubmission \/ SeesAnswer \/ SeesDisplacement)
    BY <2>1, StepsSound
  <2>3. Sound(World)'
    BY <2>2 DEF Sound, OneHandleEach, AnsweredWait, FramesHold, RestHolds, Answered, Handed, Runs
  <2> QED
    BY <2>1, <2>2, <2>3, PromiseKept
<1>3. Kept /\ [Next]_vars => [Promise!Next]_Seen
  BY <1>2
<1> HIDE DEF Kept
<1> QED
  BY <1>1, <1>2, <1>3, PTL DEF Spec, AnsweredOnce, Promise!Spec, Seen

-----------------------------------------------------------------------------
(* Loops, given as functions of the number of steps.                        *)

\* Naturals that are some have a least one.
LEMMA LeastNatural ==
  ASSUME NEW S \in SUBSET Nat, NEW n \in S
  PROVE  \E m \in S : \A k \in S : m <= k
<1> DEFINE less == {p \in Nat \X Nat : p[1] < p[2]}
<1>1. PICK m \in S : \A k \in S : <<k, m>> \notin less
  BY NatLessThanWellFounded, WFMin DEF OpToRel
<1>2. \A k \in S : <<k, m>> \in Nat \X Nat
  OBVIOUS
<1>3. \A k \in S : ~ k < m
  BY <1>1, <1>2
<1> QED
  BY <1>3

\* Something holds after the loop if it holds at first and each step keeps it:
\* Kept is the set of the numbers of steps after which it does.
LEMMA LoopInduction ==
    ASSUME NEW N \in Nat, NEW Kept, 0 \in Kept,
           \A n \in 1 .. N : n - 1 \in Kept => n \in Kept
    PROVE  \A n \in 0 .. N : n \in Kept
<1> DEFINE bad == {n \in 0 .. N : n \notin Kept}
<1>1. SUFFICES ASSUME NEW b \in bad PROVE FALSE
  OBVIOUS
<1>2. PICK n \in bad : \A m \in bad : n <= m
  <2>1. bad \in SUBSET Nat
    OBVIOUS
  <2> HIDE DEF bad
  <2> QED
    BY <2>1, LeastNatural
<1>3. n # 0 /\ n \in 0 .. N
  BY <1>2
<1>4. n \in 1 .. N /\ n - 1 \in 0 .. N /\ ~(n <= n - 1)
  BY <1>3
<1>5. n - 1 \in Kept
  BY <1>2, <1>4
<1> QED
  BY <1>2, <1>4, <1>5

\* A loop whose step is a function on a set ends: there is the function that
\* gives what it has after each number of steps.
LoopOf(f, N, start, step) ==
    f = [k \in 0 .. N |-> IF k = 0 THEN start ELSE step[<<k, f[k - 1]>>]]

LEMMA LoopExists ==
    ASSUME NEW N \in Nat, NEW S, NEW start \in S, NEW step \in [(1 .. N) \X S -> S]
    PROVE  \E f \in [0 .. N -> S] : LoopOf(f, N, start, step)
<1> DEFINE RunsTo(f, n) == f[0] = start /\ \A k \in 1 .. n : f[k] = step[<<k, f[k - 1]>>]
           Kept == {n \in 0 .. N : \E f \in [0 .. n -> S] : RunsTo(f, n)}
<1>1. 0 \in Kept
  <2> DEFINE f == [k \in 0 .. 0 |-> start]
  <2>1. f \in [0 .. 0 -> S] /\ RunsTo(f, 0)
    OBVIOUS
  <2> HIDE DEF f, RunsTo
  <2> QED
    BY <2>1
<1>2. ASSUME NEW n \in 1 .. N, n - 1 \in Kept PROVE n \in Kept
  <2>1. PICK f \in [0 .. n - 1 -> S] : RunsTo(f, n - 1)
    BY <1>2
  <2>2. n - 1 \in 0 .. n - 1 /\ n \in Nat /\ n - 1 \in Nat
    OBVIOUS
  <2>3. step[<<n, f[n - 1]>>] \in S
    BY <2>1, <2>2
  <2> DEFINE g == [k \in 0 .. n |-> IF k = n THEN step[<<n, f[n - 1]>>] ELSE f[k]]
  <2>4. g \in [0 .. n -> S]
    BY <2>1, <2>3
  <2>5. \A k \in 0 .. n - 1 : g[k] = f[k]
    BY <2>2
  <2>6. g[n] = step[<<n, f[n - 1]>>]
    BY <2>2
  <2> HIDE DEF g
  <2>7. RunsTo(g, n)
    <3>1. g[0] = start
      BY <2>1, <2>2, <2>5
    <3>2. ASSUME NEW k \in 1 .. n PROVE g[k] = step[<<k, g[k - 1]>>]
      <4>1. k - 1 \in 0 .. n - 1 /\ g[k - 1] = f[k - 1]
        BY <2>2, <2>5
      <4>2. CASE k = n
        BY <2>6, <4>1, <4>2
      <4>3. CASE k # n
        <5>1. k \in 1 .. n - 1 /\ k \in 0 .. n - 1
          BY <2>2, <4>3
        <5>2. f[k] = step[<<k, f[k - 1]>>]
          BY <2>1, <5>1
        <5> QED
          BY <2>5, <4>1, <5>1, <5>2
      <4> QED
        BY <4>2, <4>3
    <3> QED
      BY <3>1, <3>2
  <2> HIDE DEF RunsTo
  <2> QED
    BY <2>2, <2>4, <2>7
<1>3. N \in Kept
  <2> HIDE DEF Kept
  <2>1. \A n \in 0 .. N : n \in Kept
    BY <1>1, <1>2, LoopInduction
  <2> QED
    BY <2>1
<1>4. PICK f \in [0 .. N -> S] : RunsTo(f, N)
  BY <1>3
<1>5. ASSUME NEW k \in 0 .. N PROVE f[k] = IF k = 0 THEN start ELSE step[<<k, f[k - 1]>>]
  BY <1>4, <1>5
<1>6. f = [k \in 0 .. N |-> f[k]]
  BY <1>4
<1> HIDE DEF RunsTo
<1>7. LoopOf(f, N, start, step)
  BY <1>5, <1>6 DEF LoopOf
<1> QED
  BY <1>7

\* And what a set has at first, and is kept in by each step, it has in the end.
LEMMA LoopStays ==
    ASSUME NEW N \in Nat, NEW T, NEW f, f[0] \in T,
           \A k \in 1 .. N : f[k - 1] \in T => f[k] \in T
    PROVE  \A k \in 0 .. N : f[k] \in T
<1> DEFINE Kept == {k \in 0 .. N : f[k] \in T}
<1>1. 0 \in Kept
  OBVIOUS
<1>2. ASSUME NEW k \in 1 .. N, k - 1 \in Kept PROVE k \in Kept
  BY <1>2
<1> HIDE DEF Kept
<1>3. \A k \in 0 .. N : k \in Kept
  BY <1>1, <1>2, LoopInduction
<1> QED
  BY <1>3 DEF Kept

-----------------------------------------------------------------------------
(* Types.                                                                   *)

StockOf == [copies : Nat, uses : Nat, max : Nat, marks : SUBSET Marks]
Stocks == [Items -> StockOf]

LEMMA ReleaseStock ==
    ASSUME NEW st \in Stocks, NEW i \in Items, NEW n \in Nat
    PROVE  Release(st, i, n) \in Stocks
<1>1. CASE ~CanRelease(st, i, n)
  BY <1>1 DEF Release
<1>2. CASE CanRelease(st, i, n)
  <2>1. st[i] \in StockOf /\ st[i].copies >= n
    BY <1>2 DEF CanRelease, Stocks
  <2>2. [st[i] EXCEPT !.copies = st[i].copies - n] \in StockOf
    BY <2>1 DEF StockOf
  <2>3. Release(st, i, n) = [st EXCEPT ![i] = [st[i] EXCEPT !.copies = st[i].copies - n]]
    BY <1>2 DEF Release, Stocks
  <2> QED
    BY <2>2, <2>3 DEF Stocks
<1> QED
  BY <1>1, <1>2

\* One more piece of scrap.
LEMMA ScrapStock ==
    ASSUME NEW st \in Stocks, NEW i \in Items
    PROVE  [st EXCEPT ![i].copies = @ + 1] \in Stocks
<1>1. [st[i] EXCEPT !.copies = st[i].copies + 1] \in StockOf
  BY DEF StockOf, Stocks
<1> QED
  BY <1>1 DEF Stocks

\* Uses set anew.
LEMMA UsesStock ==
    ASSUME NEW st \in Stocks, NEW i \in Items, NEW n \in Nat, NEW m \in Nat
    PROVE  /\ [st EXCEPT ![i].uses = n] \in Stocks
           /\ [st EXCEPT ![i].max = m, ![i].uses = n] \in Stocks
<1>1. [st[i] EXCEPT !.uses = n] \in StockOf /\ [st[i] EXCEPT !.max = m] \in StockOf
  BY DEF StockOf, Stocks
<1>2. [st EXCEPT ![i].uses = n] \in Stocks
  BY <1>1 DEF Stocks
<1>3. [st[i] EXCEPT !.max = m, !.uses = n] \in StockOf
  BY DEF StockOf, Stocks
<1>4. [st EXCEPT ![i].max = m, ![i].uses = n] = [st EXCEPT ![i] = [st[i] EXCEPT !.max = m, !.uses = n]]
  BY DEF Stocks
<1> QED
  BY <1>2, <1>3, <1>4 DEF Stocks

LEMMA RemoveUsesStock ==
    ASSUME NEW st \in Stocks, NEW t \in Tools, NEW n \in Nat
    PROVE  RemoveUses(st, t, n) \in Stocks
<1>1. t \in Items /\ Scrap \in Items
  BY CraftingCostsAssumption
<1>2. st[t].uses \in Nat
  BY <1>1 DEF Stocks, StockOf
<1>3. CASE st[t].uses < n
  BY <1>2, <1>3 DEF RemoveUses
<1>4. CASE ~(st[t].uses < n)
  <2> DEFINE used == [st EXCEPT ![t].uses = st[t].uses - n]
  <2>1. used \in Stocks
    <3>1. st[t].uses - n \in Nat
      BY <1>2, <1>4
    <3> QED
      BY <1>1, <3>1, UsesStock
  <2>2. RemoveUses(st, t, n) = IF st[t].uses > n THEN used ELSE OnLastUse(used, t)
    BY <1>1, <1>2, <1>4 DEF RemoveUses
  <2> HIDE DEF used
  <2>3. Release(used, t, 1) \in Stocks
    BY <1>1, <2>1, ReleaseStock
  <2>4. [Release(used, t, 1) EXCEPT ![Scrap].copies = @ + 1] \in Stocks
    BY <1>1, <2>3, ScrapStock
  <2>5. OnLastUse(used, t) \in Stocks
    BY <2>1, <2>3, <2>4 DEF OnLastUse
  <2> QED
    BY <2>1, <2>2, <2>5
<1> QED
  BY <1>3, <1>4

-----------------------------------------------------------------------------
(* Payments.                                                                *)

IsPayment(filled, cost) ==
  /\ Len(cost) \in Nat
  /\ \A k \in 1 .. Len(cost) : cost[k].amount \in Nat
  /\ \A name \in DOMAIN filled : filled[name] \in Items

LEMMA PaymentsAre == ASSUME NEW p \in Payments PROVE IsPayment(p.filled, p.cost)
<1>1. p.cost \in Seq({ p.cost[k] : k \in DOMAIN p.cost })
  BY CraftingCostsAssumption
<1>2. Len(p.cost) \in Nat /\ DOMAIN p.cost = 1 .. Len(p.cost)
  BY <1>1
<1> QED
  BY <1>2, CraftingCostsAssumption DEF IsPayment

Payers == [over : BOOLEAN, stock : Stocks]

LEMMA PaySlotStock ==
    ASSUME NEW w \in Payers, NEW filled, NEW slot, slot.amount \in Nat,
           \A name \in DOMAIN filled : filled[name] \in Items
    PROVE  PaySlot(w, filled, slot) \in Payers
<1> DEFINE i == filled[slot.name]
<1>1. CASE w.over \/ slot.name \notin DOMAIN filled \/ ~Present(w.stock, i)
  BY <1>1 DEF PaySlot, Payers
<1>2. CASE ~(w.over \/ slot.name \notin DOMAIN filled \/ ~Present(w.stock, i))
  <2>1. i \in Items /\ w.stock \in Stocks
    BY <1>2 DEF Payers
  <2>2. Release(w.stock, i, slot.amount) \in Stocks
    BY <2>1, ReleaseStock
  <2>3. i \in Tools => RemoveUses(w.stock, i, slot.amount) \in Stocks
    BY <2>1, RemoveUsesStock
  <2>4. PaySlot(w, filled, slot) =
          IF slot.inUses /\ i \in Tools THEN [over |-> TRUE, stock |-> RemoveUses(w.stock, i, slot.amount)]
          ELSE IF slot.inUses THEN w
          ELSE [w EXCEPT !.stock = Release(w.stock, i, slot.amount)]
    BY <1>2 DEF PaySlot
  <2> HIDE DEF i
  <2> QED
    BY <2>2, <2>3, <2>4 DEF Payers
<1> QED
  BY <1>1, <1>2

\* The loop over the slots.
IsPaying(f, st, filled, cost) ==
    f = [k \in 0 .. Len(cost) |->
           IF k = 0 THEN [over |-> FALSE, stock |-> st] ELSE PaySlot(f[k - 1], filled, cost[k])]

LEMMA ConsumeStock ==
    ASSUME NEW st \in Stocks, NEW filled, NEW cost, IsPayment(filled, cost)
    PROVE  ConsumeSlotCosts(st, filled, cost) \in Stocks
<1> DEFINE N == Len(cost)
           start == [over |-> FALSE, stock |-> st]
           step == [q \in (1 .. N) \X Payers |-> PaySlot(q[2], filled, cost[q[1]])]
<1>1. N \in Nat /\ start \in Payers
  BY DEF IsPayment, Payers
<1>2. \A k \in 1 .. N : \A w \in Payers : PaySlot(w, filled, cost[k]) \in Payers
  BY PaySlotStock DEF IsPayment
<1>3. step \in [(1 .. N) \X Payers -> Payers]
  <2>1. \A q \in (1 .. N) \X Payers : PaySlot(q[2], filled, cost[q[1]]) \in Payers
    BY <1>2
  <2> QED
    BY <2>1
<1>4. PICK f \in [0 .. N -> Payers] : LoopOf(f, N, start, step)
  <2> HIDE DEF N, start, step
  <2> QED
    BY <1>1, <1>3, LoopExists
<1>5. IsPaying(f, st, filled, cost)
  <2>1. \A k \in 1 .. N : step[<<k, f[k - 1]>>] = PaySlot(f[k - 1], filled, cost[k])
    <3> TAKE k \in 1 .. N
    <3>1. k - 1 \in 0 .. N /\ f[k - 1] \in Payers
      BY <1>1, <1>4
    <3> QED
      BY <3>1
  <2>2. ASSUME NEW k \in 0 .. N PROVE f[k] = IF k = 0 THEN start ELSE PaySlot(f[k - 1], filled, cost[k])
    <3> HIDE DEF step, N, start
    <3>1. f[k] = IF k = 0 THEN start ELSE step[<<k, f[k - 1]>>]
      BY <1>1, <1>4 DEF LoopOf
    <3>2. k # 0 => k \in 1 .. N
      BY <1>1
    <3> QED
      BY <2>1, <3>1, <3>2
  <2>3. f = [k \in 0 .. N |-> f[k]]
    BY <1>1, <1>4
  <2> HIDE DEF step
  <2> QED
    BY <2>2, <2>3 DEF IsPaying
<1> DEFINE after[k \in 0 .. N] ==
             IF k = 0 THEN [over |-> FALSE, stock |-> st] ELSE PaySlot(after[k - 1], filled, cost[k])
<1>6. after = CHOOSE g : IsPaying(g, st, filled, cost)
  BY DEF IsPaying, after
<1>7. ConsumeSlotCosts(st, filled, cost) = after[N].stock
  BY DEF ConsumeSlotCosts
<1> HIDE DEF after, step
<1>8. IsPaying(after, st, filled, cost)
  BY <1>5, <1>6
<1>9. \A k \in 0 .. N : after[k] \in Payers
  <2>1. after[0] \in Payers /\ \A k \in 1 .. N : after[k] = PaySlot(after[k - 1], filled, cost[k])
    <3>1. \A k \in 0 .. N : after[k] = IF k = 0 THEN start ELSE PaySlot(after[k - 1], filled, cost[k])
      BY <1>8 DEF IsPaying
    <3> HIDE DEF N, start
    <3> QED
      BY <1>1, <3>1
  <2> HIDE DEF N, start
  <2> QED
    BY <1>1, <1>2, <2>1, LoopStays
<1> QED
  BY <1>1, <1>7, <1>9 DEF Payers

\* The loop over the targets.
IsPaidFor(f, st, n) ==
    f = [k \in 0 .. n |-> IF k = 0 THEN st ELSE ConsumeSlotCosts(f[k - 1], job.filled, job.cost)]

LEMMA PaidForStock ==
    ASSUME NEW st \in Stocks, NEW n \in Nat, IsPayment(job.filled, job.cost)
    PROVE  PaidFor(st, n) \in Stocks /\ (n = 0 => PaidFor(st, n) = st)
<1> DEFINE pay(s) == ConsumeSlotCosts(s, job.filled, job.cost)
           step == [q \in (1 .. n) \X Stocks |-> pay(q[2])]
<1>1. \A s \in Stocks : pay(s) \in Stocks
  BY ConsumeStock
<1>2. step \in [(1 .. n) \X Stocks -> Stocks]
  <2> HIDE DEF pay
  <2>1. \A q \in (1 .. n) \X Stocks : pay(q[2]) \in Stocks
    BY <1>1
  <2> QED
    BY <2>1
<1>3. PICK f \in [0 .. n -> Stocks] : LoopOf(f, n, st, step)
  <2> HIDE DEF step
  <2> QED
    BY <1>2, LoopExists
<1>4. IsPaidFor(f, st, n)
  <2>1. \A k \in 1 .. n : step[<<k, f[k - 1]>>] = pay(f[k - 1])
    <3> HIDE DEF pay
    <3> TAKE k \in 1 .. n
    <3>1. k - 1 \in 0 .. n /\ f[k - 1] \in Stocks
      BY <1>3
    <3> QED
      BY <3>1
  <2>2. ASSUME NEW k \in 0 .. n PROVE f[k] = IF k = 0 THEN st ELSE pay(f[k - 1])
    <3> HIDE DEF step, pay
    <3>1. f[k] = IF k = 0 THEN st ELSE step[<<k, f[k - 1]>>]
      BY <1>3 DEF LoopOf
    <3>2. k # 0 => k \in 1 .. n
      BY <1>1
    <3> QED
      BY <2>1, <3>1, <3>2
  <2>3. f = [k \in 0 .. n |-> f[k]]
    BY <1>3
  <2> HIDE DEF step
  <2> QED
    BY <2>2, <2>3 DEF IsPaidFor
<1> DEFINE after[k \in 0 .. n] ==
             IF k = 0 THEN st ELSE ConsumeSlotCosts(after[k - 1], job.filled, job.cost)
<1>5. after = CHOOSE g : IsPaidFor(g, st, n)
  BY DEF IsPaidFor, after
<1>6. PaidFor(st, n) = after[n]
  BY DEF PaidFor
<1> HIDE DEF after, step
<1>7. IsPaidFor(after, st, n)
  BY <1>4, <1>5
<1>8. after[0] = st /\ \A k \in 1 .. n : after[k] = pay(after[k - 1])
  BY <1>7 DEF IsPaidFor
<1> HIDE DEF pay
<1>9. \A k \in 0 .. n : after[k] \in Stocks
  BY <1>1, <1>8, LoopStays
<1> QED
  BY <1>6, <1>8, <1>9

-----------------------------------------------------------------------------
(* Mutators.                                                                *)

\* A set of instances that whether the last mutator did is not asked for.
Okless(T) == T \subseteq Instances /\ \A t \in T : \A b \in BOOLEAN : [t EXCEPT !.ok = b] \in T
KeepsIn(effect, T) == \A m \in Mutators : \A t \in T : effect[m][t] \in T

\* The loops over the children.
IsFirst(f, effect, children, t) ==
    f = [k \in 0 .. Len(children) |->
           IF k = 0 THEN Fails(t)
           ELSE LET s == f[k - 1] IN IF s.ok THEN s ELSE effect[children[k]][s]]
IsEach(f, effect, children, t) ==
    f = [k \in 0 .. Len(children) |->
           IF k = 0 THEN [t EXCEPT !.ok = TRUE]
           ELSE LET s == f[k - 1]
                    done == effect[children[k]][s]
                IN  [done EXCEPT !.ok = s.ok /\ done.ok]]

LEMMA FirstStays ==
    ASSUME NEW T, Okless(T), NEW effect, KeepsIn(effect, T), NEW children \in Seq(Mutators), NEW t \in T
    PROVE  ApplyFirst(effect, children, t) \in T
<1> DEFINE N == Len(children)
           one(k, s) == IF s.ok THEN s ELSE effect[children[k]][s]
           step == [q \in (1 .. N) \X T |-> one(q[1], q[2])]
<1>1. N \in Nat /\ Fails(t) \in T
  <2>1. [t EXCEPT !.ok = FALSE] \in T
    BY DEF Okless
  <2> QED
    BY <2>1 DEF Fails
<1>2. \A k \in 1 .. N : \A s \in T : one(k, s) \in T
  BY DEF KeepsIn
<1>3. step \in [(1 .. N) \X T -> T]
  <2> HIDE DEF one
  <2>1. \A q \in (1 .. N) \X T : one(q[1], q[2]) \in T
    BY <1>2
  <2> QED
    BY <2>1
<1>4. PICK f \in [0 .. N -> T] : LoopOf(f, N, Fails(t), step)
  <2> HIDE DEF N, step
  <2> QED
    BY <1>1, <1>3, LoopExists
<1>5. IsFirst(f, effect, children, t)
  <2>1. \A k \in 1 .. N : step[<<k, f[k - 1]>>] = one(k, f[k - 1])
    <3> HIDE DEF one
    <3> TAKE k \in 1 .. N
    <3>1. k - 1 \in 0 .. N /\ f[k - 1] \in T
      BY <1>1, <1>4
    <3> QED
      BY <3>1
  <2>2. ASSUME NEW k \in 0 .. N PROVE f[k] = IF k = 0 THEN Fails(t) ELSE one(k, f[k - 1])
    <3> HIDE DEF step, N, one
    <3>1. f[k] = IF k = 0 THEN Fails(t) ELSE step[<<k, f[k - 1]>>]
      BY <1>1, <1>4 DEF LoopOf
    <3>2. k # 0 => k \in 1 .. N
      BY <1>1
    <3> QED
      BY <2>1, <3>1, <3>2
  <2>3. f = [k \in 0 .. N |-> f[k]]
    BY <1>1, <1>4
  <2> HIDE DEF step
  <2> QED
    BY <2>2, <2>3 DEF IsFirst
<1> DEFINE after[k \in 0 .. N] ==
             IF k = 0 THEN Fails(t)
             ELSE LET s == after[k - 1] IN IF s.ok THEN s ELSE effect[children[k]][s]
<1>6. after = CHOOSE g : IsFirst(g, effect, children, t)
  BY DEF IsFirst, after
<1>7. ApplyFirst(effect, children, t) = after[N]
  BY DEF ApplyFirst
<1> HIDE DEF after, step
<1>8. IsFirst(after, effect, children, t)
  BY <1>5, <1>6
<1>9. after[0] = Fails(t) /\ \A k \in 1 .. N : after[k] = one(k, after[k - 1])
  BY <1>1, <1>8, SMTT(30) DEF IsFirst
<1> HIDE DEF one, N
<1>10. \A k \in 0 .. N : after[k] \in T
  BY <1>1, <1>2, <1>9, LoopStays
<1> QED
  BY <1>1, <1>7, <1>10

LEMMA EachStays ==
    ASSUME NEW T, Okless(T), NEW effect, KeepsIn(effect, T), NEW children \in Seq(Mutators), NEW t \in T
    PROVE  ApplyEach(effect, children, t) \in T
<1> DEFINE N == Len(children)
           begin == [t EXCEPT !.ok = TRUE]
           one(k, s) ==
             LET done == effect[children[k]][s] IN [done EXCEPT !.ok = s.ok /\ done.ok]
           step == [q \in (1 .. N) \X T |-> one(q[1], q[2])]
<1>1. N \in Nat /\ begin \in T
  <2>1. [t EXCEPT !.ok = TRUE] \in T
    BY DEF Okless
  <2> QED
    BY <2>1
<1>2. ASSUME NEW k \in 1 .. N, NEW s \in T PROVE one(k, s) \in T
  <2>1. effect[children[k]][s] \in T
    BY DEF KeepsIn
  <2>2. s \in Instances /\ effect[children[k]][s] \in Instances
    BY <2>1 DEF Okless
  <2>3. (effect[children[k]][s].ok /\ s.ok) \in BOOLEAN
    OBVIOUS
  <2> QED
    BY <2>1, <2>2, <2>3 DEF Okless
<1>3. step \in [(1 .. N) \X T -> T]
  <2> HIDE DEF one
  <2>1. \A q \in (1 .. N) \X T : one(q[1], q[2]) \in T
    BY <1>2
  <2> QED
    BY <2>1
<1>4. PICK f \in [0 .. N -> T] : LoopOf(f, N, begin, step)
  <2> HIDE DEF N, step, begin
  <2> QED
    BY <1>1, <1>3, LoopExists
<1>5. IsEach(f, effect, children, t)
  <2>1. \A k \in 1 .. N : step[<<k, f[k - 1]>>] = one(k, f[k - 1])
    <3> HIDE DEF one
    <3> TAKE k \in 1 .. N
    <3>1. k - 1 \in 0 .. N /\ f[k - 1] \in T
      BY <1>1, <1>4
    <3> QED
      BY <3>1
  <2>2. ASSUME NEW k \in 0 .. N PROVE f[k] = IF k = 0 THEN begin ELSE one(k, f[k - 1])
    <3> HIDE DEF step, N, one, begin
    <3>1. f[k] = IF k = 0 THEN begin ELSE step[<<k, f[k - 1]>>]
      BY <1>1, <1>4 DEF LoopOf
    <3>2. k # 0 => k \in 1 .. N
      BY <1>1
    <3> QED
      BY <2>1, <3>1, <3>2
  <2>3. f = [k \in 0 .. N |-> f[k]]
    BY <1>1, <1>4
  <2> HIDE DEF step
  <2> QED
    BY <2>2, <2>3 DEF IsEach
<1> DEFINE after[k \in 0 .. N] ==
             IF k = 0 THEN [t EXCEPT !.ok = TRUE]
             ELSE LET s == after[k - 1]
                      done == effect[children[k]][s]
                  IN  [done EXCEPT !.ok = s.ok /\ done.ok]
<1>6. after = CHOOSE g : IsEach(g, effect, children, t)
  BY DEF IsEach, after
<1>7. ApplyEach(effect, children, t) = after[N]
  BY DEF ApplyEach
<1> HIDE DEF after, step
<1>8. IsEach(after, effect, children, t)
  BY <1>5, <1>6
<1>9. after[0] = begin /\ \A k \in 1 .. N : after[k] = one(k, after[k - 1])
  <2>1. \A k \in 0 .. N : after[k] = IF k = 0 THEN begin ELSE one(k, after[k - 1])
    BY <1>8 DEF IsEach
  <2> HIDE DEF N, begin, one
  <2> QED
    BY <1>1, <2>1
<1> HIDE DEF one, N, begin
<1>10. \A k \in 0 .. N : after[k] \in T
  BY <1>1, <1>2, <1>9, LoopStays
<1> QED
  BY <1>1, <1>7, <1>10

\* The instances that work on a duplicate of an item with the marks `stored'.
Apart(stored) == { t \in Instances : t.apart = TRUE /\ t.stored = stored }

LEMMA OklessSets == Okless(Instances) /\ \A stored : Okless(Apart(stored))
<1>1. \A t \in Instances : \A b \in BOOLEAN :
        /\ [t EXCEPT !.ok = b] \in Instances
        /\ [t EXCEPT !.ok = b].apart = t.apart /\ [t EXCEPT !.ok = b].stored = t.stored
  BY DEF Instances
<1> QED
  BY <1>1 DEF Okless, Apart

\* An effect: what each mutator makes of an instance; the item of one that is
\* apart stays as it is, as every item does under ApplyAll.
Effect(e) ==
    /\ e \in [Mutators -> [Instances -> Instances]]
    /\ \A stored : KeepsIn(e, Apart(stored))
    /\ \A m \in Mutators : m.kind = "all" => \A t \in Instances : e[m][t].stored = t.stored

LEMMA MutatorsAre ==
    ASSUME NEW m \in Mutators
    PROVE  /\ m.kind \in {"mark", "first", "any", "all", "unmarked"}
           /\ m.kind = "mark" => m.mark \in Marks
           /\ m.kind # "mark" => m.children \in Seq(Mutators)
           /\ m.kind = "unmarked" => m.children[1] \in Mutators
<1>1. m.kind = "unmarked" => Len(m.children) = 1 /\ m.children \in Seq(Mutators)
  BY CraftingCostsAssumption
<1>2. m.kind = "unmarked" => 1 \in DOMAIN m.children
  BY <1>1
<1> QED
  BY <1>1, <1>2, CraftingCostsAssumption

LEMMA MarkIs ==
    ASSUME NEW t \in Instances, NEW mark \in Marks
    PROVE  Mark(t, mark) \in Instances /\ (t.apart => Mark(t, mark) \in Apart(t.stored))
  BY DEF Mark, Instances, Apart

\* ApplyAll: its children work on a duplicate.
LEMMA AllIs ==
    ASSUME NEW e, Effect(e), NEW children \in Seq(Mutators), NEW t \in Instances
    PROVE  /\ ApplyAll(e, children, t) \in Instances
           /\ ApplyAll(e, children, t).stored = t.stored
           /\ t.apart => ApplyAll(e, children, t) \in Apart(t.stored)
<1> DEFINE begin == [t EXCEPT !.apart = TRUE]
           copy == ApplyEach(e, children, begin)
<1>1. begin \in Apart(t.stored)
  BY DEF Instances, Apart
<1>2. copy \in Apart(t.stored)
  <2> HIDE DEF begin
  <2> QED
    BY <1>1, EachStays, OklessSets DEF Effect
<1>3. Fails(t) \in Instances /\ Fails(t).stored = t.stored /\ Fails(t).apart = t.apart
  BY DEF Fails, Instances
<1>4. ApplyAll(e, children, t) = copy \/ ApplyAll(e, children, t) = Fails(t)
  BY DEF ApplyAll
<1> HIDE DEF copy
<1>5. copy \in Instances /\ copy.stored = t.stored
  BY <1>2 DEF Apart
<1> QED
  BY <1>2, <1>3, <1>4, <1>5 DEF Apart

LEMMA TryApplyIn ==
    ASSUME NEW e, Effect(e), NEW T, Okless(T), KeepsIn(e, T), NEW m \in Mutators, NEW t \in T,
           t.may /\ m.kind = "mark" => Mark(t, m.mark) \in T,
           m.kind = "all" => ApplyAll(e, m.children, t) \in T
    PROVE  TryApply(e, m, t) \in T
<1>1. Fails(t) \in T
  BY DEF Fails, Okless
<1>2. CASE m.kind = "mark"
  BY <1>1, <1>2 DEF TryApply
<1>3. CASE m.kind = "first"
  BY <1>3, FirstStays, MutatorsAre DEF TryApply
<1>4. CASE m.kind = "any"
  <2>1. ApplyEach(e, m.children, t) \in T
    BY <1>4, EachStays, MutatorsAre
  <2>2. TryApply(e, m, t) = [ApplyEach(e, m.children, t) EXCEPT !.ok = TRUE]
    BY <1>4 DEF TryApply
  <2> QED
    BY <2>1, <2>2 DEF Okless
<1>5. CASE m.kind = "all"
  BY <1>5 DEF TryApply
<1>6. CASE m.kind = "unmarked"
  <2>1. e[m.children[1]][t] \in T
    BY <1>6, MutatorsAre DEF KeepsIn
  <2> QED
    BY <1>1, <1>6, <2>1 DEF TryApply
<1> QED
  BY <1>2, <1>3, <1>4, <1>5, <1>6, MutatorsAre

\* One level more.
NextLevel(e) == [ m \in Mutators |-> [ t \in Instances |-> TryApply(e, m, t) ] ]

LEMMA LevelIs == ASSUME NEW e, Effect(e) PROVE Effect(NextLevel(e))
<1> DEFINE g == NextLevel(e)
<1>1. ASSUME NEW m \in Mutators, NEW t \in Instances PROVE TryApply(e, m, t) \in Instances
  <2>1. Okless(Instances) /\ KeepsIn(e, Instances)
    BY OklessSets DEF Effect, KeepsIn
  <2>2. m.kind = "mark" => Mark(t, m.mark) \in Instances
    BY MarkIs, MutatorsAre
  <2>3. m.kind = "all" => ApplyAll(e, m.children, t) \in Instances
    BY AllIs, MutatorsAre
  <2> QED
    BY <2>1, <2>2, <2>3, TryApplyIn
<1>2. g \in [Mutators -> [Instances -> Instances]]
  BY <1>1 DEF NextLevel
<1>3. \A m \in Mutators : \A t \in Instances : g[m][t] = TryApply(e, m, t)
  BY DEF NextLevel
<1>4. ASSUME NEW stored, NEW m \in Mutators, NEW t \in Apart(stored) PROVE g[m][t] \in Apart(stored)
  <2>1. Okless(Apart(stored)) /\ KeepsIn(e, Apart(stored))
    BY OklessSets DEF Effect
  <2>2. t \in Instances /\ t.apart /\ t.stored = stored
    BY DEF Apart
  <2>3. m.kind = "mark" => Mark(t, m.mark) \in Apart(stored)
    BY <2>2, MarkIs, MutatorsAre
  <2>4. m.kind = "all" => ApplyAll(e, m.children, t) \in Apart(stored)
    BY <2>2, AllIs, MutatorsAre
  <2>5. TryApply(e, m, t) \in Apart(stored)
    BY <2>1, <2>3, <2>4, TryApplyIn
  <2> QED
    BY <1>3, <2>2, <2>5
<1>5. ASSUME NEW m \in Mutators, m.kind = "all", NEW t \in Instances PROVE g[m][t].stored = t.stored
  <2>1. TryApply(e, m, t) = ApplyAll(e, m.children, t)
    BY <1>5 DEF TryApply
  <2>2. ApplyAll(e, m.children, t).stored = t.stored
    BY <1>5, AllIs, MutatorsAre
  <2> QED
    BY <1>3, <2>1, <2>2
<1> HIDE DEF g
<1>6. Effect(g)
  BY <1>2, <1>4, <1>5 DEF Effect, KeepsIn
<1> QED
  BY <1>6 DEF g

NoLevel == [ m \in Mutators |-> [ t \in Instances |-> Fails(t) ] ]

LEMMA NoLevelIs == Effect(NoLevel)
<1>1. \A t \in Instances : Fails(t) \in Instances /\ Fails(t).stored = t.stored /\ Fails(t).apart = t.apart
  BY DEF Fails, Instances
<1>2. NoLevel \in [Mutators -> [Instances -> Instances]]
  BY <1>1 DEF NoLevel
<1>3. \A m \in Mutators : \A t \in Instances : NoLevel[m][t] = Fails(t)
  BY DEF NoLevel
<1>4. ASSUME NEW stored, NEW m \in Mutators, NEW t \in Apart(stored) PROVE NoLevel[m][t] \in Apart(stored)
  BY <1>1, <1>3 DEF Apart
<1> QED
  BY <1>1, <1>2, <1>3, <1>4 DEF Effect, KeepsIn

\* The loop over the levels.
AreLevels(f) == f = [d \in 0 .. MutatorDepth |-> IF d = 0 THEN NoLevel ELSE NextLevel(f[d - 1])]

LEMMA EffectsAre == Effect(Effects)
<1> DEFINE N == MutatorDepth
           All == { e \in [Mutators -> [Instances -> Instances]] : Effect(e) }
           step == [q \in (1 .. N) \X All |-> NextLevel(q[2])]
<1>1. N \in Nat
  BY CraftingCostsAssumption
<1>2. NoLevel \in All /\ \A e \in All : NextLevel(e) \in All
  <2>1. \A e : e \in All <=> Effect(e)
    BY DEF Effect
  <2> HIDE DEF All
  <2> QED
    BY <2>1, NoLevelIs, LevelIs
<1> HIDE DEF All
<1>3. step \in [(1 .. N) \X All -> All]
  <2>1. \A q \in (1 .. N) \X All : NextLevel(q[2]) \in All
    BY <1>2
  <2> QED
    BY <2>1
<1>4. PICK f \in [0 .. N -> All] : LoopOf(f, N, NoLevel, step)
  <2> HIDE DEF N, step
  <2> QED
    BY <1>1, <1>2, <1>3, LoopExists
<1>5. AreLevels(f)
  <2>1. \A k \in 1 .. N : step[<<k, f[k - 1]>>] = NextLevel(f[k - 1])
    <3> TAKE k \in 1 .. N
    <3>1. k - 1 \in 0 .. N /\ f[k - 1] \in All
      BY <1>1, <1>4
    <3> QED
      BY <3>1
  <2>2. ASSUME NEW k \in 0 .. N PROVE f[k] = IF k = 0 THEN NoLevel ELSE NextLevel(f[k - 1])
    <3> HIDE DEF step, N
    <3>1. f[k] = IF k = 0 THEN NoLevel ELSE step[<<k, f[k - 1]>>]
      BY <1>4 DEF LoopOf
    <3>2. k # 0 => k \in 1 .. N
      BY <1>1
    <3> QED
      BY <2>1, <3>1, <3>2
  <2>3. f = [k \in 0 .. N |-> f[k]]
    BY <1>4
  <2> HIDE DEF step
  <2> QED
    BY <2>2, <2>3 DEF AreLevels
<1> DEFINE upTo[d \in 0 .. MutatorDepth] ==
             IF d = 0 THEN [ m \in Mutators |-> [ t \in Instances |-> Fails(t) ] ]
             ELSE LET less == upTo[d - 1]
                  IN  [ m \in Mutators |-> [ t \in Instances |-> TryApply(less, m, t) ] ]
<1>6. upTo = CHOOSE g : AreLevels(g)
  BY DEF AreLevels, upTo, NoLevel, NextLevel
<1>7. Effects = upTo[N]
  BY DEF Effects
<1> HIDE DEF upTo, step
<1>8. AreLevels(upTo)
  BY <1>5, <1>6
<1>9. upTo[0] = NoLevel /\ \A k \in 1 .. N : upTo[k] = NextLevel(upTo[k - 1])
  BY <1>1, <1>8 DEF AreLevels
<1> HIDE DEF N
<1>10. \A k \in 0 .. N : upTo[k] \in All
  BY <1>1, <1>2, <1>9, LoopStays
<1> QED
  BY <1>1, <1>7, <1>10 DEF All

-----------------------------------------------------------------------------
(* Requests.                                                                *)

JobIs ==
    job = NoJob \/ \E targets \in TargetLists, config \in UpgradeConfigs, p \in Payments :
        job = [targets |-> targets, config |-> config, cost |-> p.cost, filled |-> p.filled, consume |-> p.consume]

CostInv == stock \in Stocks /\ JobIs

\* The stacks that an upgrade works on.
IsStacks(given) ==
    /\ DOMAIN given = DOMAIN job.targets
    /\ \A k \in DOMAIN given :
         /\ given[k] = [item |-> given[k].item, copies |-> given[k].copies, inst |-> given[k].inst]
         /\ given[k].inst \in Instances

LEMMA StackIs ==
    ASSUME stock \in Stocks, NEW i \in Items \cup {NoItem}, NEW copies
    PROVE  /\ StackOf(i, copies) = [item |-> i, copies |-> copies, inst |-> StackOf(i, copies).inst]
           /\ StackOf(i, copies).inst \in Instances
           /\ i \in Items => StackOf(i, copies).inst.stored = stock[i].marks
<1> DEFINE marks == IF i = NoItem THEN {} ELSE stock[i].marks
<1>1. marks \in SUBSET Marks
  BY DEF Stocks, StockOf
<1>2. i \in Items => marks = stock[i].marks
  BY CraftingCostsAssumption
<1> HIDE DEF marks
<1>3. [may |-> i \in Tools, own |-> marks, stored |-> marks, apart |-> FALSE, ok |-> TRUE] \in Instances
  BY <1>1 DEF Instances
<1>4. StackOf(i, copies) =
        [item |-> i, copies |-> copies,
         inst |-> [may |-> i \in Tools, own |-> marks, stored |-> marks, apart |-> FALSE, ok |-> TRUE]]
  BY DEF StackOf, marks
<1> QED
  BY <1>2, <1>3, <1>4

LEMMA OperationStacksAre ==
    ASSUME CostInv, job # NoJob
    PROVE  /\ IsStacks(OperationStacks)
           /\ \A k \in DOMAIN OperationStacks : OperationStacks[k].item \in Items =>
                  OperationStacks[k].inst.stored = stock[OperationStacks[k].item].marks
<1>1. PICK targets \in TargetLists : job.targets = targets
  BY DEF CostInv, JobIs
<1>2. \A k \in DOMAIN job.targets : job.targets[k] \in Items
  BY <1>1, CraftingCostsAssumption
<1>3. DOMAIN OperationStacks = DOMAIN job.targets
  BY DEF OperationStacks
<1>4. ASSUME NEW k \in DOMAIN job.targets
      PROVE  \E i \in Items \cup {NoItem} : \E copies : OperationStacks[k] = StackOf(i, copies)
  BY <1>2 DEF OperationStacks
<1>5. stock \in Stocks
  BY DEF CostInv
<1>6. ASSUME NEW k \in DOMAIN job.targets
      PROVE  /\ OperationStacks[k] = [item |-> OperationStacks[k].item, copies |-> OperationStacks[k].copies,
                                       inst |-> OperationStacks[k].inst]
             /\ OperationStacks[k].inst \in Instances
             /\ OperationStacks[k].item \in Items =>
                  OperationStacks[k].inst.stored = stock[OperationStacks[k].item].marks
  <2>a. PICK i \in Items \cup {NoItem} : \E copies : OperationStacks[k] = StackOf(i, copies)
    BY <1>4
  <2>1. PICK copies : OperationStacks[k] = StackOf(i, copies)
    BY <2>a
  <2>2. /\ StackOf(i, copies) = [item |-> i, copies |-> copies, inst |-> StackOf(i, copies).inst]
        /\ StackOf(i, copies).inst \in Instances
        /\ i \in Items => StackOf(i, copies).inst.stored = stock[i].marks
    BY <1>5, StackIs
  <2>3. OperationStacks[k].item = i /\ OperationStacks[k].copies = copies
    BY <2>1, <2>2
  <2> QED
    BY <2>1, <2>2, <2>3
<1> HIDE DEF OperationStacks
<1> QED
  BY <1>3, <1>6 DEF IsStacks

\* ApplyUpgrade changes what each stack holds, by what the mutator makes of it.
LEMMA UpgradeIs ==
    ASSUME NEW config \in UpgradeConfigs, NEW todo, IsStacks(todo)
    PROVE  LET up == ApplyUpgrade(config, todo)
           IN  /\ IsStacks(up.stacks)
               /\ \A k \in DOMAIN todo : up.stacks[k].item = todo[k].item
               /\ config.mutator.kind = "all" =>
                    \A k \in DOMAIN todo : up.stacks[k].inst.stored = todo[k].inst.stored
<1> DEFINE up == ApplyUpgrade(config, todo)
<1>1. config.mutator \in Mutators
  BY CraftingCostsAssumption
<1>2. DOMAIN up.stacks = DOMAIN todo
  BY DEF ApplyUpgrade
<1>3. ASSUME NEW k \in DOMAIN todo
      PROVE  \/ up.stacks[k] = todo[k]
             \/ up.stacks[k] = [todo[k] EXCEPT !.inst = Effects[config.mutator][todo[k].inst]]
  BY DEF ApplyUpgrade
<1> HIDE DEF up
<1>4. ASSUME NEW k \in DOMAIN todo
      PROVE  /\ up.stacks[k] = [item |-> up.stacks[k].item, copies |-> up.stacks[k].copies, inst |-> up.stacks[k].inst]
             /\ up.stacks[k].inst \in Instances /\ up.stacks[k].item = todo[k].item
             /\ config.mutator.kind = "all" => up.stacks[k].inst.stored = todo[k].inst.stored
  <2> DEFINE t == todo[k].inst
             e == Effects[config.mutator][t]
  <2>1. todo[k] = [item |-> todo[k].item, copies |-> todo[k].copies, inst |-> t] /\ t \in Instances
    BY DEF IsStacks
  <2>2. e \in Instances /\ (config.mutator.kind = "all" => e.stored = t.stored)
    BY <1>1, <2>1, EffectsAre DEF Effect
  <2>3. [todo[k] EXCEPT !.inst = e] = [item |-> todo[k].item, copies |-> todo[k].copies, inst |-> e]
    BY <2>1
  <2>4. CASE up.stacks[k] = todo[k]
    BY <2>1, <2>4
  <2>5. CASE up.stacks[k] = [todo[k] EXCEPT !.inst = e]
    <3>1. up.stacks[k] = [item |-> todo[k].item, copies |-> todo[k].copies, inst |-> e]
      BY <2>3, <2>5
    <3> HIDE DEF e, t
    <3> QED
      BY <2>2, <3>1 DEF t
  <2> QED
    BY <1>3, <2>4, <2>5
<1>5. IsStacks(up.stacks)
  BY <1>2, <1>4 DEF IsStacks
<1> QED
  BY <1>4, <1>5 DEF up

\* Marked sets the marks of items, and nothing else.
LEMMA MarkedIs ==
    ASSUME NEW st \in Stocks, NEW given, IsStacks(given)
    PROVE  /\ Marked(st, given) \in Stocks
           /\ \A i \in Items : /\ Marked(st, given)[i].copies = st[i].copies
                               /\ Marked(st, given)[i].uses = st[i].uses
           /\ \A i \in Items :
                (\A k \in DOMAIN given : given[k].item = i => given[k].inst.stored = st[i].marks)
                => Marked(st, given)[i].marks = st[i].marks
<1> DEFINE of(i) == { k \in DOMAIN given : given[k].item = i }
           some(i) == CHOOSE k \in of(i) : TRUE
           one(i) == IF of(i) = {} THEN st[i] ELSE [st[i] EXCEPT !.marks = given[some(i)].inst.stored]
<1>1. Marked(st, given) = [i \in Items |-> one(i)]
  BY DEF Marked
<1>2. ASSUME NEW i \in Items, of(i) # {}
      PROVE  some(i) \in DOMAIN given /\ given[some(i)].item = i
  <2>1. some(i) \in of(i)
    BY <1>2
  <2> HIDE DEF some
  <2> QED
    BY <2>1
<1> HIDE DEF some
<1>3. ASSUME NEW i \in Items
      PROVE  /\ one(i) \in StockOf /\ one(i).copies = st[i].copies /\ one(i).uses = st[i].uses
             /\ (\A k \in DOMAIN given : given[k].item = i => given[k].inst.stored = st[i].marks)
                => one(i).marks = st[i].marks
  <2>1. st[i] \in StockOf
    BY DEF Stocks
  <2>2. CASE of(i) = {}
    <3>1. one(i) = st[i]
      BY <2>2
    <3> QED
      BY <2>1, <3>1
  <2>3. CASE of(i) # {}
    <3> DEFINE m == given[some(i)].inst.stored
    <3>1. m \in SUBSET Marks
      BY <1>2, <2>3 DEF IsStacks, Instances
    <3>2. one(i) = [st[i] EXCEPT !.marks = m]
      BY <2>3
    <3>3. (\A k \in DOMAIN given : given[k].item = i => given[k].inst.stored = st[i].marks) => m = st[i].marks
      BY <1>2, <2>3
    <3> HIDE DEF m, one
    <3> QED
      BY <2>1, <3>1, <3>2, <3>3 DEF StockOf
  <2> QED
    BY <2>2, <2>3
<1> HIDE DEF one, of
<1> QED
  BY <1>1, <1>3 DEF Stocks

LEMMA ReleasedStock ==
    ASSUME NEW st \in Stocks, NEW targets \in TargetLists
    PROVE  Released(st, targets) \in Stocks
<1> DEFINE times(i) == Cardinality({ k \in DOMAIN targets : targets[k] = i })
           one(i) == IF i \in Locked THEN st[i]
                     ELSE [st[i] EXCEPT !.copies = IF st[i].copies <= times(i) THEN 0 ELSE st[i].copies - times(i)]
<1>1. \A i : times(i) \in Nat
  <2>1. targets \in Seq(Items)
    BY CraftingCostsAssumption
  <2>2. Len(targets) \in Nat /\ DOMAIN targets = 1 .. Len(targets)
    BY <2>1
  <2>3. IsFiniteSet(1 .. Len(targets))
    BY <2>2, FS_Interval
  <2>4. \A i : IsFiniteSet({ k \in DOMAIN targets : targets[k] = i })
    BY <2>2, <2>3, FS_Subset
  <2> QED
    BY <2>4, FS_CardinalityType
<1> HIDE DEF times
<1>2. ASSUME NEW i \in Items PROVE one(i) \in StockOf
  <2>1. st[i] \in StockOf
    BY DEF Stocks
  <2>2. (IF st[i].copies <= times(i) THEN 0 ELSE st[i].copies - times(i)) \in Nat
    BY <1>1, <2>1 DEF StockOf
  <2> QED
    BY <2>1, <2>2 DEF StockOf
<1>3. Released(st, targets) = [i \in Items |-> one(i)]
  BY DEF Released, times
<1> HIDE DEF one
<1> QED
  BY <1>2, <1>3 DEF Stocks

-----------------------------------------------------------------------------
(* The steps.                                                               *)

\* What FailuresCostNothing says of a step.
FailureIsFree ==
    answer'.result = "failed" /\ ~(job # NoJob /\ job.config.release) =>
       \A i \in Items :
         /\ stock'[i].copies = stock[i].copies /\ stock'[i].uses = stock[i].uses
         /\ job # NoJob /\ job.config.mutator.kind = "all" => stock'[i].marks = stock[i].marks

LEMMA FinishIs ==
    ASSUME NEW ok, NEW given, Finish(ok, given)
    PROVE  answer'.result = "failed" => ~ok \/ given = << >>
  BY DEF Finish

LEMMA CraftSteps ==
    ASSUME CostInv, NEW p \in Payments, NEW makes, Craft(p.cost, p.filled, p.consume, makes)
    PROVE  CostInv' /\ FailureIsFree
<1>1. job' = job /\ job = NoJob
  BY DEF Craft
<1>2. ConsumeSlotCosts(stock, p.filled, p.cost) \in Stocks
  BY PaymentsAre, ConsumeStock DEF CostInv
<1>3. CASE ValidateFilledSlots(stock, p.filled, p.cost) /\ makes
  <2>1. stock' \in Stocks
    BY <1>2, <1>3 DEF Craft, CostInv
  <2>2. answer'.result # "failed"
    <3>1. Finish(TRUE, <<[item |-> NoItem, copies |-> 1, marks |-> {}]>>)
      BY <1>3 DEF Craft
    <3> QED
      BY <3>1 DEF Finish
  <2> QED
    BY <1>1, <2>1, <2>2 DEF CostInv, JobIs, FailureIsFree
<1>4. CASE ~(ValidateFilledSlots(stock, p.filled, p.cost) /\ makes)
  BY <1>1, <1>4 DEF Craft, CostInv, JobIs, FailureIsFree
<1> QED
  BY <1>3, <1>4

LEMMA UpgradeSteps ==
    ASSUME CostInv, NEW targets \in TargetLists, NEW config \in UpgradeConfigs, NEW p \in Payments,
           Upgrade(targets, config, p.cost, p.filled, p.consume)
    PROVE  CostInv' /\ FailureIsFree
  BY DEF CostInv, JobIs, Upgrade, FailureIsFree

\* Execute: an upgrade that fails marks the items it worked on, at most, and pays nothing.
LEMMA ExecuteSteps ==
    ASSUME CostInv, Execute
    PROVE  CostInv' /\ FailureIsFree
<1>1. job # NoJob /\ job' = NoJob
  BY DEF Execute
<1>2. PICK targets \in TargetLists, config \in UpgradeConfigs, p \in Payments :
        job = [targets |-> targets, config |-> config, cost |-> p.cost, filled |-> p.filled, consume |-> p.consume]
  BY <1>1 DEF CostInv, JobIs
<1>3. IsPayment(job.filled, job.cost)
  BY <1>2, PaymentsAre
<1>4. job.targets = targets /\ job.config = config /\ targets \in Seq(Items)
  BY <1>2, CraftingCostsAssumption
<1>5. stock \in Stocks
  BY DEF CostInv
<1>6. CASE ~ValidateFilledSlots(stock, job.filled, job.cost)
  BY <1>1, <1>5, <1>6 DEF Execute, CostInv, JobIs, FailureIsFree
<1>7. CASE ValidateFilledSlots(stock, job.filled, job.cost)
  <2> DEFINE upgraded == ApplyUpgrade(job.config, OperationStacks)
             held == IF job.config.release THEN Released(stock, job.targets) ELSE stock
             after == Marked(held, upgraded.stacks)
             shown == [ k \in DOMAIN upgraded.stacks |->
                 [item |-> upgraded.stacks[k].item, copies |-> upgraded.stacks[k].copies,
                  marks |-> upgraded.stacks[k].inst.own] ]
  <2>1. /\ Finish(upgraded.ok, shown)
        /\ stock' = IF upgraded.ok /\ job.consume THEN PaidFor(after, Len(job.targets)) ELSE after
    BY <1>1, <1>7 DEF Execute
  <2>2. held \in Stocks
    BY <1>4, <1>5, ReleasedStock
  <2>3. /\ IsStacks(OperationStacks)
        /\ \A k \in DOMAIN OperationStacks : OperationStacks[k].item \in Items =>
              OperationStacks[k].inst.stored = stock[OperationStacks[k].item].marks
    BY <1>1, OperationStacksAre
  <2>4. /\ IsStacks(upgraded.stacks)
        /\ \A k \in DOMAIN OperationStacks : upgraded.stacks[k].item = OperationStacks[k].item
        /\ job.config.mutator.kind = "all" =>
             \A k \in DOMAIN OperationStacks : upgraded.stacks[k].inst.stored = OperationStacks[k].inst.stored
    BY <1>4, <2>3, UpgradeIs
  <2> HIDE DEF held, upgraded
  <2>5. /\ after \in Stocks
        /\ \A i \in Items : after[i].copies = held[i].copies /\ after[i].uses = held[i].uses
        /\ \A i \in Items :
             (\A k \in DOMAIN upgraded.stacks : upgraded.stacks[k].item = i => upgraded.stacks[k].inst.stored = held[i].marks)
             => after[i].marks = held[i].marks
    BY <2>2, <2>4, MarkedIs
  <2> HIDE DEF after
  <2>6. Len(job.targets) \in Nat /\ DOMAIN job.targets = 1 .. Len(job.targets)
    BY <1>4
  <2>7. PaidFor(after, Len(job.targets)) \in Stocks /\ (Len(job.targets) = 0 => PaidFor(after, Len(job.targets)) = after)
    BY <1>3, <2>5, <2>6, PaidForStock
  <2>8. stock' \in Stocks
    BY <2>1, <2>5, <2>7
  <2>9. ASSUME answer'.result = "failed" PROVE stock' = after
    <3>1. ~upgraded.ok \/ shown = << >>
      BY <2>1, <2>9, FinishIs
    <3>2. shown = << >> => Len(job.targets) = 0
      <4>1. DOMAIN shown = 1 .. Len(job.targets)
        BY <2>4, <2>6 DEF IsStacks
      <4>2. shown = << >> => DOMAIN shown = {}
        <5> HIDE DEF shown
        <5> QED
          OBVIOUS
      <4> QED
        BY <2>6, <4>1, <4>2
    <3> QED
      BY <2>1, <2>7, <3>1, <3>2
  <2>10. ASSUME job.config.release # TRUE, job.config.mutator.kind = "all", NEW i \in Items
         PROVE  \A k \in DOMAIN upgraded.stacks : upgraded.stacks[k].item = i => upgraded.stacks[k].inst.stored = held[i].marks
    <3> TAKE k \in DOMAIN upgraded.stacks
    <3>1. k \in DOMAIN OperationStacks
      BY <2>3, <2>4 DEF IsStacks
    <3> HAVE upgraded.stacks[k].item = i
    <3>2. OperationStacks[k].inst.stored = stock[i].marks
      BY <2>3, <2>4, <3>1
    <3> QED
      BY <2>4, <2>10, <3>1, <3>2 DEF held
  <2>11. FailureIsFree
    <3> SUFFICES ASSUME answer'.result = "failed", ~job.config.release, NEW i \in Items
                 PROVE  /\ stock'[i].copies = stock[i].copies /\ stock'[i].uses = stock[i].uses
                        /\ job.config.mutator.kind = "all" => stock'[i].marks = stock[i].marks
      BY <1>1 DEF FailureIsFree
    <3>1. stock' = after /\ held = stock
      BY <2>9 DEF held
    <3> QED
      BY <2>5, <2>10, <3>1
  <2> QED
    BY <1>1, <2>8, <2>11 DEF CostInv, JobIs
<1> QED
  BY <1>6, <1>7

LEMMA MeanwhileSteps ==
    ASSUME CostInv, Meanwhile
    PROVE  CostInv' /\ FailureIsFree
<1>1. stock \in Stocks
  BY DEF CostInv
<1>2. ASSUME NEW change \in Stocks, Others(change) PROVE CostInv' /\ FailureIsFree
  BY <1>2 DEF Others, NoAnswer, CostInv, JobIs, FailureIsFree
<1>3. Tools \subseteq Items /\ Scrap \in Items
  BY CraftingCostsAssumption
<1>4. ASSUME NEW t \in Tools, NEW within \in BOOLEAN, TryConsume(t, within) PROVE CostInv' /\ FailureIsFree
  <2> DEFINE first == IF within THEN RemoveUses(stock, t, 1) ELSE stock
  <2>1. first \in Stocks
    BY <1>1, RemoveUsesStock
  <2>2. RemoveUses(first, t, 1) \in Stocks
    BY <2>1, RemoveUsesStock
  <2>3. Others(RemoveUses(first, t, 1))
    BY <1>4 DEF TryConsume
  <2> QED
    BY <1>2, <2>2, <2>3
<1>5. ASSUME NEW t \in Regauged, NEW clamp \in BOOLEAN, AddUses(t, clamp) PROVE CostInv' /\ FailureIsFree
  <2> DEFINE n == IF clamp /\ stock[t].uses + 1 > stock[t].max THEN stock[t].max ELSE stock[t].uses + 1
  <2>1. t \in Items /\ stock[t].uses \in Nat /\ stock[t].max \in Nat
    BY <1>1, <1>3, CraftingCostsAssumption DEF Stocks, StockOf
  <2>2. n \in Nat
    BY <2>1
  <2>3. Others([stock EXCEPT ![t].uses = n])
    BY <1>5 DEF AddUses
  <2> HIDE DEF n
  <2>4. [stock EXCEPT ![t].uses = n] \in Stocks
    BY <1>1, <2>1, <2>2, UsesStock
  <2> QED
    BY <1>2, <2>3, <2>4
<1>6. ASSUME NEW t \in Regauged, NEW max \in 1 .. MaxUses, NEW clamp \in BOOLEAN, SetMaxUses(t, max, clamp)
      PROVE  CostInv' /\ FailureIsFree
  <2> DEFINE n == IF clamp /\ stock[t].uses > max THEN max ELSE stock[t].uses
  <2>1. t \in Items /\ stock[t].uses \in Nat /\ max \in Nat
    BY <1>1, <1>3, CraftingCostsAssumption DEF Stocks, StockOf
  <2>2. n \in Nat
    BY <2>1
  <2>3. Others([stock EXCEPT ![t].max = max, ![t].uses = n])
    BY <1>6 DEF SetMaxUses
  <2> HIDE DEF n
  <2>4. [stock EXCEPT ![t].max = max, ![t].uses = n] \in Stocks
    BY <1>1, <2>1, <2>2, UsesStock
  <2> QED
    BY <1>2, <2>3, <2>4
<1>7. ASSUME NEW t \in Regauged, ResetUses(t) PROVE CostInv' /\ FailureIsFree
  <2>1. t \in Items /\ stock[t].max \in Nat
    BY <1>1, <1>3, CraftingCostsAssumption DEF Stocks, StockOf
  <2>2. [stock EXCEPT ![t].uses = stock[t].max] \in Stocks
    BY <1>1, <2>1, UsesStock
  <2> QED
    BY <1>2, <1>7, <2>2 DEF ResetUses
<1>8. ASSUME NEW i \in Items, Take(i) PROVE CostInv' /\ FailureIsFree
  BY <1>1, <1>2, <1>8, ReleaseStock DEF Take
<1>9. ASSUME NEW i \in Items, Give(i) PROVE CostInv' /\ FailureIsFree
  <2>1. Others([stock EXCEPT ![i].copies = @ + 1])
    BY <1>9 DEF Give
  <2>2. [stock EXCEPT ![i].copies = @ + 1] \in Stocks
    BY <1>1, ScrapStock
  <2> QED
    BY <1>2, <2>1, <2>2
<1> QED
  BY <1>4, <1>5, <1>6, <1>7, <1>8, <1>9 DEF Meanwhile

LEMMA CostStep == CostInv /\ [CostNext]_costVars => CostInv' /\ [FailureIsFree]_costVars
<1> SUFFICES ASSUME CostInv, [CostNext]_costVars PROVE CostInv' /\ [FailureIsFree]_costVars
  OBVIOUS
<1>1. CASE UNCHANGED costVars
  BY <1>1 DEF costVars, CostInv, JobIs
<1>2. CASE CostNext
  <2>1. ASSUME NEW p \in Payments, NEW makes \in BOOLEAN, Craft(p.cost, p.filled, p.consume, makes)
        PROVE  CostInv' /\ FailureIsFree
    BY <2>1, CraftSteps
  <2>2. ASSUME NEW targets \in TargetLists, NEW config \in UpgradeConfigs, NEW p \in Payments,
               Upgrade(targets, config, p.cost, p.filled, p.consume)
        PROVE  CostInv' /\ FailureIsFree
    BY <2>2, UpgradeSteps
  <2>3. Execute => CostInv' /\ FailureIsFree
    BY ExecuteSteps
  <2>4. Meanwhile => CostInv' /\ FailureIsFree
    BY MeanwhileSteps
  <2> QED
    BY <1>2, <2>1, <2>2, <2>3, <2>4 DEF CostNext
<1> QED
  BY <1>1, <1>2

LEMMA CostStarts == CostInit => CostInv
<1>1. MaxCopies \in Nat /\ MaxUses \in Nat
  BY CraftingCostsAssumption
<1>2. Fresh \in Stocks
  BY <1>1 DEF Fresh, Stocks, StockOf
<1> QED
  BY <1>2 DEF CostInit, CostInv, JobIs

\* A request that fails has cost nothing, whatever slots it was to pay from, whoever
\* uses the storage while an upgrade's assets load, however mutators nest and whichever
\* targets were upgraded before the one that failed (ConsumeSlotCosts is only reached by
\* a success; the children of ApplyAll work on a duplicate that is dropped).
THEOREM FailuresAreFree == CostSpec => FailuresCostNothing
<1>1. CostSpec => [][FailureIsFree]_costVars
  BY CostStarts, CostStep, PTL DEF CostSpec
<1> QED
  BY <1>1 DEF FailuresCostNothing, FailureIsFree

-----------------------------------------------------------------------------
(* Sums.                                                                    *)

IsSum(f, ws) == f = [n \in 0 .. Len(ws) |-> IF n = 0 THEN 0 ELSE f[n - 1] + ws[n]]

\* The sums of the first so many numbers of a list.
LEMMA SumIs ==
    ASSUME NEW ws \in Seq(Nat)
    PROVE  /\ SumTo(ws, 0) = 0
           /\ \A n \in 0 .. Len(ws) : SumTo(ws, n) \in Nat
           /\ \A n \in 1 .. Len(ws) : SumTo(ws, n) = SumTo(ws, n - 1) + ws[n]
<1> DEFINE N == Len(ws)
           step == [q \in (1 .. N) \X Nat |-> q[2] + ws[q[1]]]
<1>1. N \in Nat /\ \A n \in 1 .. N : ws[n] \in Nat /\ n - 1 \in 0 .. N
  OBVIOUS
<1> HIDE DEF N
<1>2. step \in [(1 .. N) \X Nat -> Nat]
  BY <1>1
<1>3. PICK f \in [0 .. N -> Nat] : LoopOf(f, N, 0, step)
  <2> HIDE DEF step
  <2> QED
    BY <1>1, <1>2, LoopExists
<1>4. f = [n \in 0 .. N |-> IF n = 0 THEN 0 ELSE f[n - 1] + ws[n]]
  <2>1. \A n \in 1 .. N : step[<<n, f[n - 1]>>] = f[n - 1] + ws[n]
    BY <1>1, <1>3
  <2>2. ASSUME NEW n \in 0 .. N PROVE f[n] = IF n = 0 THEN 0 ELSE f[n - 1] + ws[n]
    <3> HIDE DEF step
    <3>1. f[n] = IF n = 0 THEN 0 ELSE step[<<n, f[n - 1]>>]
      BY <1>3 DEF LoopOf
    <3>2. n # 0 => n \in 1 .. N
      BY <1>1
    <3> QED
      BY <2>1, <3>1, <3>2
  <2>3. f = [n \in 0 .. N |-> f[n]]
    BY <1>3
  <2> HIDE DEF step
  <2> QED
    BY <2>2, <2>3
<1>5. IsSum(f, ws)
  BY <1>4 DEF IsSum, N
<1> DEFINE sum[n \in 0 .. Len(ws)] == IF n = 0 THEN 0 ELSE sum[n - 1] + ws[n]
<1>6. sum = CHOOSE g : IsSum(g, ws)
  BY DEF IsSum
<1>7. \A n : SumTo(ws, n) = sum[n]
  BY DEF SumTo
<1> HIDE DEF sum, step
<1>8. IsSum(sum, ws)
  BY <1>5, <1>6
<1>9. sum[0] = 0 /\ \A n \in 1 .. N : sum[n] = sum[n - 1] + ws[n]
  BY <1>1, <1>8 DEF IsSum, N
<1>10. \A n \in 0 .. N : sum[n] \in Nat
  <2>1. ASSUME NEW n \in 1 .. N, sum[n - 1] \in Nat PROVE sum[n] \in Nat
    <3>1. ws[n] \in Nat /\ sum[n] = sum[n - 1] + ws[n]
      BY <1>1, <1>9
    <3> QED
      BY <2>1, <3>1
  <2>2. sum[0] \in Nat
    BY <1>9
  <2> QED
    BY <1>1, <2>1, <2>2, LoopStays
<1> QED
  BY <1>7, <1>9, <1>10 DEF N

\* Two lists that begin alike have the same sums there.
LEMMA SumsAgree ==
    ASSUME NEW ws \in Seq(Nat), NEW vs \in Seq(Nat), NEW m \in Nat,
           m <= Len(ws), m <= Len(vs), \A n \in 1 .. m : ws[n] = vs[n]
    PROVE  SumTo(ws, m) = SumTo(vs, m)
<1> DEFINE Kept == {n \in 0 .. m : SumTo(ws, n) = SumTo(vs, n)}
<1>1. 0 \in Kept
  BY SumIs
<1>2. ASSUME NEW n \in 1 .. m, n - 1 \in Kept PROVE n \in Kept
  <2>1. n \in 1 .. Len(ws) /\ n \in 1 .. Len(vs)
    OBVIOUS
  <2>2. SumTo(ws, n) = SumTo(ws, n - 1) + ws[n] /\ SumTo(vs, n) = SumTo(vs, n - 1) + vs[n]
    BY <2>1, SumIs
  <2> QED
    BY <1>2, <2>2
<1>3. \A n \in 0 .. m : n \in Kept
  <2> HIDE DEF Kept
  <2> QED
    BY <1>1, <1>2, LoopInduction
<1> QED
  BY <1>3

\* The sum of one list after another.
LEMMA SumConcat ==
    ASSUME NEW a \in Seq(Nat), NEW b \in Seq(Nat)
    PROVE  SumTo(a \o b, Len(a \o b)) = SumTo(a, Len(a)) + SumTo(b, Len(b))
<1> DEFINE ab == a \o b
           Kept == {n \in 0 .. Len(b) : SumTo(ab, Len(a) + n) = SumTo(a, Len(a)) + SumTo(b, n)}
<1>1. ab \in Seq(Nat) /\ Len(ab) = Len(a) + Len(b) /\ Len(a) \in Nat /\ Len(b) \in Nat
  OBVIOUS
<1>2. (\A n \in 1 .. Len(a) : ab[n] = a[n]) /\ (\A n \in 1 .. Len(b) : ab[Len(a) + n] = b[n])
  OBVIOUS
<1> HIDE DEF ab
<1>3. 0 \in Kept
  <2>1. SumTo(ab, Len(a)) = SumTo(a, Len(a))
    <3>1. Len(a) <= Len(ab) /\ Len(a) <= Len(a)
      BY <1>1
    <3> QED
      BY <1>1, <1>2, <3>1, SumsAgree
  <2>2. SumTo(b, 0) = 0 /\ SumTo(a, Len(a)) \in Nat
    BY <1>1, SumIs
  <2> QED
    BY <1>1, <2>1, <2>2
<1>4. ASSUME NEW n \in 1 .. Len(b), n - 1 \in Kept PROVE n \in Kept
  <2> DEFINE k == Len(a) + n
  <2>1. k \in 1 .. Len(ab) /\ k - 1 = Len(a) + (n - 1)
    BY <1>1
  <2>2. SumTo(ab, k) = SumTo(ab, k - 1) + ab[k]
    BY <1>1, <2>1, SumIs
  <2>3. SumTo(b, n) = SumTo(b, n - 1) + b[n] /\ n - 1 \in 0 .. Len(b)
    BY SumIs
  <2>4. SumTo(b, n - 1) \in Nat /\ SumTo(a, Len(a)) \in Nat /\ b[n] \in Nat
    <3>1. Len(a) \in 0 .. Len(a)
      BY <1>1
    <3> QED
      BY <2>3, <3>1, SumIs
  <2>5. SumTo(ab, k - 1) = SumTo(a, Len(a)) + SumTo(b, n - 1) /\ ab[k] = b[n]
    BY <1>2, <1>4, <2>1
  <2> QED
    BY <2>2, <2>3, <2>4, <2>5
<1>5. \A n \in 0 .. Len(b) : n \in Kept
  <2> HIDE DEF Kept
  <2> QED
    BY <1>1, <1>3, <1>4, LoopInduction
<1>6. Len(b) \in 0 .. Len(b)
  BY <1>1
<1>7. Len(b) \in Kept
  BY <1>5, <1>6
<1> QED
  BY <1>1, <1>7 DEF ab

\* The sum of equal numbers.
LEMMA SumSame ==
    ASSUME NEW ws \in Seq(Nat), NEW x \in Nat, \A n \in DOMAIN ws : ws[n] = x
    PROVE  SumTo(ws, Len(ws)) = Len(ws) * x
<1> DEFINE Kept == {n \in 0 .. Len(ws) : SumTo(ws, n) = n * x}
<1>1. 0 \in Kept
  BY SumIs
<1>2. ASSUME NEW n \in 1 .. Len(ws), n - 1 \in Kept PROVE n \in Kept
  <2>1. SumTo(ws, n) = SumTo(ws, n - 1) + ws[n] /\ ws[n] = x
    BY SumIs
  <2>2. (n - 1) * x + x = n * x
    OBVIOUS
  <2> QED
    BY <1>2, <2>1, <2>2
<1>3. Len(ws) \in Nat /\ Len(ws) \in 0 .. Len(ws)
  OBVIOUS
<1>4. \A n \in 0 .. Len(ws) : n \in Kept
  <2> HIDE DEF Kept
  <2> QED
    BY <1>1, <1>2, <1>3, LoopInduction
<1>5. Len(ws) \in Kept
  BY <1>3, <1>4
<1> QED
  BY <1>5

-----------------------------------------------------------------------------
(* Draws.                                                                   *)

\* The sums of a list go up.
LEMMA SumsGoUp ==
    ASSUME NEW ws \in Seq(Nat), NEW n \in 0 .. Len(ws), NEW m \in 0 .. n
    PROVE  SumTo(ws, m) <= SumTo(ws, n)
<1> DEFINE Kept == {k \in 0 .. Len(ws) : \A j \in 0 .. k : SumTo(ws, j) <= SumTo(ws, k)}
<1>1. Len(ws) \in Nat /\ \A k \in 0 .. Len(ws) : SumTo(ws, k) \in Nat
  BY SumIs
<1>2. 0 \in Kept
  <2>1. 0 \in 0 .. Len(ws) /\ \A j \in 0 .. 0 : j = 0
    BY <1>1
  <2> QED
    BY <1>1, <2>1
<1>3. ASSUME NEW k \in 1 .. Len(ws), k - 1 \in Kept PROVE k \in Kept
  <2>1. SumTo(ws, k) = SumTo(ws, k - 1) + ws[k] /\ ws[k] \in Nat
    BY SumIs
  <2>2. k - 1 \in 0 .. Len(ws) /\ SumTo(ws, k - 1) \in Nat /\ SumTo(ws, k) \in Nat
    BY <1>1
  <2>3. ASSUME NEW j \in 0 .. k PROVE SumTo(ws, j) <= SumTo(ws, k)
    <3>1. CASE j = k
      BY <2>2, <3>1
    <3>2. CASE j # k
      <4>1. j \in 0 .. k - 1 /\ j \in 0 .. Len(ws)
        BY <1>1, <3>2
      <4>2. SumTo(ws, j) <= SumTo(ws, k - 1) /\ SumTo(ws, j) \in Nat
        BY <1>1, <1>3, <4>1
      <4> QED
        BY <2>1, <2>2, <4>2
    <3> QED
      BY <3>1, <3>2
  <2> QED
    BY <2>3
<1>4. \A k \in 0 .. Len(ws) : k \in Kept
  <2> HIDE DEF Kept
  <2> QED
    BY <1>1, <1>2, <1>3, LoopInduction
<1> QED
  BY <1>4

\* GetDrop gives the drop whose stretch of the sums a draw is in.
LEMMA DrawIs ==
    ASSUME NEW ws \in Seq(Nat \ {0}), NEW r \in 0 .. SumTo(ws, Len(ws)) - 1, NEW i \in DOMAIN ws
    PROVE  GetDrop(ws, 2 * r + 1) = i <=> SumTo(ws, i - 1) <= r /\ r < SumTo(ws, i)
<1> DEFINE S(n) == SumTo(ws, n)
           found == {j \in DOMAIN ws : 2 * CalculatePercentages(ws)[j] >= 2 * r + 1}
<1>1. /\ ws \in Seq(Nat) /\ Len(ws) \in Nat /\ DOMAIN ws = 1 .. Len(ws)
      /\ i \in 1 .. Len(ws) /\ i - 1 \in 0 .. Len(ws) /\ i \in 0 .. Len(ws) /\ Len(ws) \in 0 .. Len(ws)
  OBVIOUS
<1>2. S(0) = 0 /\ \A n \in 0 .. Len(ws) : S(n) \in Nat
  BY <1>1, SumIs
<1>3. \A n \in 0 .. Len(ws) : \A m \in 0 .. n : S(m) <= S(n)
  BY <1>1, SumsGoUp
<1>4. r \in Nat /\ r < S(Len(ws))
  BY <1>1, <1>2, SMTT(30)
<1> HIDE DEF S
<1>5. CalculatePercentages(ws) = [j \in DOMAIN ws |-> S(j)]
  BY DEF CalculatePercentages, S
<1>6. \A j \in 1 .. Len(ws) : j \in found <=> r < S(j)
  <2> TAKE j \in 1 .. Len(ws)
  <2>1. CalculatePercentages(ws)[j] = S(j) /\ S(j) \in Nat
    BY <1>1, <1>2, <1>5
  <2>2. j \in found <=> 2 * S(j) >= 2 * r + 1
    BY <1>1, <2>1
  <2>3. r \in Nat
    BY ONLY <1>4
  <2> HIDE DEF found
  <2> QED
    BY ONLY <2>1, <2>2, <2>3
<1>7. found \subseteq 1 .. Len(ws) /\ Len(ws) \in found
  BY <1>1, <1>4, <1>6
<1>8. GetDrop(ws, 2 * r + 1) = IF Len(ws) = 1 THEN 1
                               ELSE CHOOSE j \in found : \A k \in found : j <= k
  BY <1>7 DEF GetDrop
<1> HIDE DEF found
<1>9. CASE Len(ws) = 1
  <2>1. i = 1 /\ S(i - 1) = 0
    BY <1>1, <1>2, <1>9
  <2> QED
    BY <1>4, <1>8, <1>9, <2>1 DEF S
<1>10. CASE Len(ws) # 1
  <2>1. PICK d \in found : \A k \in found : d <= k
    <3>1. found \in SUBSET Nat
      BY <1>1, <1>7
    <3> QED
      BY <1>7, <3>1, LeastNatural
  <2>2. \A e \in found : (\A k \in found : e <= k) => e = d
    BY <1>7, <2>1
  <2>3. (CHOOSE j \in found : \A k \in found : j <= k) = d
    BY <2>1, <2>2
  <2>4. GetDrop(ws, 2 * r + 1) = d
    BY <1>8, <1>10, <2>3
  <2>5. ASSUME d = i PROVE S(i - 1) <= r /\ r < S(i)
    <3>1. r < S(i)
      BY <1>1, <1>6, <2>1, <2>5
    <3>2. CASE i = 1
      BY <1>2, <1>4, <3>1, <3>2
    <3>3. CASE i # 1
      <4>1. i - 1 \in 1 .. Len(ws) /\ ~(i <= i - 1)
        BY <1>1, <3>3
      <4>2. i - 1 \notin found
        BY <2>1, <2>5, <4>1
      <4>3. ~(r < S(i - 1)) /\ S(i - 1) \in Nat
        BY <1>1, <1>2, <1>6, <4>1, <4>2
      <4> QED
        BY <1>4, <3>1, <4>3
    <3> QED
      BY <3>2, <3>3
  <2>6. ASSUME S(i - 1) <= r, r < S(i) PROVE d = i
    <3>1. i \in found /\ d <= i /\ d \in 1 .. Len(ws)
      BY <1>1, <1>6, <1>7, <2>1, <2>6
    <3>2. ASSUME d # i PROVE FALSE
      <4>1. d \in 0 .. i - 1
        BY <1>1, <3>1, <3>2
      <4>2. S(d) <= S(i - 1) /\ S(d) \in Nat /\ S(i - 1) \in Nat
        BY <1>1, <1>2, <1>3, <3>1, <4>1
      <4>3. r < S(d)
        BY <1>6, <2>1, <3>1
      <4> QED
        BY <1>4, <2>6, <4>2, <4>3
    <3> QED
      BY <3>2
  <2> QED
    BY <2>4, <2>5, <2>6 DEF S
<1> QED
  BY <1>9, <1>10

IsEven(ws) ==
    \A i \in DOMAIN ws :
      Cardinality({r \in 0 .. SumTo(ws, Len(ws)) - 1 : GetDrop(ws, 2 * r + 1) = i}) = ws[i]

LEMMA DrawsEven == ASSUME NEW ws \in Seq(Nat \ {0}) PROVE IsEven(ws)
<1> SUFFICES ASSUME NEW i \in DOMAIN ws
             PROVE  Cardinality({r \in 0 .. SumTo(ws, Len(ws)) - 1 : GetDrop(ws, 2 * r + 1) = i}) = ws[i]
  BY DEF IsEven
<1> DEFINE D == {r \in 0 .. SumTo(ws, Len(ws)) - 1 : GetDrop(ws, 2 * r + 1) = i}
           from == SumTo(ws, i - 1)
           to == SumTo(ws, i)
           all == SumTo(ws, Len(ws))
<1>1. /\ ws \in Seq(Nat) /\ Len(ws) \in Nat /\ i \in 1 .. Len(ws) /\ i \in 0 .. Len(ws)
      /\ i - 1 \in 0 .. Len(ws) /\ Len(ws) \in 0 .. Len(ws) /\ ws[i] \in Nat /\ ws[i] # 0
  OBVIOUS
<1>2. from \in Nat /\ to \in Nat /\ all \in Nat /\ to = from + ws[i] /\ to <= all
  BY <1>1, SumIs, SumsGoUp
<1>3. \A r \in 0 .. all - 1 : r \in D <=> from <= r /\ r < to
  BY DrawIs
<1>4. D \subseteq 0 .. all - 1
  OBVIOUS
<1> HIDE DEF D, from, to, all
<1>5. D = from .. to - 1
  <2>1. ASSUME NEW r \in D PROVE r \in from .. to - 1
    <3>1. r \in 0 .. all - 1 /\ from <= r /\ r < to
      BY <1>3, <1>4
    <3> QED
      BY <1>2, <3>1
  <2>2. ASSUME NEW r \in from .. to - 1 PROVE r \in D
    <3>1. r \in 0 .. all - 1 /\ from <= r /\ r < to
      BY <1>2
    <3> QED
      BY <1>3, <3>1
  <2> QED
    BY <2>1, <2>2
<1>6. Cardinality(from .. to - 1) = (to - 1) - from + 1
  <2>1. ws[i] \in Nat /\ ws[i] # 0
    BY ONLY <1>1
  <2>2. from \in Nat /\ to \in Nat /\ to = from + ws[i]
    BY ONLY <1>2
  <2>3. from \in Int /\ to - 1 \in Int /\ ~(from > to - 1)
    BY ONLY <2>1, <2>2
  <2> QED
    BY ONLY <2>3, FS_Interval
<1>7. Cardinality(D) = ws[i]
  <2>1. ws[i] \in Nat /\ from \in Nat /\ to = from + ws[i]
    BY ONLY <1>1, <1>2
  <2>2. Cardinality(D) = (to - 1) - from + 1
    BY ONLY <1>5, <1>6
  <2> QED
    BY ONLY <2>1, <2>2
<1> QED
  BY <1>7 DEF D

LEMMA WeightsAre == WeightLists \subseteq Seq(Nat \ {0})
<1> SUFFICES ASSUME NEW n \in 1 .. 3, NEW ws \in [1 .. n -> 1 .. 3] PROVE ws \in Seq(Nat \ {0})
  BY DEF WeightLists
<1>1. n \in Nat /\ ws \in [1 .. n -> Nat \ {0}]
  OBVIOUS
<1> QED
  BY <1>1

\* A drop of a pool gets the share its weight is of the sum, for any weights
\* (FFaerieWeightedPool::CalculatePercentages, GetDrop).
THEOREM DrawsAreShares ==
    /\ \A ws \in Seq(Nat \ {0}) : IsEven(ws)
    /\ GenSpec => []DrawsFollowWeights
<1>1. \A ws \in Seq(Nat \ {0}) : IsEven(ws)
  BY DrawsEven
<1>2. DrawsAreEven
  BY <1>1, WeightsAre DEF DrawsAreEven, IsEven
<1>3. DrawsFollowWeights
  BY <1>2 DEF DrawsFollowWeights
<1>4. GenSpec => []DrawsFollowWeights
  BY <1>3, PTL
<1> QED
  BY <1>1, <1>4

-----------------------------------------------------------------------------
(* Totals: the sum of what each element of a sequence counts for.           *)

Total(w, s) == SumTo([n \in DOMAIN s |-> w[s[n]]], Len(s))

LEMMA WeighedIs ==
    ASSUME NEW T, NEW w \in [T -> Nat], NEW s \in Seq(T)
    PROVE  LET ws == [n \in DOMAIN s |-> w[s[n]]]
           IN  ws \in Seq(Nat) /\ Len(ws) = Len(s) /\ Total(w, s) \in Nat
<1> DEFINE ws == [n \in DOMAIN s |-> w[s[n]]]
<1>1. Len(s) \in Nat /\ DOMAIN s = 1 .. Len(s) /\ \A n \in DOMAIN s : w[s[n]] \in Nat
  OBVIOUS
<1>2. ws \in [1 .. Len(s) -> Nat]
  BY <1>1
<1>3. ws \in Seq(Nat) /\ Len(ws) = Len(s)
  BY <1>1, <1>2
<1>4. Len(ws) \in 0 .. Len(ws)
  BY <1>1, <1>3
<1> HIDE DEF ws
<1>5. SumTo(ws, Len(ws)) \in Nat
  BY <1>3, <1>4, SumIs
<1>6. Total(w, s) = SumTo(ws, Len(ws))
  BY <1>3 DEF Total, ws
<1> QED
  BY <1>3, <1>5, <1>6 DEF ws

\* What a sequence after another has, and when sequences are the same.
LEMMA ConcatHas ==
    ASSUME NEW T, NEW a \in Seq(T), NEW b \in Seq(T)
    PROVE  /\ Len(a \o b) = Len(a) + Len(b) /\ a \o b \in Seq(T)
           /\ \A n \in 1 .. Len(a) : (a \o b)[n] = a[n]
           /\ \A n \in 1 .. Len(b) : (a \o b)[Len(a) + n] = b[n]
OBVIOUS

LEMMA NumbersHave ==
    ASSUME NEW a \in Seq(Nat), NEW b \in Seq(Nat)
    PROVE  /\ Len(a \o b) = Len(a) + Len(b) /\ a \o b \in Seq(Nat)
           /\ \A n \in 1 .. Len(b) : (a \o b)[Len(a) + n] = b[n]
OBVIOUS

LEMMA SameSequence ==
    ASSUME NEW T, NEW a \in Seq(T), NEW b \in Seq(T), Len(a) = Len(b),
           \A n \in 1 .. Len(a) : a[n] = b[n]
    PROVE  a = b
OBVIOUS

LEMMA AppendHas ==
    ASSUME NEW T, NEW s \in Seq(T), NEW x \in T
    PROVE  Append(s, x)[Len(s) + 1] = x
OBVIOUS

LEMMA AppendIs ==
    ASSUME NEW T, NEW s \in Seq(T), NEW x \in T
    PROVE  Append(s, x) = s \o <<x>>
<1> DEFINE a == Append(s, x)
           b == s \o <<x>>
<1>1. Len(s) \in Nat /\ a \in Seq(T) /\ Len(a) = Len(s) + 1
  OBVIOUS
<1>2. b \in Seq(T) /\ Len(b) = Len(s) + 1
  OBVIOUS
<1>3. ASSUME NEW n \in 1 .. Len(s) + 1 PROVE a[n] = b[n]
  <2>1. CASE n = Len(s) + 1
    BY <2>1
  <2>2. CASE n # Len(s) + 1
    <3>1. n \in 1 .. Len(s)
      BY <2>2
    <3>2. a[n] = s[n]
      BY <3>1
    <3>3. b[n] = s[n]
      BY <3>1
    <3> QED
      BY <3>2, <3>3
  <2> QED
    BY <2>1, <2>2
<1> HIDE DEF a, b
<1>4. a = b
  BY <1>1, <1>2, <1>3, SameSequence
<1> QED
  BY <1>4 DEF a, b

LEMMA TotalOfMany ==
    ASSUME NEW T, NEW w \in [T -> Nat], NEW a \in Seq(T), NEW b \in Seq(T)
    PROVE  Total(w, a \o b) = Total(w, a) + Total(w, b)
<1> DEFINE of(s) == [n \in DOMAIN s |-> w[s[n]]]
<1>1. a \o b \in Seq(T)
  OBVIOUS
<1>2. /\ of(a) \in Seq(Nat) /\ of(b) \in Seq(Nat) /\ of(a \o b) \in Seq(Nat)
      /\ Len(of(a)) = Len(a) /\ Len(of(b)) = Len(b) /\ Len(of(a \o b)) = Len(a \o b)
  BY <1>1, WeighedIs, SMTT(30)
<1>3. of(a \o b) = of(a) \o of(b)
  <2>1. Len(of(a) \o of(b)) = Len(a) + Len(b) /\ of(a) \o of(b) \in Seq(Nat)
    <3> HIDE DEF of
    <3> QED
      BY <1>2, NumbersHave
  <2>2. Len(a \o b) = Len(a) + Len(b) /\ DOMAIN (a \o b) = 1 .. Len(a) + Len(b) /\ Len(a) \in Nat /\ Len(b) \in Nat
    OBVIOUS
  <2>3. ASSUME NEW n \in 1 .. Len(a) + Len(b) PROVE of(a \o b)[n] = (of(a) \o of(b))[n]
    <3>1. of(a \o b)[n] = w[(a \o b)[n]]
      BY <2>2
    <3>2. CASE n <= Len(a)
      <4>1. n \in 1 .. Len(a) /\ n \in DOMAIN a /\ (a \o b)[n] = a[n]
        BY <2>2, <3>2
      <4>2. of(a)[n] = w[a[n]]
        BY <4>1
      <4>3. (of(a) \o of(b))[n] = of(a)[n]
        <5> HIDE DEF of
        <5> QED
          BY <1>2, <4>1
      <4> QED
        BY <3>1, <4>1, <4>2, <4>3
    <3>3. CASE ~(n <= Len(a))
      <4>1. n - Len(a) \in 1 .. Len(b) /\ n - Len(a) \in DOMAIN b /\ (a \o b)[n] = b[n - Len(a)]
        BY <2>2, <3>3
      <4>2. of(b)[n - Len(a)] = w[b[n - Len(a)]]
        BY <4>1
      <4>3. (of(a) \o of(b))[n] = of(b)[n - Len(a)]
        <5> HIDE DEF of
        <5>1. (of(a) \o of(b))[Len(of(a)) + (n - Len(a))] = of(b)[n - Len(a)]
          <6>1. n - Len(a) \in 1 .. Len(of(b))
            BY <1>2, <4>1
          <6>2. \A k \in 1 .. Len(of(b)) : (of(a) \o of(b))[Len(of(a)) + k] = of(b)[k]
            BY <1>2, NumbersHave
          <6> QED
            BY <6>1, <6>2
        <5>2. Len(of(a)) + (n - Len(a)) = n
          BY <1>2, <2>2
        <5> QED
          BY <5>1, <5>2
      <4> QED
        BY <3>1, <4>1, <4>2, <4>3
    <3> QED
      BY <3>2, <3>3
  <2> HIDE DEF of
  <2>4. of(a \o b) \in Seq(Nat) /\ Len(of(a \o b)) = Len(of(a) \o of(b))
    BY <1>2, <2>1, <2>2
  <2> QED
    BY <1>2, <2>1, <2>2, <2>3, <2>4, SameSequence
<1>4. SumTo(of(a) \o of(b), Len(of(a) \o of(b))) = SumTo(of(a), Len(of(a))) + SumTo(of(b), Len(of(b)))
  <2> HIDE DEF of
  <2> QED
    BY <1>2, SumConcat
<1>5. /\ Total(w, a) = SumTo(of(a), Len(a)) /\ Total(w, b) = SumTo(of(b), Len(b))
      /\ Total(w, a \o b) = SumTo(of(a \o b), Len(a \o b))
  BY DEF Total
<1> HIDE DEF of
<1> QED
  BY <1>2, <1>3, <1>4, <1>5

LEMMA TotalOfNone == ASSUME NEW w PROVE Total(w, << >>) = 0
<1>1. [n \in DOMAIN << >> |-> w[<< >>[n]]] = << >> /\ << >> \in Seq(Nat) /\ Len(<< >>) = 0
  OBVIOUS
<1>2. SumTo(<< >>, 0) = 0
  BY <1>1, SumIs
<1> QED
  BY <1>1, <1>2 DEF Total

LEMMA TotalOfOne ==
    ASSUME NEW T, NEW w \in [T -> Nat], NEW x \in T
    PROVE  Total(w, <<x>>) = w[x]
<1> DEFINE ws == [n \in DOMAIN <<x>> |-> w[<<x>>[n]]]
<1>1. Len(<<x>>) = 1 /\ DOMAIN <<x>> = 1 .. 1 /\ <<x>>[1] = x /\ <<x>> \in Seq(T)
  OBVIOUS
<1>2. ws \in Seq(Nat) /\ Len(ws) = 1
  BY <1>1, WeighedIs
<1>3. ws[1] = w[x] /\ w[x] \in Nat
  BY <1>1
<1>4. Total(w, <<x>>) = SumTo(ws, 1)
  BY <1>1 DEF Total
<1> HIDE DEF ws
<1>5. SumTo(ws, 1) = SumTo(ws, 0) + ws[1] /\ SumTo(ws, 0) = 0
  <2>1. 1 \in 1 .. Len(ws) /\ 1 - 1 = 0
    BY <1>2
  <2> QED
    BY <1>2, <2>1, SumIs
<1> QED
  BY <1>3, <1>4, <1>5

-----------------------------------------------------------------------------
(* The elements of a sequence that are in a set.                            *)

IsOnly(f, S, s) ==
    f = [n \in 0 .. Len(s) |->
           IF n = 0 THEN << >> ELSE IF s[n] \in S THEN Append(f[n - 1], s[n]) ELSE f[n - 1]]

LEMMA OnlyRuns ==
    ASSUME NEW T, NEW s \in Seq(T), NEW S
    PROVE  \E f \in [0 .. Len(s) -> Seq(T)] :
             /\ OnlyIn(S, s) = f[Len(s)] /\ f[0] = << >>
             /\ \A n \in 1 .. Len(s) : f[n] = IF s[n] \in S THEN Append(f[n - 1], s[n]) ELSE f[n - 1]
<1> DEFINE N == Len(s)
           add(n, t) == IF s[n] \in S THEN Append(t, s[n]) ELSE t
           step == [q \in (1 .. N) \X Seq(T) |-> add(q[1], q[2])]
<1>1. N \in Nat /\ << >> \in Seq(T) /\ \A n \in 1 .. N : s[n] \in T
  OBVIOUS
<1>2. \A n \in 1 .. N : \A t \in Seq(T) : add(n, t) \in Seq(T)
  BY <1>1
<1> HIDE DEF N, add
<1>3. step \in [(1 .. N) \X Seq(T) -> Seq(T)]
  BY <1>2
<1>4. PICK f \in [0 .. N -> Seq(T)] : LoopOf(f, N, << >>, step)
  <2> HIDE DEF step
  <2> QED
    BY <1>1, <1>3, LoopExists
<1>5. f = [n \in 0 .. N |-> IF n = 0 THEN << >> ELSE add(n, f[n - 1])]
  <2>1. ASSUME NEW n \in 1 .. N PROVE step[<<n, f[n - 1]>>] = add(n, f[n - 1])
    <3>1. n - 1 \in 0 .. N /\ f[n - 1] \in Seq(T)
      BY <1>1, <1>4
    <3> QED
      BY <3>1
  <2>2. ASSUME NEW n \in 0 .. N PROVE f[n] = IF n = 0 THEN << >> ELSE add(n, f[n - 1])
    <3> HIDE DEF step
    <3>1. f[n] = IF n = 0 THEN << >> ELSE step[<<n, f[n - 1]>>]
      BY <1>4 DEF LoopOf
    <3>2. n # 0 => n \in 1 .. N
      BY <1>1
    <3> QED
      BY <2>1, <3>1, <3>2
  <2>3. f = [n \in 0 .. N |-> f[n]]
    BY <1>4
  <2> HIDE DEF step
  <2> QED
    BY <2>2, <2>3
<1>6. IsOnly(f, S, s)
  BY <1>5 DEF IsOnly, N, add
<1> DEFINE upTo[n \in 0 .. Len(s)] ==
             IF n = 0 THEN << >> ELSE IF s[n] \in S THEN Append(upTo[n - 1], s[n]) ELSE upTo[n - 1]
<1>7. upTo = CHOOSE g : IsOnly(g, S, s)
  BY DEF IsOnly
<1>8. OnlyIn(S, s) = upTo[Len(s)]
  BY DEF OnlyIn
<1> HIDE DEF upTo, step
<1>9. IsOnly(upTo, S, s)
  BY <1>6, <1>7
<1>10. DOMAIN upTo = 0 .. N /\ upTo[0] = << >> /\ \A n \in 1 .. N : upTo[n] = add(n, upTo[n - 1])
  <2>1. upTo = [n \in 0 .. N |-> IF n = 0 THEN << >> ELSE add(n, upTo[n - 1])]
    BY <1>9 DEF IsOnly, N, add
  <2> QED
    BY <1>1, <2>1
<1>11. \A n \in 0 .. N : upTo[n] \in Seq(T)
  <2>1. \A n \in 1 .. N : upTo[n - 1] \in Seq(T) => upTo[n] \in Seq(T)
    BY <1>2, <1>10
  <2> QED
    BY <1>1, <1>10, <2>1, LoopStays
<1>12. upTo = [n \in 0 .. N |-> upTo[n]]
  BY <1>9 DEF IsOnly, N
<1>13. upTo \in [0 .. N -> Seq(T)]
  BY <1>11, <1>12
<1> QED
  BY <1>8, <1>10, <1>13 DEF N, add

\* They are in the set, all of them where the sequence has no others, and
\* count for no more than the sequence does.
LEMMA OnlyIs ==
    ASSUME NEW T, NEW s \in Seq(T), NEW S, NEW w \in [T -> Nat]
    PROVE  /\ OnlyIn(S, s) \in Seq(T)
           /\ \A n \in DOMAIN OnlyIn(S, s) : OnlyIn(S, s)[n] \in S
           /\ (\A n \in DOMAIN s : s[n] \in S) => OnlyIn(S, s) = s
           /\ Total(w, OnlyIn(S, s)) <= Total(w, s)
<1>1. PICK f \in [0 .. Len(s) -> Seq(T)] :
        /\ OnlyIn(S, s) = f[Len(s)] /\ f[0] = << >>
        /\ \A n \in 1 .. Len(s) : f[n] = IF s[n] \in S THEN Append(f[n - 1], s[n]) ELSE f[n - 1]
  BY OnlyRuns
<1> DEFINE ws == [n \in DOMAIN s |-> w[s[n]]]
           inS(t) == \A k \in DOMAIN t : t[k] \in S
           first(t, n) == Len(t) = n /\ \A k \in 1 .. n : t[k] = s[k]
           right(n) == inS(f[n]) /\ (inS(s) => first(f[n], n)) /\ Total(w, f[n]) <= SumTo(ws, n)
           Kept == {n \in 0 .. Len(s) : right(n)}
<1>2. Len(s) \in Nat /\ Len(s) \in 0 .. Len(s) /\ DOMAIN s = 1 .. Len(s)
  OBVIOUS
<1>3. ws \in Seq(Nat) /\ Len(ws) = Len(s)
  BY WeighedIs
<1>4. \A n \in 1 .. Len(s) : ws[n] = w[s[n]] /\ s[n] \in T /\ w[s[n]] \in Nat
  BY <1>2
<1>5. Total(w, s) = SumTo(ws, Len(s))
  BY DEF Total
<1> HIDE DEF ws
<1>6. 0 \in Kept
  <2>1. Total(w, f[0]) = 0 /\ SumTo(ws, 0) = 0
    BY <1>1, <1>3, SumIs, TotalOfNone
  <2>2. inS(f[0]) /\ first(f[0], 0)
    BY <1>1
  <2> QED
    BY <1>2, <2>1, <2>2
<1>7. ASSUME NEW n \in 1 .. Len(s), n - 1 \in Kept PROVE n \in Kept
  <2>1. /\ n - 1 \in 0 .. Len(s) /\ n \in 0 .. Len(s) /\ f[n - 1] \in Seq(T) /\ f[n] \in Seq(T)
        /\ inS(f[n - 1]) /\ (inS(s) => first(f[n - 1], n - 1)) /\ Total(w, f[n - 1]) <= SumTo(ws, n - 1)
    <3>1. n - 1 \in 0 .. Len(s) /\ n \in 0 .. Len(s) /\ f[n - 1] \in Seq(T) /\ f[n] \in Seq(T)
      <4>1. Len(s) \in Nat /\ n \in 1 .. Len(s) /\ f \in [0 .. Len(s) -> Seq(T)]
        BY ONLY <1>1, <1>2, n \in 1 .. Len(s)
      <4>2. n - 1 \in 0 .. Len(s) /\ n \in 0 .. Len(s)
        BY ONLY <4>1
      <4> QED
        BY ONLY <4>1, <4>2
    <3>2. right(n - 1)
      <4> HIDE DEF right
      <4> QED
        BY <1>7
    <3>3. inS(f[n - 1]) /\ (inS(s) => first(f[n - 1], n - 1)) /\ Total(w, f[n - 1]) <= SumTo(ws, n - 1)
      <4> HIDE DEF inS, first
      <4> QED
        BY <3>2
    <3> HIDE DEF inS, first, right
    <3> QED
      BY <3>1, <3>3
  <2>2. SumTo(ws, n) = SumTo(ws, n - 1) + w[s[n]] /\ SumTo(ws, n - 1) \in Nat /\ w[s[n]] \in Nat
    <3>1. /\ \A m \in 0 .. Len(s) : SumTo(ws, m) \in Nat
          /\ \A m \in 1 .. Len(s) : SumTo(ws, m) = SumTo(ws, m - 1) + ws[m]
      BY ONLY <1>3, SumIs
    <3>2. ws[n] = w[s[n]] /\ w[s[n]] \in Nat /\ n - 1 \in 0 .. Len(s)
      BY ONLY <1>4, <2>1, n \in 1 .. Len(s)
    <3> QED
      BY ONLY <3>1, <3>2, n \in 1 .. Len(s)
  <2>3. Total(w, f[n - 1]) \in Nat
    BY <2>1, WeighedIs
  <2>4. CASE s[n] \in S
    <3>1. f[n] = Append(f[n - 1], s[n]) /\ f[n] = f[n - 1] \o <<s[n]>> /\ s[n] \in T
      <4>1. f[n] = Append(f[n - 1], s[n]) /\ s[n] \in T /\ f[n - 1] \in Seq(T)
        BY <1>1, <1>4, <2>1, <2>4
      <4>2. Append(f[n - 1], s[n]) = f[n - 1] \o <<s[n]>>
        BY <4>1, AppendIs
      <4> QED
        BY <4>1, <4>2
    <3>2. Total(w, f[n]) = Total(w, f[n - 1]) + w[s[n]]
      <4>1. <<s[n]>> \in Seq(T) /\ Total(w, <<s[n]>>) = w[s[n]]
        BY <3>1, TotalOfOne
      <4>2. Total(w, f[n - 1] \o <<s[n]>>) = Total(w, f[n - 1]) + Total(w, <<s[n]>>)
        BY <2>1, <4>1, TotalOfMany
      <4> QED
        BY <3>1, <4>1, <4>2
    <3>3. inS(f[n])
      <4>1. ASSUME NEW k \in DOMAIN f[n] PROVE f[n][k] = s[n] \/ (k \in DOMAIN f[n - 1] /\ f[n][k] = f[n - 1][k])
        <5>1. f[n - 1] \in Seq(T) /\ s[n] \in T /\ f[n] = Append(f[n - 1], s[n]) /\ k \in DOMAIN f[n]
          BY ONLY <2>1, <3>1, k \in DOMAIN f[n]
        <5>2. Len(f[n - 1]) \in Nat /\ k \in 1 .. Len(f[n - 1]) + 1 /\ DOMAIN f[n - 1] = 1 .. Len(f[n - 1])
          BY ONLY <5>1
        <5>3. k <= Len(f[n - 1]) => f[n][k] = f[n - 1][k]
          BY ONLY <5>1, <5>2
        <5>4. k = Len(f[n - 1]) + 1 => f[n][k] = s[n]
          BY ONLY <5>1, <5>2
        <5>5. k \in Int /\ (k <= Len(f[n - 1]) => k \in DOMAIN f[n - 1])
          BY ONLY <5>2
        <5>6. k <= Len(f[n - 1]) \/ k = Len(f[n - 1]) + 1
          <6> DEFINE L == Len(f[n - 1])
          <6>1. L \in Nat /\ k \in 1 .. L + 1
            BY ONLY <5>2
          <6> HIDE DEF L
          <6>2. k <= L \/ k = L + 1
            BY ONLY <6>1
          <6> QED
            BY ONLY <6>2 DEF L
        <5> QED
          BY ONLY <5>3, <5>4, <5>5, <5>6, Zenon
      <4> QED
        BY <2>1, <2>4, <4>1
    <3>4. inS(s) => first(f[n], n)
      <4>1. SUFFICES ASSUME first(f[n - 1], n - 1) PROVE first(f[n], n)
        BY <2>1
      <4>2. Len(f[n]) = n
        BY <2>1, <3>1, <4>1
      <4>3. ASSUME NEW k \in 1 .. n PROVE f[n][k] = s[k]
        <5>1. CASE k = n
          <6>1. Append(f[n - 1], s[n])[Len(f[n - 1]) + 1] = s[n]
            BY <2>1, <3>1, AppendHas
          <6>2. Len(f[n - 1]) + 1 = n
            BY <4>1
          <6> QED
            BY <3>1, <5>1, <6>1, <6>2
        <5>2. CASE k # n
          <6>1. k \in 1 .. n - 1
            BY <5>2
          <6> QED
            BY <2>1, <3>1, <4>1, <6>1
        <5> QED
          BY <5>1, <5>2
      <4> QED
        BY <4>2, <4>3
    <3>5. Total(w, f[n]) <= SumTo(ws, n)
      BY <2>1, <2>2, <2>3, <3>2
    <3> QED
      BY <2>1, <3>3, <3>4, <3>5
  <2>5. CASE s[n] \notin S
    <3>1. f[n] = f[n - 1] /\ ~inS(s)
      BY <1>1, <1>2, <2>5
    <3>2. Total(w, f[n]) <= SumTo(ws, n)
      BY <2>1, <2>2, <2>3, <3>1
    <3> QED
      BY <2>1, <3>1, <3>2
  <2> QED
    BY <2>4, <2>5
<1>8. Len(s) \in Kept
  <2>1. \A n \in 0 .. Len(s) : n \in Kept
    <3> HIDE DEF Kept
    <3> QED
      BY <1>2, <1>6, <1>7, LoopInduction
  <2> HIDE DEF Kept
  <2> QED
    BY <1>2, <2>1
<1>9. f[Len(s)] \in Seq(T) /\ (first(f[Len(s)], Len(s)) => f[Len(s)] = s)
  BY <1>1, <1>2
<1> QED
  BY <1>1, <1>2, <1>5, <1>8, <1>9

-----------------------------------------------------------------------------
(* What a procedure adds.                                                   *)

MadeStacks == [item : Assets, copies : Nat]
CopiesOf == [s \in MadeStacks |-> s.copies]
CountOf == [g \in Generations |-> g.count]

\* Generations for an amount: each for some copies, of an asset that is set
\* where nothing is drawn.
Drawing(gs) ==
    /\ gs \in Seq(Generations)
    /\ \A n \in DOMAIN gs : gs[n].count # 0 /\ (gs[n].drop.asset = NoAsset => NothingIsDrawn)
AskedFor(gs, amount) == Drawing(gs) /\ amount \in Nat /\ Total(CountOf, gs) = amount

LEMMA CountersAre == CopiesOf \in [MadeStacks -> Nat] /\ CountOf \in [Generations -> Nat]
BY DEF CopiesOf, CountOf, MadeStacks, Generations

LEMMA PendingDropIs ==
    ASSUME NEW p \in Configs, NEW i \in Drawn(p), NEW count \in Nat \ {0}
    PROVE  /\ PendingDrop(p, i, count) \in Generations
           /\ PendingDrop(p, i, count).count = count
           /\ PendingDrop(p, i, count).drop.asset = NoAsset => NothingIsDrawn
<1>1. DropsOf[p] \in Seq(TableDrops) /\ i \in DOMAIN DropsOf[p]
  BY ItemPoolsAssumption, ItemGenerationAssumption DEF Drawn
<1>2. DropsOf[p][i] \in TableDrops /\ DropsOf[p][i].asset \in AssetsOf(p)
  BY <1>1 DEF AssetsOf
<1> QED
  BY <1>2 DEF PendingDrop, Generations, NothingIsDrawn

\* A list of drops with so many copies of each.
Listed(gs, p, k, f, shares) == gs = [n \in 1 .. k |-> PendingDrop(p, f[n], shares[n])]

LEMMA ListedDrops ==
    ASSUME NEW p \in Configs, NEW k \in Nat, NEW f \in [1 .. k -> Drawn(p)],
           NEW shares \in [1 .. k -> Nat \ {0}], NEW gs,
           Listed(gs, p, k, f, shares)
    PROVE  Drawing(gs) /\ Len(gs) = k /\ shares \in Seq(Nat) /\ Len(shares) = k
           /\ Total(CountOf, gs) = SumTo(shares, k)
<1>1. \A n \in 1 .. k : f[n] \in Drawn(p) /\ shares[n] \in Nat \ {0}
  OBVIOUS
<1>2. \A n \in 1 .. k : /\ gs[n] \in Generations /\ gs[n].count = shares[n]
                        /\ (gs[n].drop.asset = NoAsset => NothingIsDrawn)
  BY <1>1, PendingDropIs DEF Listed
<1>3. gs \in [1 .. k -> Generations]
  BY <1>2 DEF Listed
<1>4. gs \in Seq(Generations) /\ Len(gs) = k /\ DOMAIN gs = 1 .. k
  BY <1>3
<1>5. Drawing(gs)
  BY <1>1, <1>2, <1>4 DEF Drawing
<1>6. shares \in [1 .. k -> Nat]
  BY <1>1
<1>7. shares \in Seq(Nat) /\ Len(shares) = k /\ DOMAIN shares = 1 .. k
  BY <1>6
<1> DEFINE ws == [n \in DOMAIN gs |-> CountOf[gs[n]]]
<1>8. ws = shares
  <2>1. \A n \in 1 .. k : CountOf[gs[n]] = shares[n]
    BY <1>2 DEF CountOf
  <2>2. shares = [n \in 1 .. k |-> shares[n]]
    BY <1>6
  <2> QED
    BY <1>4, <2>1, <2>2
<1>9. Total(CountOf, gs) = SumTo(ws, k)
  BY <1>4 DEF Total
<1> HIDE DEF ws
<1> QED
  BY <1>4, <1>5, <1>7, <1>8, <1>9

Amount(procedure, p, amount) ==
    IF procedure = "OfAll" THEN amount * Len(DropsOf[p])
    ELSE IF DropsOf[p] = << >> THEN 0 ELSE amount

LEMMA NothingAsked == AskedFor(<< >>, 0)
<1>1. << >> \in Seq(Generations) /\ DOMAIN << >> = {}
  OBVIOUS
<1>2. Total(CountOf, << >>) = 0
  BY TotalOfNone
<1> QED
  BY <1>1, <1>2 DEF AskedFor, Drawing

LEMMA OfOneAsks ==
    ASSUME NEW p \in Configs, NEW amount \in Nat \ {0}, NEW gs \in OfOne(p, amount)
    PROVE  AskedFor(gs, Amount("OfOne", p, amount))
<1>1. CASE DropsOf[p] = << >>
  BY <1>1, NothingAsked DEF OfOne, Amount
<1>2. CASE DropsOf[p] # << >>
  <2>1. PICK i \in Drawn(p) : gs = <<PendingDrop(p, i, amount)>>
    BY <1>2 DEF OfOne
  <2>a. PICK k : k = 1
    OBVIOUS
  <2> DEFINE f == [n \in 1 .. k |-> i]
             shares == [n \in 1 .. k |-> amount]
  <2>2. k \in Nat /\ f \in [1 .. k -> Drawn(p)] /\ shares \in [1 .. k -> Nat \ {0}] /\ shares[1] = amount /\ f[1] = i
    BY <2>a
  <2>3. gs = [n \in 1 .. 1 |-> PendingDrop(p, i, amount)]
    BY <2>1
  <2>4. Listed(gs, p, k, f, shares)
    BY <2>a, <2>3 DEF Listed
  <2> HIDE DEF f, shares
  <2>5. /\ Drawing(gs) /\ shares \in Seq(Nat) /\ Len(shares) = k
        /\ Total(CountOf, gs) = SumTo(shares, k)
    BY <2>2, <2>4, ListedDrops
  <2>6. SumTo(shares, Len(shares)) = Len(shares) * amount
    <3>1. \A n \in DOMAIN shares : shares[n] = amount
      BY <2>a, <2>2, <2>5
    <3> QED
      BY <2>5, <3>1, SumSame
  <2> QED
    BY <1>2, <2>a, <2>5, <2>6 DEF AskedFor, Amount
<1> QED
  BY <1>1, <1>2

LEMMA OfAnyAsks ==
    ASSUME NEW p \in Configs, NEW amount \in Nat \ {0}, NEW gs \in OfAny(p, amount)
    PROVE  AskedFor(gs, Amount("OfAny", p, amount))
<1>1. CASE DropsOf[p] = << >>
  BY <1>1, NothingAsked DEF OfAny, Amount
<1>2. CASE DropsOf[p] # << >>
  <2>1. PICK f \in [1 .. amount -> Drawn(p)] : gs = [n \in 1 .. amount |-> PendingDrop(p, f[n], 1)]
    BY <1>2 DEF OfAny
  <2> DEFINE shares == [n \in 1 .. amount |-> 1]
  <2>2. shares \in [1 .. amount -> Nat \ {0}] /\ \A n \in 1 .. amount : shares[n] = 1
    OBVIOUS
  <2>3. Listed(gs, p, amount, f, shares)
    BY <2>1 DEF Listed
  <2> HIDE DEF shares
  <2>4. /\ Drawing(gs) /\ shares \in Seq(Nat) /\ Len(shares) = amount
        /\ Total(CountOf, gs) = SumTo(shares, amount)
    BY <2>2, <2>3, ListedDrops
  <2>5. SumTo(shares, Len(shares)) = Len(shares) * 1
    <3>1. \A n \in DOMAIN shares : shares[n] = 1
      BY <2>2
    <3> QED
      BY <2>4, <3>1, SumSame
  <2> QED
    BY <1>2, <2>4, <2>5 DEF AskedFor, Amount
<1> QED
  BY <1>1, <1>2

LEMMA ChunkedAsks ==
    ASSUME NEW p \in Configs, NEW amount \in Nat \ {0}, NEW gs \in Chunked(p, amount)
    PROVE  AskedFor(gs, Amount("Chunked", p, amount))
<1>1. CASE DropsOf[p] = << >>
  BY <1>1, NothingAsked DEF Chunked, Amount
<1>2. CASE DropsOf[p] # << >>
  <2>1. PICK k \in 1 .. amount : \E shares \in [1 .. k -> 1 .. amount] :
               SumTo(shares, Len(shares)) = amount /\ gs \in Shared(p, shares)
    BY <1>2 DEF Chunked
  <2>2. PICK shares \in [1 .. k -> 1 .. amount] :
               SumTo(shares, Len(shares)) = amount /\ gs \in Shared(p, shares)
    BY <2>1
  <2>3. DOMAIN shares = 1 .. k /\ k \in Nat /\ shares \in [1 .. k -> Nat \ {0}]
    OBVIOUS
  <2>4. PICK f \in [1 .. k -> Drawn(p)] : Listed(gs, p, k, f, shares)
    BY <2>2, <2>3 DEF Shared, Listed
  <2>5. /\ Drawing(gs) /\ shares \in Seq(Nat) /\ Len(shares) = k
        /\ Total(CountOf, gs) = SumTo(shares, k)
    BY <2>3, <2>4, ListedDrops
  <2> QED
    BY <1>2, <2>2, <2>5 DEF AskedFor, Amount
<1> QED
  BY <1>1, <1>2

LEMMA OfAllAsks ==
    ASSUME NEW p \in Configs, NEW amount \in Nat \ {0}, NEW gs \in OfAll(p, amount)
    PROVE  AskedFor(gs, Amount("OfAll", p, amount))
<1> DEFINE k == Len(DropsOf[p])
           f == [n \in 1 .. k |-> n]
           shares == [n \in 1 .. k |-> amount]
<1>1. DropsOf[p] \in Seq(TableDrops)
  BY ItemPoolsAssumption, ItemGenerationAssumption
<1>2. k \in Nat /\ Drawn(p) = 1 .. k
  BY <1>1 DEF Drawn
<1> HIDE DEF k
<1>3. f \in [1 .. k -> Drawn(p)] /\ shares \in [1 .. k -> Nat \ {0}] /\ \A n \in 1 .. k : shares[n] = amount /\ f[n] = n
  BY <1>2
<1>4. gs = [n \in 1 .. k |-> PendingDrop(p, n, amount)]
  BY <1>2 DEF OfAll
<1>5. Listed(gs, p, k, f, shares)
  BY <1>4 DEF Listed
<1> HIDE DEF f, shares
<1>6. /\ Drawing(gs) /\ shares \in Seq(Nat) /\ Len(shares) = k
      /\ Total(CountOf, gs) = SumTo(shares, k)
  BY <1>2, <1>3, <1>5, ListedDrops
<1>7. SumTo(shares, Len(shares)) = Len(shares) * amount
  <2>1. \A n \in DOMAIN shares : shares[n] = amount
    BY <1>3
  <2> QED
    BY <1>6, <2>1, SumSame
<1>8. k * amount = amount * k /\ amount * k \in Nat
  BY <1>2
<1> QED
  BY <1>6, <1>7, <1>8 DEF AskedFor, Amount, k

\* What a config that is resolved asks for.
Resolutions == {r \in [gs : Seq(Generations), amount : Nat] : AskedFor(r.gs, r.amount)}

LEMMA ResolveConfigIs == ASSUME NEW c \in Configs PROVE ResolveConfig(c) \subseteq Resolutions
<1> SUFFICES ASSUME NEW r \in ResolveConfig(c) PROVE r \in Resolutions
  OBVIOUS
<1> DEFINE amountOf(n) == IF Procedure[c] = "OfAll" THEN n * Len(DropsOf[c])
                          ELSE IF DropsOf[c] = << >> THEN 0 ELSE n
<1>1. PICK n \in Amounts[c] :
        IF n > 0 THEN r \in {[gs |-> gs, amount |-> amountOf(n)] : gs \in ResolvedBy(Procedure[c], c, n)}
                 ELSE r = [gs |-> << >>, amount |-> 0]
  BY DEF ResolveConfig
<1>2. n \in Int /\ Procedure[c] \in {"OfOne", "OfAny", "Chunked", "OfAll"}
  BY ItemGenerationAssumption
<1>3. CASE n > 0
  <2>1. PICK gs \in ResolvedBy(Procedure[c], c, n) : r = [gs |-> gs, amount |-> amountOf(n)]
    BY <1>1, <1>3
  <2>2. n \in Nat \ {0}
    BY <1>2, <1>3
  <2>3. amountOf(n) = Amount(Procedure[c], c, n)
    BY DEF Amount
  <2> HIDE DEF amountOf
  <2>4. AskedFor(gs, amountOf(n))
    <3>1. CASE Procedure[c] = "OfOne"
      BY <2>2, <2>3, <3>1, OfOneAsks DEF ResolvedBy
    <3>2. CASE Procedure[c] = "OfAny"
      BY <2>2, <2>3, <3>2, OfAnyAsks DEF ResolvedBy
    <3>3. CASE Procedure[c] = "Chunked"
      BY <2>2, <2>3, <3>3, ChunkedAsks DEF ResolvedBy
    <3>4. CASE Procedure[c] = "OfAll"
      BY <2>2, <2>3, <3>4, OfAllAsks DEF ResolvedBy
    <3> QED
      BY <1>2, <3>1, <3>2, <3>3, <3>4
  <2>5. gs \in Seq(Generations) /\ amountOf(n) \in Nat
    BY <2>4 DEF AskedFor, Drawing
  <2> QED
    BY <2>1, <2>4, <2>5 DEF Resolutions
<1>4. CASE ~(n > 0)
  <2>1. r = [gs |-> << >>, amount |-> 0]
    BY <1>1, <1>4
  <2> QED
    BY <2>1, NothingAsked DEF Resolutions
<1> QED
  BY <1>3, <1>4

LEMMA AskedForBoth ==
    ASSUME NEW a, NEW m, AskedFor(a, m), NEW b, NEW n, AskedFor(b, n)
    PROVE  AskedFor(a \o b, m + n)
<1>1. a \in Seq(Generations) /\ b \in Seq(Generations)
  BY DEF AskedFor, Drawing
<1>2. Total(CountOf, a \o b) = Total(CountOf, a) + Total(CountOf, b)
  BY <1>1, CountersAre, TotalOfMany
<1>3. Len(a \o b) = Len(a) + Len(b) /\ a \o b \in Seq(Generations)
  BY <1>1
<1>4. ASSUME NEW k \in DOMAIN (a \o b)
      PROVE  (k \in DOMAIN a /\ (a \o b)[k] = a[k]) \/ \E j \in DOMAIN b : (a \o b)[k] = b[j]
  <2>1. k \in 1 .. Len(a) + Len(b) /\ DOMAIN a = 1 .. Len(a) /\ DOMAIN b = 1 .. Len(b)
    BY <1>1, <1>3
  <2>2. CASE k <= Len(a)
    BY <1>1, <2>1, <2>2
  <2>3. CASE ~(k <= Len(a))
    <3>1. k - Len(a) \in DOMAIN b /\ (a \o b)[k] = b[k - Len(a)]
      BY <1>1, <2>1, <2>3
    <3> QED
      BY <3>1
  <2> QED
    BY <2>2, <2>3
<1>5. Drawing(a \o b)
  BY <1>3, <1>4 DEF Drawing, AskedFor
<1> QED
  BY <1>2, <1>5 DEF AskedFor

-----------------------------------------------------------------------------
(* The configs of a request, one after another.                             *)

Both(X, c) == {[gs |-> x.gs \o y.gs, amount |-> x.amount + y.amount] : x \in X, y \in ResolveConfig(c)}
IsResolving(f, cs) ==
    f = [n \in 0 .. Len(cs) |->
           IF n = 0 THEN {[gs |-> << >>, amount |-> 0]}
           ELSE {[gs |-> x.gs \o y.gs, amount |-> x.amount + y.amount] : x \in f[n - 1], y \in ResolveConfig(cs[n])}]

LEMMA BothAre ==
    ASSUME NEW X \in SUBSET Resolutions, NEW c \in Configs
    PROVE  Both(X, c) \in SUBSET Resolutions
<1> SUFFICES ASSUME NEW z \in Both(X, c) PROVE z \in Resolutions
  OBVIOUS
<1>a. PICK x \in X, y \in ResolveConfig(c) : z = [gs |-> x.gs \o y.gs, amount |-> x.amount + y.amount]
  <2> DEFINE R == ResolveConfig(c)
             join(x, y) == [gs |-> x.gs \o y.gs, amount |-> x.amount + y.amount]
  <2>1. Both(X, c) = {join(x, y) : x \in X, y \in R}
    BY DEF Both
  <2> HIDE DEF R, join
  <2>2. \E x \in X, y \in R : z = join(x, y)
    BY <2>1, SMT
  <2> QED
    BY <2>2 DEF R, join
<1>1. x \in Resolutions /\ y \in Resolutions
  BY ResolveConfigIs
<1>2. AskedFor(x.gs, x.amount) /\ AskedFor(y.gs, y.amount)
  BY <1>1 DEF Resolutions
<1>3. AskedFor(x.gs \o y.gs, x.amount + y.amount)
  BY <1>2, AskedForBoth
<1> QED
  BY <1>a, <1>3 DEF Resolutions, AskedFor, Drawing

LEMMA ResolveConfigsAre ==
    ASSUME NEW cs \in Seq(Configs)
    PROVE  ResolveConfigs(cs) \subseteq Resolutions
<1> DEFINE N == Len(cs)
           S == SUBSET Resolutions
           start == {[gs |-> << >>, amount |-> 0]}
           step == [q \in (1 .. N) \X S |-> Both(q[2], cs[q[1]])]
<1>1. N \in Nat /\ \A n \in 1 .. N : cs[n] \in Configs
  OBVIOUS
<1>2. start \in S
  BY NothingAsked DEF Resolutions
<1>3. \A n \in 1 .. N : \A X \in S : Both(X, cs[n]) \in S
  BY <1>1, BothAre
<1> HIDE DEF N, S, start
<1>4. step \in [(1 .. N) \X S -> S]
  BY <1>3
<1>5. PICK f \in [0 .. N -> S] : LoopOf(f, N, start, step)
  <2> HIDE DEF step
  <2> QED
    BY <1>1, <1>2, <1>4, LoopExists
<1>6. f = [n \in 0 .. N |-> IF n = 0 THEN start ELSE Both(f[n - 1], cs[n])]
  <2>1. ASSUME NEW n \in 1 .. N PROVE step[<<n, f[n - 1]>>] = Both(f[n - 1], cs[n])
    <3>1. n - 1 \in 0 .. N /\ f[n - 1] \in S
      BY <1>1, <1>5
    <3> QED
      BY <3>1
  <2>2. ASSUME NEW n \in 0 .. N PROVE f[n] = IF n = 0 THEN start ELSE Both(f[n - 1], cs[n])
    <3> HIDE DEF step
    <3>1. f[n] = IF n = 0 THEN start ELSE step[<<n, f[n - 1]>>]
      BY <1>5 DEF LoopOf
    <3>2. n # 0 => n \in 1 .. N
      BY <1>1
    <3> QED
      BY <2>1, <3>1, <3>2
  <2>3. f = [n \in 0 .. N |-> f[n]]
    BY <1>5
  <2> HIDE DEF step
  <2> QED
    BY <2>2, <2>3
<1>7. IsResolving(f, cs)
  BY <1>6 DEF IsResolving, Both, N, start
<1> DEFINE upTo[n \in 0 .. Len(cs)] ==
             IF n = 0 THEN {[gs |-> << >>, amount |-> 0]}
             ELSE {[gs |-> x.gs \o y.gs, amount |-> x.amount + y.amount] : x \in upTo[n - 1], y \in ResolveConfig(cs[n])}
<1>8. upTo = CHOOSE g : IsResolving(g, cs)
  BY DEF IsResolving
<1>9. ResolveConfigs(cs) = upTo[Len(cs)]
  BY DEF ResolveConfigs
<1> HIDE DEF upTo, step
<1>10. IsResolving(upTo, cs)
  BY <1>7, <1>8
<1>11. upTo[0] = start /\ \A n \in 1 .. N : upTo[n] = Both(upTo[n - 1], cs[n])
  <2>1. upTo = [n \in 0 .. N |-> IF n = 0 THEN start ELSE Both(upTo[n - 1], cs[n])]
    BY <1>10 DEF IsResolving, Both, N, start
  <2> QED
    BY <1>1, <2>1
<1>12. \A n \in 0 .. N : upTo[n] \in S
  <2>1. \A n \in 1 .. N : upTo[n - 1] \in S => upTo[n] \in S
    BY <1>3, <1>11
  <2>2. upTo[0] \in S
    BY <1>2, <1>11
  <2> QED
    BY <1>1, <2>1, <2>2, LoopStays
<1>13. upTo[N] \in S
  BY <1>1, <1>12
<1> QED
  BY <1>9, <1>13 DEF N, S

-----------------------------------------------------------------------------
(* Instancing.                                                              *)

LEMMA StacksOfOneSource ==
    ASSUME NEW a \in Assets \ {NoAsset}
    PROVE  CreateItemStack(a) \subseteq Assets /\ (~NothingIsDrawn => NoAsset \notin CreateItemStack(a))
<1>1. NoAsset \in Assets /\ Within(a) \subseteq Assets
  BY DEF Assets, Within
<1>2. CreateItemStack(a) \subseteq Assets
  BY <1>1 DEF CreateItemStack
<1>3. ASSUME ~NothingIsDrawn PROVE NoAsset \notin CreateItemStack(a)
  <2> DEFINE S == Assets \ {NoAsset}
  <2>1. ASSUME NEW p \in S \cap Pools PROVE AssetsOf(p) \subseteq S
    <3>1. DropsOf[p] \in Seq(TableDrops)
      BY ItemPoolsAssumption
    <3>2. \A i \in DOMAIN DropsOf[p] : DropsOf[p][i].asset \in Assets
      <4>1. \A i \in DOMAIN DropsOf[p] : DropsOf[p][i] \in TableDrops
        BY <3>1
      <4> QED
        BY <4>1 DEF TableDrops
    <3>3. AssetsOf(p) \subseteq Assets
      BY <3>2 DEF AssetsOf
    <3> QED
      BY <1>3, <3>3 DEF NothingIsDrawn
  <2>2. S \in SUBSET Assets /\ a \in S /\ NoAsset \notin S
    OBVIOUS
  <2> HIDE DEF S
  <2>3. NoAsset \notin Within(a)
    BY <2>1, <2>2 DEF Within
  <2>4. ~\E p \in Within(a) \cap Pools : AssetsOf(p) = {}
    BY <1>3 DEF NothingIsDrawn
  <2> QED
    BY <2>3, <2>4 DEF CreateItemStack
<1> QED
  BY <1>2, <1>3

\* OnlySet keeps the stacks whose item is set.
LEMMA OnlySetIs ==
    ASSUME NEW s \in Seq(MadeStacks)
    PROVE  /\ OnlySet(s) \in Seq(MadeStacks)
           /\ Total(CopiesOf, OnlySet(s)) <= Total(CopiesOf, s)
           /\ (\A n \in DOMAIN s : s[n].item # NoAsset) => OnlySet(s) = s
<1> DEFINE S == {x \in Elements(s) : x.item # NoAsset}
<1>1. \A n \in DOMAIN s : s[n].item # NoAsset => s[n] \in S
  BY DEF Elements
<1>2. OnlySet(s) = OnlyIn(S, s)
  BY DEF OnlySet
<1> HIDE DEF S
<1>3. /\ OnlyIn(S, s) \in Seq(MadeStacks)
      /\ (\A n \in DOMAIN s : s[n] \in S) => OnlyIn(S, s) = s
      /\ Total(CopiesOf, OnlyIn(S, s)) <= Total(CopiesOf, s)
  BY CountersAre, OnlyIs
<1> QED
  BY <1>1, <1>2, <1>3

\* One generation adds no more copies than it counts, and all when nothing is
\* drawn as no item.
Made(made, amount) ==
    /\ made \in Seq(MadeStacks)
    /\ Total(CopiesOf, made) <= amount
    /\ ~NothingIsDrawn => Total(CopiesOf, made) = amount

LEMMA SomeStacks ==
    ASSUME NEW k \in Nat, NEW amount \in Nat, NEW a \in Assets \ {NoAsset},
           NEW s \in Seq(MadeStacks), Total(CopiesOf, s) = amount,
           \A n \in DOMAIN s : s[n].item \in CreateItemStack(a)
    PROVE  Made(OnlySet(s), amount)
BY StacksOfOneSource, OnlySetIs DEF Made

LEMMA ResolveGenerationIs ==
    ASSUME NEW g \in Generations, IsValidDrop(g), NEW made \in ResolveGeneration(g)
    PROVE  Made(made, g.count)
<1> DEFINE a == g.drop.asset
           k == g.count
           some == CreateItemStack(a)
<1>1. a \in Assets \ {NoAsset} /\ k \in Nat
  BY DEF Generations, TableDrops, IsValidDrop
<1>2. some \subseteq Assets
  BY <1>1, StacksOfOneSource
<1>3. CASE CanBeMutable(a)
  <2>1. PICK f \in [1 .. k -> some] : made = OnlySet([n \in 1 .. k |-> Stack(f[n], 1)])
    BY <1>3 DEF ResolveGeneration
  <2> DEFINE s == [n \in 1 .. k |-> Stack(f[n], 1)]
             ws == [n \in DOMAIN s |-> CopiesOf[s[n]]]
  <2> HIDE DEF a, k, some
  <2>2. \A n \in 1 .. k : Stack(f[n], 1) \in MadeStacks /\ Stack(f[n], 1).item \in some /\ Stack(f[n], 1).copies = 1
    BY <1>2 DEF Stack, MadeStacks
  <2>3. s \in [1 .. k -> MadeStacks] /\ \A n \in 1 .. k : s[n] = Stack(f[n], 1)
    BY <2>2
  <2>4. s \in Seq(MadeStacks) /\ Len(s) = k /\ DOMAIN s = 1 .. k
    BY <1>1, <2>3
  <2>5. made = OnlySet(s)
    BY <2>1
  <2> HIDE DEF s
  <2>6. \A n \in DOMAIN s : CopiesOf[s[n]] = 1 /\ s[n].item \in some
    BY <2>2, <2>3, <2>4 DEF CopiesOf
  <2>7. \A n \in DOMAIN ws : ws[n] = 1
    BY <2>6
  <2>8. ws \in Seq(Nat) /\ Len(ws) = k
    <3>1. ws \in Seq(Nat) /\ Len(ws) = Len(s)
      <4>1. s \in Seq(MadeStacks) /\ CopiesOf \in [MadeStacks -> Nat]
        BY <2>4, CountersAre
      <4> QED
        BY <4>1, WeighedIs
    <3> QED
      BY <2>4, <3>1
  <2>9. Total(CopiesOf, s) = SumTo(ws, Len(ws))
    BY <2>4, <2>8 DEF Total
  <2> HIDE DEF ws
  <2>10. SumTo(ws, Len(ws)) = Len(ws) * 1
    BY <2>7, <2>8, SumSame
  <2>11. Total(CopiesOf, s) = k
    BY <1>1, <2>8, <2>9, <2>10
  <2>12. Made(OnlySet(s), k)
    BY <1>1, <2>4, <2>6, <2>11, SomeStacks DEF some
  <2> QED
    BY <2>5, <2>12 DEF k
<1>4. CASE ~CanBeMutable(a)
  <2>1. PICK item \in some : made = OnlySet(<<Stack(item, k)>>)
    BY <1>4 DEF ResolveGeneration
  <2> HIDE DEF a, k, some
  <2>2. Stack(item, k) \in MadeStacks /\ Stack(item, k).item = item /\ CopiesOf[Stack(item, k)] = k
    BY <1>1, <1>2 DEF Stack, MadeStacks, CopiesOf
  <2>3. Total(CopiesOf, <<Stack(item, k)>>) = k
    BY <2>2, CountersAre, TotalOfOne
  <2>4. <<Stack(item, k)>> \in Seq(MadeStacks) /\ \A n \in DOMAIN <<Stack(item, k)>> : <<Stack(item, k)>>[n].item \in some
    BY <2>2
  <2>5. Made(OnlySet(<<Stack(item, k)>>), k)
    BY <1>1, <2>3, <2>4, SomeStacks DEF some
  <2> QED
    BY <2>1, <2>5 DEF k
<1> QED
  BY <1>3, <1>4

LEMMA MadeBoth ==
    ASSUME NEW m \in Nat, NEW n \in Nat, NEW a, Made(a, m), NEW b, Made(b, n)
    PROVE  Made(a \o b, m + n)
<1>1. a \in Seq(MadeStacks) /\ b \in Seq(MadeStacks)
  BY DEF Made
<1>2. Total(CopiesOf, a \o b) = Total(CopiesOf, a) + Total(CopiesOf, b)
  BY <1>1, CountersAre, TotalOfMany
<1>3. Total(CopiesOf, a) \in Nat /\ Total(CopiesOf, b) \in Nat
  BY <1>1, CountersAre, WeighedIs
<1>4. a \o b \in Seq(MadeStacks)
  BY <1>1
<1> QED
  BY <1>2, <1>3, <1>4 DEF Made

-----------------------------------------------------------------------------
(* All generations, one after another.                                      *)

With(X, g) == {before \o last : before \in X, last \in ResolveGeneration(g)}
IsMaking(f, gs) ==
    f = [n \in 0 .. Len(gs) |-> IF n = 0 THEN {<< >>} ELSE With(f[n - 1], gs[n])]
AllMade(X, amount) == \A made \in X : Made(made, amount)

LEMMA WithAre ==
    ASSUME NEW g \in Generations, IsValidDrop(g), NEW amount \in Nat, NEW X, AllMade(X, amount)
    PROVE  AllMade(With(X, g), amount + g.count)
<1> SUFFICES ASSUME NEW z \in With(X, g) PROVE Made(z, amount + g.count)
  BY DEF AllMade
<1>1. PICK before \in X, last \in ResolveGeneration(g) : z = before \o last
  <2> DEFINE R == ResolveGeneration(g)
             join(x, y) == x \o y
  <2>1. With(X, g) = {join(x, y) : x \in X, y \in R}
    BY DEF With
  <2> HIDE DEF R, join
  <2>2. \E x \in X, y \in R : z = join(x, y)
    BY <2>1, SMT
  <2> QED
    BY <2>2 DEF R, join
<1>2. Made(before, amount) /\ Made(last, g.count) /\ g.count \in Nat
  BY ResolveGenerationIs DEF AllMade, Generations
<1> QED
  BY <1>1, <1>2, MadeBoth

LEMMA NothingMade == AllMade({<< >>}, 0)
<1>1. Total(CopiesOf, << >>) = 0 /\ << >> \in Seq(MadeStacks)
  BY TotalOfNone
<1>2. Made(<< >>, 0)
  BY <1>1 DEF Made
<1> QED
  BY <1>2 DEF AllMade

LEMMA WithSequences ==
    ASSUME NEW g \in Generations, IsValidDrop(g), NEW X \in SUBSET Seq(MadeStacks)
    PROVE  With(X, g) \in SUBSET Seq(MadeStacks)
<1> SUFFICES ASSUME NEW z \in With(X, g) PROVE z \in Seq(MadeStacks)
  OBVIOUS
<1>1. PICK before \in X, last \in ResolveGeneration(g) : z = before \o last
  <2> DEFINE R == ResolveGeneration(g)
             join(x, y) == x \o y
  <2>1. With(X, g) = {join(x, y) : x \in X, y \in R}
    BY DEF With
  <2> HIDE DEF R, join
  <2>2. \E x \in X, y \in R : z = join(x, y)
    BY <2>1, SMT
  <2> QED
    BY <2>2 DEF R, join
<1>2. before \in Seq(MadeStacks) /\ last \in Seq(MadeStacks)
  BY ResolveGenerationIs DEF Made
<1> QED
  BY <1>1, <1>2

LEMMA ResolveAllIs ==
    ASSUME NEW gs \in Seq(Generations), \A n \in DOMAIN gs : IsValidDrop(gs[n])
    PROVE  AllMade(ResolveAll(gs), Total(CountOf, gs))
<1> DEFINE N == Len(gs)
           S == SUBSET Seq(MadeStacks)
           start == {<< >>}
           step == [q \in (1 .. N) \X S |-> With(q[2], gs[q[1]])]
           counts == [n \in DOMAIN gs |-> CountOf[gs[n]]]
<1>1. N \in Nat /\ \A n \in 1 .. N : gs[n] \in Generations /\ IsValidDrop(gs[n])
  OBVIOUS
<1>2. start \in S
  OBVIOUS
<1>3. \A n \in 1 .. N : \A X \in S : With(X, gs[n]) \in S
  BY <1>1, WithSequences
<1>a. counts \in Seq(Nat) /\ Len(counts) = N
  BY CountersAre, WeighedIs
<1>b. \A n \in 1 .. N : counts[n] = gs[n].count
  BY <1>1 DEF CountOf
<1>c. Total(CountOf, gs) = SumTo(counts, N)
  BY DEF Total
<1> HIDE DEF N, S, start, counts
<1>4. step \in [(1 .. N) \X S -> S]
  BY <1>3
<1>5. PICK f \in [0 .. N -> S] : LoopOf(f, N, start, step)
  <2> HIDE DEF step
  <2> QED
    BY <1>1, <1>2, <1>4, LoopExists
<1>6. f = [n \in 0 .. N |-> IF n = 0 THEN start ELSE With(f[n - 1], gs[n])]
  <2>1. ASSUME NEW n \in 1 .. N PROVE step[<<n, f[n - 1]>>] = With(f[n - 1], gs[n])
    <3>1. n - 1 \in 0 .. N /\ f[n - 1] \in S
      BY <1>1, <1>5
    <3> QED
      BY <3>1
  <2>2. ASSUME NEW n \in 0 .. N PROVE f[n] = IF n = 0 THEN start ELSE With(f[n - 1], gs[n])
    <3> HIDE DEF step
    <3>1. f[n] = IF n = 0 THEN start ELSE step[<<n, f[n - 1]>>]
      BY <1>5 DEF LoopOf
    <3>2. n # 0 => n \in 1 .. N
      BY <1>1
    <3> QED
      BY <2>1, <3>1, <3>2
  <2>3. f = [n \in 0 .. N |-> f[n]]
    BY <1>5
  <2> HIDE DEF step
  <2> QED
    BY <2>2, <2>3
<1>7. IsMaking(f, gs)
  BY <1>6 DEF IsMaking, N, start
<1> DEFINE made[n \in 0 .. Len(gs)] ==
             IF n = 0 THEN {<< >>} ELSE {before \o last : before \in made[n - 1], last \in ResolveGeneration(gs[n])}
<1>8. made = CHOOSE g : IsMaking(g, gs)
  BY DEF IsMaking, With
<1>9. ResolveAll(gs) = made[Len(gs)]
  BY DEF ResolveAll
<1> HIDE DEF made, step
<1>10. IsMaking(made, gs)
  BY <1>7, <1>8
<1>11. made[0] = start /\ \A n \in 1 .. N : made[n] = With(made[n - 1], gs[n])
  <2>1. made = [n \in 0 .. N |-> IF n = 0 THEN start ELSE With(made[n - 1], gs[n])]
    BY <1>10 DEF IsMaking, N, start
  <2> QED
    BY <1>1, <2>1
<1> DEFINE Kept == {n \in 0 .. N : AllMade(made[n], SumTo(counts, n))}
<1>12. 0 \in Kept
  <2>1. SumTo(counts, 0) = 0 /\ 0 \in 0 .. N
    BY <1>1, <1>a, SumIs
  <2> QED
    BY <1>11, <2>1, NothingMade DEF start
<1>13. ASSUME NEW n \in 1 .. N, n - 1 \in Kept PROVE n \in Kept
  <2>1. n \in 0 .. N /\ n - 1 \in 0 .. N /\ n \in 1 .. Len(counts) /\ n - 1 \in 0 .. Len(counts)
    BY <1>1, <1>a
  <2>2. SumTo(counts, n) = SumTo(counts, n - 1) + gs[n].count /\ SumTo(counts, n - 1) \in Nat
    BY <1>a, <1>b, <2>1, SumIs
  <2>3. AllMade(made[n - 1], SumTo(counts, n - 1))
    BY <1>13
  <2>4. AllMade(With(made[n - 1], gs[n]), SumTo(counts, n - 1) + gs[n].count)
    BY <1>1, <2>2, <2>3, WithAre
  <2> QED
    BY <1>11, <2>1, <2>2, <2>4
<1>14. \A n \in 0 .. N : n \in Kept
  <2> HIDE DEF Kept
  <2> QED
    BY <1>1, <1>12, <1>13, LoopInduction
<1>15. AllMade(made[N], SumTo(counts, N))
  BY <1>1, <1>14
<1> QED
  BY <1>9, <1>15, <1>c DEF N

-----------------------------------------------------------------------------
(* A check that expands no pools.                                           *)

IsChecking(f, gs, from, there) ==
    f = [n \in 0 .. MaxChecks |->
           IF n = 0 THEN [pending |-> gs, load |-> {}, at |-> from]
           ELSE [w \in Checks |-> CheckNext(w, there)][f[n - 1]]]

LEMMA CheckNextKeeps ==
    ASSUME ~request'.expand, NEW there, NEW w \in Checks
    PROVE  CheckNext(w, there) \in Checks /\ CheckNext(w, there).pending = w.pending
<1>1. CASE w.at > Len(w.pending)
  BY <1>1 DEF CheckNext
<1>2. CASE ~(w.at > Len(w.pending))
  <2> DEFINE a == w.pending[w.at].drop.asset
             load == IF a # NoAsset /\ a \notin there THEN w.load \cup {a} ELSE w.load
  <2>1. w.pending \in Seq(Generations) /\ w.at \in Nat \ {0} /\ w.load \subseteq Assets
    BY DEF Checks
  <2>2. w.at \in 1 .. Len(w.pending)
    BY <1>2, <2>1
  <2>3. w.pending[w.at] \in Generations
    BY <2>1, <2>2
  <2>4. a \in Assets
    BY <2>3 DEF Generations, TableDrops
  <2>5. CheckNext(w, there) = [w EXCEPT !.load = load, !.at = w.at + 1]
    BY <1>2 DEF CheckNext
  <2>6. load \subseteq Assets /\ w.at + 1 \in Nat \ {0}
    BY <2>1, <2>4
  <2> HIDE DEF load
  <2> QED
    BY <2>5, <2>6 DEF Checks
<1> QED
  BY <1>1, <1>2

LEMMA CheckedKeeps ==
    ASSUME ~request'.expand, NEW there, NEW gs \in Seq(Generations), NEW from \in Nat \ {0}
    PROVE  Checked(gs, from, there).pending = gs
<1> DEFINE N == MaxChecks
           start == [pending |-> gs, load |-> {}, at |-> from]
           next == [w \in Checks |-> CheckNext(w, there)]
           Same == {w \in Checks : w.pending = gs}
           step == [q \in (1 .. N) \X Checks |-> next[q[2]]]
<1>1. N \in Nat
  BY ItemGenerationAssumption
<1>2. start \in Checks /\ start.pending = gs
  BY DEF Checks
<1>3. \A w \in Checks : next[w] \in Checks /\ next[w].pending = w.pending
  BY CheckNextKeeps
<1> HIDE DEF N, start, next
<1>4. step \in [(1 .. N) \X Checks -> Checks]
  BY <1>3
<1>5. PICK f \in [0 .. N -> Checks] : LoopOf(f, N, start, step)
  <2> HIDE DEF step
  <2> QED
    BY <1>1, <1>2, <1>4, LoopExists
<1>6. f = [n \in 0 .. N |-> IF n = 0 THEN start ELSE next[f[n - 1]]]
  <2>1. ASSUME NEW n \in 1 .. N PROVE step[<<n, f[n - 1]>>] = next[f[n - 1]]
    <3>1. n - 1 \in 0 .. N /\ f[n - 1] \in Checks
      BY <1>1, <1>5
    <3> QED
      BY <3>1
  <2>2. ASSUME NEW n \in 0 .. N PROVE f[n] = IF n = 0 THEN start ELSE next[f[n - 1]]
    <3> HIDE DEF step
    <3>1. f[n] = IF n = 0 THEN start ELSE step[<<n, f[n - 1]>>]
      BY <1>5 DEF LoopOf
    <3>2. n # 0 => n \in 1 .. N
      BY <1>1
    <3> QED
      BY <2>1, <3>1, <3>2
  <2>3. f = [n \in 0 .. N |-> f[n]]
    BY <1>5
  <2> HIDE DEF step
  <2> QED
    BY <2>2, <2>3
<1>7. IsChecking(f, gs, from, there)
  BY <1>6 DEF IsChecking, N, start, next
<1> DEFINE after[n \in 0 .. MaxChecks] ==
             IF n = 0 THEN [pending |-> gs, load |-> {}, at |-> from] ELSE next[after[n - 1]]
<1>8. after = CHOOSE g : IsChecking(g, gs, from, there)
  BY DEF IsChecking, next
<1>9. Checked(gs, from, there) = after[MaxChecks]
  BY DEF Checked, next
<1> HIDE DEF after, step
<1>10. IsChecking(after, gs, from, there)
  BY <1>7, <1>8
<1>11. after[0] = start /\ \A n \in 1 .. N : after[n] = next[after[n - 1]]
  <2>1. after = [n \in 0 .. N |-> IF n = 0 THEN start ELSE next[after[n - 1]]]
    BY <1>10 DEF IsChecking, N, start, next
  <2> QED
    BY <1>1, <2>1
<1>12. \A n \in 0 .. N : after[n] \in Same
  <2>1. \A n \in 1 .. N : after[n - 1] \in Same => after[n] \in Same
    BY <1>3, <1>11
  <2>2. after[0] \in Same
    BY <1>2, <1>11
  <2> HIDE DEF Same
  <2> QED
    BY <1>1, <2>1, <2>2, LoopStays
<1>13. after[N] \in Same
  BY <1>1, <1>12
<1> QED
  BY <1>9, <1>13 DEF N

-----------------------------------------------------------------------------
(* What is kept: what a request that is loading has pending is what the     *)
(* configs asked for, until a pool is expanded.                             *)

GenInv ==
    /\ request.source # NoDrop => request.source \in Sources
    /\ phase \in Loading /\ request.source # NoDrop => request.source.asset # NoAsset /\ asked = 1
    /\ phase = "configs" => request.source = NoDrop
    /\ phase \in Loading /\ request.source = NoDrop /\ ~request.expand =>
         AskedFor(pending, asked) /\ checkFrom \in Nat \ {0}
    /\ MakesWhatWasAsked

\* OnlyValid passes over generations without an asset.
LEMMA OnlyValidIs ==
    ASSUME NEW gs, Drawing(gs)
    PROVE  /\ OnlyValid(gs) \in Seq(Generations) /\ \A n \in DOMAIN OnlyValid(gs) : IsValidDrop(OnlyValid(gs)[n])
           /\ Total(CountOf, OnlyValid(gs)) <= Total(CountOf, gs)
           /\ ~NothingIsDrawn => OnlyValid(gs) = gs
<1> DEFINE S == {g \in Elements(gs) : IsValidDrop(g)}
<1>1. gs \in Seq(Generations) /\ OnlyValid(gs) = OnlyIn(S, gs)
  BY DEF OnlyValid, Drawing
<1>2. \A x \in S : IsValidDrop(x)
  OBVIOUS
<1>3. ASSUME ~NothingIsDrawn, NEW n \in DOMAIN gs PROVE gs[n] \in S
  <2>1. gs[n].drop.asset # NoAsset /\ gs[n].count # 0 /\ gs[n] \in Generations
    BY <1>1, <1>3 DEF Drawing
  <2> QED
    BY <2>1 DEF Generations, IsValidDrop, Elements
<1> HIDE DEF S
<1>4. /\ OnlyIn(S, gs) \in Seq(Generations)
      /\ \A n \in DOMAIN OnlyIn(S, gs) : OnlyIn(S, gs)[n] \in S
      /\ (\A n \in DOMAIN gs : gs[n] \in S) => OnlyIn(S, gs) = gs
      /\ Total(CountOf, OnlyIn(S, gs)) <= Total(CountOf, gs)
  BY <1>1, CountersAre, OnlyIs
<1> QED
  BY <1>1, <1>2, <1>3, <1>4

\* Generate makes what is pending.
LEMMA GenerateMakes ==
    ASSUME NEW gs, NEW there, AskedFor(gs, asked'), Generate(gs, there)
    PROVE  phase' \in Ended /\ (phase' = "completed" => Made(stacks', asked'))
<1> DEFINE valid == OnlyValid(gs)
<1>1. Drawing(gs) /\ asked' \in Nat /\ Total(CountOf, gs) = asked'
  BY DEF AskedFor
<1>2. /\ valid \in Seq(Generations) /\ \A n \in DOMAIN valid : IsValidDrop(valid[n])
      /\ Total(CountOf, valid) <= asked' /\ (~NothingIsDrawn => Total(CountOf, valid) = asked')
  BY <1>1, OnlyValidIs
<1>3. AllMade(ResolveAll(valid), Total(CountOf, valid)) /\ Total(CountOf, valid) \in Nat
  BY <1>2, ResolveAllIs, CountersAre, WeighedIs
<1> HIDE DEF valid
<1>4. IF \E i \in DOMAIN valid : valid[i].drop.asset \notin there
      THEN phase' = "halted"
      ELSE \E made \in ResolveAll(valid) :
             stacks' = made /\ phase' = IF made = << >> THEN "failed" ELSE "completed"
  BY DEF Generate, valid
<1>5. phase' \in Ended
  BY <1>4 DEF Ended
<1>6. ASSUME phase' = "completed" PROVE Made(stacks', asked')
  <2>1. stacks' \in ResolveAll(valid)
    BY <1>4, <1>6
  <2>2. Made(stacks', Total(CountOf, valid))
    BY <1>3, <2>1 DEF AllMade
  <2>3. Total(CopiesOf, stacks') \in Nat
    BY <2>2, CountersAre, WeighedIs DEF Made
  <2> QED
    BY <1>1, <1>2, <1>3, <2>2, <2>3 DEF Made
<1> QED
  BY <1>5, <1>6

\* The copies of what is made.
LEMMA CopiesAre ==
    ASSUME NEW made \in Seq(MadeStacks)
    PROVE  SumTo([n \in DOMAIN made |-> made[n].copies], Len(made)) = Total(CopiesOf, made)
<1>1. \A n \in DOMAIN made : made[n].copies = CopiesOf[made[n]]
  <2>1. \A n \in DOMAIN made : made[n] \in MadeStacks
    OBVIOUS
  <2> QED
    BY <2>1 DEF CopiesOf
<1>2. [n \in DOMAIN made |-> made[n].copies] = [n \in DOMAIN made |-> CopiesOf[made[n]]]
  BY <1>1
<1> QED
  BY <1>2 DEF Total

LEMMA MadeWasAsked ==
    ASSUME Made(stacks', asked') PROVE MakesWhatWasAsked'
<1>1. stacks' \in Seq(MadeStacks)
  BY DEF Made
<1>2. CopiesMade' = Total(CopiesOf, stacks')
  BY <1>1, CopiesAre DEF CopiesMade
<1>3. NothingIsDrawn' <=> NothingIsDrawn
  BY DEF NothingIsDrawn, AssetsOf
<1> QED
  BY <1>2, <1>3 DEF MakesWhatWasAsked, Made

\* What an ended request has to be.
LEMMA EndedIs ==
    ASSUME request'.source # NoDrop => request'.source \in Sources, phase' \in Ended,
           phase' = "completed" /\ ~request'.expand => Made(stacks', asked')
    PROVE  GenInv'
<1>1. phase' \notin Loading
  BY DEF Ended, Loading
<1>2. MakesWhatWasAsked'
  <2>1. CASE phase' = "completed" /\ ~request'.expand
    BY <2>1, MadeWasAsked
  <2>2. CASE ~(phase' = "completed" /\ ~request'.expand)
    BY <2>2 DEF MakesWhatWasAsked
  <2> QED
    BY <2>1, <2>2
<1> QED
  BY <1>1, <1>2 DEF GenInv, Loading

LEMMA LoadCheckIs ==
    ASSUME request'.source = NoDrop, NEW gs, NEW from, NEW there,
           ~request'.expand => AskedFor(gs, asked') /\ from \in Nat \ {0},
           LoadCheck(gs, from, there)
    PROVE  GenInv'
<1> DEFINE done == Checked(gs, from, there)
           now == there \cup (done.load \ Missing)
<1>1. ASSUME ~request'.expand
      PROVE  done.pending = gs /\ AskedFor(done.pending, asked') /\ Len(done.pending) + 1 \in Nat \ {0}
  <2>1. AskedFor(gs, asked') /\ gs \in Seq(Generations) /\ from \in Nat \ {0}
    BY <1>1 DEF AskedFor, Drawing
  <2>2. done.pending = gs
    BY <1>1, <2>1, CheckedKeeps
  <2>3. Len(gs) + 1 \in Nat \ {0}
    BY <2>1
  <2> QED
    BY <2>1, <2>2, <2>3
<1>2. \/ Generate(done.pending, there)
      \/ /\ phase' = "drops" /\ pending' = done.pending /\ checkFrom' = Len(done.pending) + 1
      \/ Generate(done.pending, now)
  BY DEF LoadCheck
<1> HIDE DEF done, now
<1>3. ASSUME NEW here, Generate(done.pending, here) PROVE GenInv'
  <2>1. phase' \in Ended
    BY <1>3 DEF Generate, Ended
  <2>2. ~request'.expand /\ phase' = "completed" => Made(stacks', asked')
    BY <1>1, <1>3, GenerateMakes
  <2> QED
    BY <2>1, <2>2, EndedIs
<1>4. CASE phase' = "drops" /\ pending' = done.pending /\ checkFrom' = Len(done.pending) + 1
  <2>1. MakesWhatWasAsked'
    BY <1>4 DEF MakesWhatWasAsked
  <2>2. ~request'.expand => AskedFor(pending', asked') /\ checkFrom' \in Nat \ {0}
    BY <1>1, <1>4
  <2>3. ~request'.expand => AskedFor(pending, asked)'
    BY <2>2 DEF AskedFor, Drawing, Total, SumTo, CountOf, Generations, TableDrops, Assets, NothingIsDrawn, AssetsOf
  <2> QED
    BY <2>1, <2>2, <2>3 DEF GenInv
<1> QED
  BY <1>2, <1>3, <1>4

LEMMA FailIs ==
    ASSUME request'.source # NoDrop => request'.source \in Sources, Fail
    PROVE  GenInv'
BY EndedIs DEF Fail, Ended

LEMMA LoadDriversIs ==
    ASSUME request'.source = NoDrop, request'.drivers \in Seq(Configs), LoadDrivers
    PROVE  GenInv'
<1> DEFINE drivers == request'.drivers
           configs == Elements(drivers) \ loaded
           sync == ~request'.async
           there == loaded \cup (IF sync THEN configs \ Missing ELSE {})
<1>1. PICK thenLoaded \in Orders(IF sync THEN configs \ Missing ELSE {}) :
        \E r \in ResolveConfigs(OnlyIn(loaded, drivers) \o thenLoaded) :
          /\ asked' = r.amount
          /\ IF configs # {} /\ ~sync
             THEN phase' = "configs" /\ pending' = r.gs /\ checkFrom' = 1
             ELSE LoadCheck(r.gs, 1, there)
  BY DEF LoadDrivers
<1> DEFINE cs == OnlyIn(loaded, drivers) \o thenLoaded
<1>2. PICK r \in ResolveConfigs(cs) :
          /\ asked' = r.amount
          /\ IF configs # {} /\ ~sync
             THEN phase' = "configs" /\ pending' = r.gs /\ checkFrom' = 1
             ELSE LoadCheck(r.gs, 1, there)
  BY <1>1
<1>3. OnlyIn(loaded, drivers) \in Seq(Configs)
  <2> DEFINE w == [c \in Configs |-> 0]
  <2>1. w \in [Configs -> Nat]
    OBVIOUS
  <2> HIDE DEF w
  <2> QED
    BY <2>1, OnlyIs
<1>4. thenLoaded \in Seq(Configs)
  <2> DEFINE D == IF sync THEN configs \ Missing ELSE {}
  <2>1. D \subseteq Configs
    BY DEF Elements
  <2>2. IsFiniteSet(D)
    <3>1. IsFiniteSet(1 .. Len(drivers)) /\ DOMAIN drivers = 1 .. Len(drivers)
      BY FS_Interval
    <3>2. drivers \in Surjection(1 .. Len(drivers), Elements(drivers))
      BY <3>1 DEF Elements, Surjection
    <3>3. IsFiniteSet(Elements(drivers))
      BY <3>1, <3>2, FS_Surjection
    <3>4. D \subseteq Elements(drivers)
      OBVIOUS
    <3> HIDE DEF D
    <3> QED
      BY <3>3, <3>4, FS_Subset
  <2> HIDE DEF D
  <2>3. Cardinality(D) \in Nat
    BY <2>2, FS_CardinalityType
  <2>4. thenLoaded \in [1 .. Cardinality(D) -> Configs]
    BY <1>1, <2>1 DEF Orders, D
  <2> QED
    BY <2>3, <2>4
<1>5. cs \in Seq(Configs)
  BY <1>3, <1>4
<1> HIDE DEF cs, configs, sync, there
<1>6. AskedFor(r.gs, asked')
  BY <1>2, <1>5, ResolveConfigsAre DEF Resolutions
<1>7. CASE phase' = "configs" /\ pending' = r.gs /\ checkFrom' = 1
  <2>1. MakesWhatWasAsked'
    BY <1>7 DEF MakesWhatWasAsked
  <2>2. AskedFor(pending', asked') /\ checkFrom' \in Nat \ {0}
    BY <1>6, <1>7
  <2>3. AskedFor(pending, asked)'
    BY <2>2 DEF AskedFor, Drawing, Total, SumTo, CountOf, Generations, TableDrops, Assets, NothingIsDrawn, AssetsOf
  <2> QED
    BY <2>1, <2>2, <2>3 DEF GenInv
<1>8. CASE LoadCheck(r.gs, 1, there)
  BY <1>6, <1>8, LoadCheckIs
<1> QED
  BY <1>2, <1>7, <1>8

LEMMA RunIs ==
    ASSUME NEW drivers \in DriverLists, NEW expand \in BOOLEAN, NEW async \in BOOLEAN,
           Run(drivers, expand, async)
    PROVE  GenInv'
<1>1. request' = [source |-> NoDrop, drivers |-> drivers, expand |-> expand, async |-> async]
  BY DEF Run
<1>2. CASE drivers = << >> \/ NoAsset \in Elements(drivers)
  BY <1>1, <1>2, FailIs DEF Run
<1>3. CASE ~(drivers = << >> \/ NoAsset \in Elements(drivers))
  <2>1. drivers \in Seq(Configs \cup {NoAsset})
    BY ItemGenerationAssumption
  <2>2. \A n \in 1 .. Len(drivers) : drivers[n] \in Configs
    BY <1>3, <2>1 DEF Elements
  <2>3. drivers \in Seq(Configs)
    BY <2>1, <2>2
  <2> QED
    BY <1>1, <1>3, <2>3, LoadDriversIs DEF Run
<1> QED
  BY <1>2, <1>3

LEMMA SingleIs ==
    ASSUME NEW source \in Sources, source.asset # NoAsset, request'.source = source,
           asked' = 1, NEW there, LoadCheckSingle(source, there)
    PROVE  GenInv'
<1> DEFINE g == [drop |-> source, count |-> 1]
<1>1. source \in TableDrops /\ source # NoDrop
  BY ItemGenerationAssumption
<1>2. g \in Generations /\ g.count = 1 /\ g.drop.asset # NoAsset
  BY <1>1 DEF Generations
<1> HIDE DEF g
<1>3. <<g>> \in Seq(Generations) /\ Total(CountOf, <<g>>) = 1 /\ \A n \in DOMAIN <<g>> : <<g>>[n] = g
  BY <1>2, CountersAre, TotalOfOne DEF CountOf
<1>4. AskedFor(<<g>>, asked')
  BY <1>2, <1>3 DEF AskedFor, Drawing
<1>5. Generate(<<g>>, there) \/ phase' = "drops"
  BY DEF LoadCheckSingle, g
<1>6. CASE Generate(<<g>>, there)
  BY <1>1, <1>4, <1>6, GenerateMakes, EndedIs
<1>7. CASE phase' = "drops"
  BY <1>1, <1>7 DEF GenInv, MakesWhatWasAsked
<1> QED
  BY <1>5, <1>6, <1>7

LEMMA RunSingleIs ==
    ASSUME NEW source \in Sources, NEW async \in BOOLEAN, RunSingle(source, async)
    PROVE  GenInv'
<1>1. request' = [source |-> source, drivers |-> << >>, expand |-> FALSE, async |-> async]
  BY DEF RunSingle
<1>2. CASE source.asset = NoAsset
  BY <1>1, <1>2, FailIs DEF RunSingle
<1>3. CASE source.asset # NoAsset
  <2>1. PICK there : LoadCheckSingle(source, there) /\ asked' = 1
    BY <1>3 DEF RunSingle
  <2> QED
    BY <1>1, <1>3, <2>1, SingleIs
<1> QED
  BY <1>2, <1>3

LEMMA LoadDoneIs ==
    ASSUME GenInv, LoadDone PROVE GenInv'
<1>1. CASE ConfigsLoaded
  <2>1. request' = request /\ asked' = asked /\ phase = "configs"
        /\ LoadCheck(pending, 1, loaded \cup (toLoad \ Missing))
    BY <1>1 DEF ConfigsLoaded
  <2>2. request.source = NoDrop
    BY <2>1 DEF GenInv
  <2>3. ~request'.expand => AskedFor(pending, asked') /\ 1 \in Nat \ {0}
    BY <2>1, <2>2 DEF GenInv, Loading
  <2> QED
    BY <2>1, <2>2, <2>3, LoadCheckIs
<1>2. CASE DropsLoaded
  <2>1. request' = request /\ asked' = asked /\ phase = "drops" /\ request.source = NoDrop
        /\ LoadCheck(pending, checkFrom, loaded \cup (toLoad \ Missing))
    BY <1>2 DEF DropsLoaded
  <2>2. ~request'.expand => AskedFor(pending, asked') /\ checkFrom \in Nat \ {0}
    BY <2>1 DEF GenInv, Loading
  <2> QED
    BY <2>1, <2>2, LoadCheckIs
<1>3. CASE SingleLoaded
  <2>1. request' = request /\ asked' = asked /\ phase = "drops" /\ request.source # NoDrop
        /\ LoadCheckSingle(request.source, loaded \cup (toLoad \ Missing))
    BY <1>3 DEF SingleLoaded
  <2>2. request.source \in Sources /\ request.source.asset # NoAsset /\ asked = 1
    BY <2>1 DEF GenInv, Loading
  <2> QED
    BY <2>1, <2>2, SingleIs
<1> QED
  BY <1>1, <1>2, <1>3 DEF LoadDone

LEMMA GenStep == GenInv /\ [GenNext]_genVars => GenInv'
<1> SUFFICES ASSUME GenInv, [GenNext]_genVars PROVE GenInv'
  OBVIOUS
<1>1. CASE UNCHANGED genVars
  <2>1. UNCHANGED <<phase, request, loaded, pending, checkFrom, toLoad, stacks, asked>>
    BY <1>1 DEF genVars
  <2>2. AskedFor(pending, asked)' <=> AskedFor(pending, asked)
    BY <2>1 DEF AskedFor, Drawing, Total, SumTo, CountOf, Generations, TableDrops, Assets, NothingIsDrawn, AssetsOf
  <2>3. MakesWhatWasAsked' <=> MakesWhatWasAsked
    BY <2>1 DEF MakesWhatWasAsked, CopiesMade, SumTo, NothingIsDrawn, AssetsOf
  <2> QED
    BY <2>1, <2>2, <2>3 DEF GenInv
<1>2. ASSUME NEW drivers \in DriverLists, NEW expand \in BOOLEAN, NEW async \in BOOLEAN,
             Run(drivers, expand, async)
      PROVE  GenInv'
  BY <1>2, RunIs
<1>3. ASSUME NEW source \in Sources, NEW async \in BOOLEAN, RunSingle(source, async) PROVE GenInv'
  BY <1>3, RunSingleIs
<1>4. CASE LoadDone
  BY <1>4, LoadDoneIs
<1> QED
  BY <1>1, <1>2, <1>3, <1>4 DEF GenNext

\* A generation that completes has made as many copies as its configs asked
\* for, whichever procedure splits an amount and whichever loads come in
\* between (FFaerieItemGenerationAction, FFaerieItemGenerationConfig::Resolve).
THEOREM GenerationMakesWhatWasAsked == GenSpec => []MakesWhatWasAsked
<1>1. GenInit => GenInv
  BY DEF GenInit, GenInv, NoGeneration, Loading, MakesWhatWasAsked
<1>2. GenInv => MakesWhatWasAsked
  BY DEF GenInv
<1> QED
  BY <1>1, <1>2, GenStep, PTL DEF GenSpec
=============================================================================
