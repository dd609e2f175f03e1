---------------------------- MODULE EjectionQueue ----------------------------
(***************************************************************************)
(* Ejecting what a container holds (UInventoryEjectionHandlerExtension):    *)
(* each stack that is ejected waits in a queue until the class of its       *)
(* pickup is in memory, is given to a pickup of that class, and leaves the  *)
(* queue.  A stack is [item, copies].                                       *)
(***************************************************************************)
EXTENDS Integers, Sequences

CONSTANTS
    Ejectables,   \* items
    NoClass,
    ClassOf,      \* item -> the class its token names, NoClass without one
    DefaultClasses, \* what ExtensionDefaultClass may be
    Broken,       \* classes that never load
    MaxStored,    \* the copies of each item there are at first
    MaxEjections  \* bound: calls that eject

ASSUME EjectionQueueAssumption ==
    /\ NoClass \notin Broken
    /\ MaxStored \in Nat \ {0} /\ MaxEjections \in Nat

VARIABLES
    stored,    \* item -> copies the container holds
    default,   \* ExtensionDefaultClass
    hasOwner,  \* whether the extension lies in an actor
    inMemory,  \* the classes that are loaded
    queue,     \* PendingEjectionQueue
    streaming, \* IsStreaming
    loads,     \* the classes that are being loaded
    pickups,   \* [class, stack] of every pickup, the latest last
    ejected    \* every stack that was ejected, the latest last

ejectionVars == <<stored, default, hasOwner, inMemory, queue, streaming, loads, pickups, ejected>>

PickupClasses == ({ ClassOf[i] : i \in Ejectables } \cup DefaultClasses) \ {NoClass}

ClassToSpawn(item) == IF ClassOf[item] # NoClass THEN ClassOf[item] ELSE default

-----------------------------------------------------------------------------
(* The queue.  These take and give [inMemory, queue, streaming, loads,       *)
(* pickups].                                                                *)

IsReady(q, k) == ClassToSpawn(q.queue[k].item) \in q.inMemory

\* How many stacks come before the first whose class is not in memory.
ReadyAtHead(q) ==
    CHOOSE n \in 0..Len(q.queue) :
        /\ \A k \in 1..n : IsReady(q, k)
        /\ n < Len(q.queue) => ~IsReady(q, n + 1)

HeadsSpawned(q, n) ==
    [q EXCEPT !.pickups = @ \o [k \in 1..n |-> [class |-> ClassToSpawn(q.queue[k].item), stack |-> q.queue[k]]],
              !.queue = SubSeq(q.queue, n + 1, Len(q.queue))]

\* HandleNextInQueue and SpawnVisualizer call each other while the head is of a class in
\* memory.  A head of another class is waited for; one of no class stays, as all do without
\* an owner.
HandleNextInQueue(q) ==
    LET rest  == IF hasOwner THEN HeadsSpawned(q, ReadyAtHead(q)) ELSE q
        class == ClassToSpawn(rest.queue[1].item)
    IN  IF rest.queue # <<>> /\ class \in PickupClasses \ rest.inMemory
        THEN [rest EXCEPT !.streaming = TRUE, !.loads = Append(@, class)]
        ELSE rest

\* Of the class that was loaded.
SpawnVisualizer(q, class) ==
    IF ~hasOwner THEN q
    ELSE HandleNextInQueue(
           [q EXCEPT !.pickups = Append(@, [class |-> class, stack |-> Head(q.queue)]),
                     !.queue = Tail(@)])

\* Mutated: a class that does not load leaves the rest where it is.
PostFailedLoadOnly(q) == [q EXCEPT !.queue = Tail(@)]

PostFailedLoad(q) == HandleNextInQueue([q EXCEPT !.queue = Tail(@)])

\* Mutated: does not wait for the load that goes on.
EnqueueAtOnce(q, stack) == HandleNextInQueue([q EXCEPT !.queue = Append(@, stack)])

Enqueue(q, stack) ==
    LET longer == [q EXCEPT !.queue = Append(@, stack)]
    IN  IF q.streaming THEN longer ELSE HandleNextInQueue(longer)

Queue == [inMemory |-> inMemory, queue |-> queue, streaming |-> streaming,
          loads |-> loads, pickups |-> pickups]
SetQueue(q) ==
    /\ inMemory' = q.inMemory /\ queue' = q.queue /\ streaming' = q.streaming
    /\ loads' = q.loads /\ pickups' = q.pickups

-----------------------------------------------------------------------------

EjectionInit ==
    /\ stored = [i \in Ejectables |-> MaxStored]
    /\ default \in DefaultClasses /\ hasOwner \in BOOLEAN
    /\ inMemory \in SUBSET (PickupClasses \ Broken)
    /\ queue = <<>> /\ streaming = FALSE /\ loads = <<>> /\ pickups = <<>> /\ ejected = <<>>

\* EjectEntry removes a stack for the reason that the extension listens to and
\* allows; EjectViaRelease releases it and puts it into the queue itself.
Eject(item, copies) ==
    /\ Len(ejected) < MaxEjections
    /\ copies \in 1..stored[item]
    /\ stored' = [stored EXCEPT ![item] = @ - copies]
    /\ LET stack == [item |-> item, copies |-> copies]
       IN  /\ ejected' = Append(ejected, stack)
           /\ SetQueue(Enqueue(Queue, stack))
    /\ UNCHANGED <<default, hasOwner>>

\* PostLoadClassToSpawn.
PostLoad ==
    /\ loads # <<>>
    /\ LET class == Head(loads)
           after == [Queue EXCEPT !.streaming = FALSE, !.loads = Tail(@),
                                  !.inMemory = @ \cup ({class} \ Broken)]
       IN  SetQueue(CASE class \in Broken -> PostFailedLoad(after)
                      [] class \notin Broken /\ queue = <<>> -> after
                      [] class \notin Broken /\ queue # <<>> -> SpawnVisualizer(after, class))
    /\ UNCHANGED <<stored, default, hasOwner, ejected>>

\* The engine frees a class that nothing uses.
Unload(class) ==
    /\ class \in inMemory
    /\ \A k \in DOMAIN pickups : pickups[k].class # class
    /\ inMemory' = inMemory \ {class}
    /\ UNCHANGED <<stored, default, hasOwner, queue, streaming, loads, pickups, ejected>>

EjectionNext ==
    \/ \E item \in Ejectables, copies \in 1..MaxStored : Eject(item, copies)
    \/ PostLoad
    \/ \E class \in PickupClasses : Unload(class)

\* The engine finishes its loads.
EjectionSpec == EjectionInit /\ [][EjectionNext]_ejectionVars /\ WF_ejectionVars(PostLoad)

-----------------------------------------------------------------------------
(* What should hold.                                                        *)

Loads(stack) == ClassToSpawn(stack.item) \notin Broken
StacksOf(given) == [k \in DOMAIN given |-> given[k].stack]

\* The list is the whole, in its order, but for stacks that do not load.
OmitsOnlyBroken(list, whole) ==
    \E at \in [DOMAIN list -> DOMAIN whole] :
        /\ \A j, k \in DOMAIN list : j < k => at[j] < at[k]
        /\ \A k \in DOMAIN list : list[k] = whole[at[k]]
        /\ \A n \in DOMAIN whole : (\A k \in DOMAIN list : at[k] # n) => ~Loads(whole[n])

\* However ejections fall between the loads of classes, the stacks come out in
\* the order they were ejected in, each once and whole, in pickups of their own
\* class; only those whose class does not load are dropped.
PickupsAreEjections ==
    /\ \A k \in DOMAIN pickups : pickups[k].class = ClassToSpawn(pickups[k].stack.item)
    /\ OmitsOnlyBroken(StacksOf(pickups) \o queue, ejected)

\* Whatever waits in the queue comes out of it: it is empty again and again,
\* unless the extension lies in no actor, or a stack comes first that has
\* neither a class of its own nor the default one.  A class that fails to load
\* does not hold up the stacks behind it.
QueueDrains ==
    []<>(queue = <<>> \/ ~hasOwner \/ ClassToSpawn(Head(queue).item) = NoClass)
=============================================================================
