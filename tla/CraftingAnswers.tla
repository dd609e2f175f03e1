--------------------------- MODULE CraftingAnswers ---------------------------
(***************************************************************************)
(* What the crafting runner promises those who submit requests: a request   *)
(* is answered at most once, and its answer stands.  A running request may  *)
(* be displaced by another one that got the same handle.                    *)
(***************************************************************************)
CONSTANTS Requests, Results

VARIABLE state  \* of each request; that of an answered one is the answers it got

New == <<"New">>
Running == <<"Running">>
Displaced == <<"Displaced">>

Init == state = [r \in Requests |-> New]

Waiting == {r \in Requests : state[r] \in {Running, Displaced}}

\* An action may be answered before its submission returns.
Submit(r) ==
    /\ state[r] = New
    /\ \E now \in {Running} \cup {<<a>> : a \in Results}, displaced \in SUBSET Waiting :
          state' = [q \in Requests |->
                      CASE q = r -> now [] q \in displaced -> Displaced [] OTHER -> state[q]]

\* The action before it in CancelAllActions is removed in the same step.
Answer(r) ==
    /\ r \in Waiting
    /\ \E a \in Results, displaced \in SUBSET (Waiting \ {r}) :
          state' = [q \in Requests |->
                      CASE q = r -> <<a>> [] q \in displaced -> Displaced [] OTHER -> state[q]]

Displace(r) ==
    /\ r \in Waiting
    /\ state' = [state EXCEPT ![r] = Displaced]

Next == \E r \in Requests : Submit(r) \/ Answer(r) \/ Displace(r)

Spec == Init /\ [][Next]_state
=============================================================================
