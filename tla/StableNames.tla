---------------------------- MODULE StableNames ----------------------------
(* What the keys and addresses of a container promise those who hold on to  *)
(* them (a handle, a proxy, an extension's data, a message on its way):     *)
(* a name stands for one thing as long as the thing is there, and for       *)
(* nothing ever after.  A name is spent once it can no longer be given to   *)
(* anything new.                                                            *)
CONSTANT Containers

VARIABLES
    bound,  \* of each container, the things that its names stand for
    spent   \* of each container, the names that are spent

Init ==
    /\ bound = [c \in Containers |-> <<>>]
    /\ spent = [c \in Containers |-> {}]

\* What may happen in container c in one step, whatever happens in the others.
NamesStayPut(c) ==
    /\ spent[c] \subseteq spent'[c]
    /\ DOMAIN bound'[c] \subseteq spent'[c]
    /\ \A n \in DOMAIN bound'[c] :
          IF n \in DOMAIN bound[c] THEN bound'[c][n] = bound[c][n]
          ELSE n \notin spent[c]

Next == \A c \in Containers : NamesStayPut(c)

Spec == Init /\ [][Next]_<<bound, spent>>
=============================================================================
