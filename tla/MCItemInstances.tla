-------------------------- MODULE MCItemInstances --------------------------
(* ItemInstances with a name, which is immutable, hashed and a primary      *)
(* identifier, and uses, which are mutable and have no hash.  And items     *)
(* with containers, put into each other, which is checked on its own: one   *)
(* of the two goes on while the other is at its start.                      *)
EXTENDS ItemInstances, NestedContainers, TLC

CONSTANTS info, uses, d1, d2
CONSTANTS pack, shelf, hero, house, coffer, bag, rifle, lens

Symmetry == Permutations(Data)
\* The second has more tokens to begin with, so that fewer are made.
TheDesigns == { [classes |-> <<info, uses>>, flags |-> {}],
                [classes |-> <<info, info, uses>>, flags |-> {"ForbidTokenMutability"}] }

\* A pack and a shelf in two actors; a rifle's slot takes a lens only.
ActorOfRoot == [r \in Roots |-> IF r = pack THEN hero ELSE house]
LensFits == [s \in Sockets |-> {lens}]
ASSUME TemplatesDescend(0..1)

\* Of one design: the other adds nothing to what lies where.
ItemsAtStart ==
  /\ Init /\ "ForbidTokenMutability" \notin item[1].flags
  /\ UNCHANGED vars
NestAtStart == NestInit /\ ~renames /\ UNCHANGED nestVars

MCInit == Init /\ NestInit
MCNext ==
  \/ NestAtStart /\ Next
  \/ ItemsAtStart /\ NestNext
MCSpec == MCInit /\ [][MCNext]_<<vars, nestVars>>
=============================================================================
