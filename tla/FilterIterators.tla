--------------------------- MODULE FilterIterators ---------------------------
(***************************************************************************)
(* The filters that pick tokens of an item (Faerie::Token::Filter) or the   *)
(* content of a container (Faerie::Container::TFilter): how a chain of      *)
(* calls makes up a filter, and how its iterator goes through the array.    *)
(* Flags are template parameters in the code: each call makes a new filter. *)
(***************************************************************************)
EXTENDS Integers, Sequences, FiniteSets

CONSTANTS
    Lists,      \* what may be walked: [of, elements]; of is "tokens" or "items"
    Predicates, \* those that filters are made with
    IsClass,    \* class -> the classes it is a child of, itself included
    MaxCalls    \* a filter is made with at most so many calls

\* A null token; containers have none.
Invalid == [class |-> "none", mutable |-> FALSE, outer |-> "none", tags |-> {}]

AnyClass == "any"
Classes == DOMAIN IsClass

\* Classes have their parents' parents.
ASSUME FilterIteratorsAssumption ==
    /\ \A l \in Lists :
         /\ l.of \in {"tokens", "items"}
         /\ l.elements \in Seq({l.elements[k] : k \in DOMAIN l.elements})
         /\ \A k \in DOMAIN l.elements :
              /\ l.of = "items" => l.elements[k] # Invalid
              /\ l.elements[k] # Invalid => l.elements[k].class \in Classes /\ l.elements[k].mutable \in BOOLEAN
    /\ AnyClass \notin Classes
    /\ \A c \in Classes : c \in IsClass[c] /\ \A e \in Classes : c \in IsClass[e] => IsClass[c] \subseteq IsClass[e]
    /\ MaxCalls \in Nat

VARIABLES
    list,    \* what is walked
    filter,  \* [class, flags, predicates]
    calls,   \* the calls that made the filter
    cursor,  \* the iterator's index, 0 before there is one
    emitted  \* what the loop over it was given

walkVars == <<list, filter, calls, cursor, emitted>>

-----------------------------------------------------------------------------
(* Predicates look at an element: [class, mutable, outer, tags].  Those of  *)
(* containers know mutability, a tag, a name or a callback's choice; here    *)
(* the latter two are of the shape of a class.                              *)

Passes(p, e) ==
    CASE p.test = "Mutability" -> e.mutable = p.mutable
      [] p.test = "Owned" -> e.outer = p.item
      [] p.test = "Class" -> p.class \in IsClass[e.class]
      [] p.test = "ClassExact" -> e.class = p.class
      [] p.test = "AnyClass" -> p.classes \cap IsClass[e.class] # {}
      [] p.test = "AnyClassExact" -> e.class \in p.classes
      [] p.test = "Tags" -> IF p.all THEN p.tags \subseteq e.tags ELSE p.tags \cap e.tags # {}

TestAll(f, e) == \A k \in DOMAIN f.predicates : Passes(f.predicates[k], e)

-----------------------------------------------------------------------------
(* Making a filter.                                                         *)

Call(name, f) ==
    /\ cursor = 0 /\ Len(calls) < MaxCalls
    /\ filter' = f /\ calls' = Append(calls, name)
    /\ UNCHANGED <<list, cursor, emitted>>

Invert ==
    Call([call |-> "Invert"],
         [filter EXCEPT !.flags = IF "Inverted" \in @ THEN @ \ {"Inverted"} ELSE @ \cup {"Inverted"}])

\* FlagMutableOnly, FlagImmutableOnly: the last of them counts.
Narrowed(flags, only) == (flags \ {"MutableOnly", "ImmutableOnly"}) \cup {only}
ByMutable ==
    Call([call |-> "ByMutable"], [filter EXCEPT !.flags = Narrowed(@, "MutableOnly")])

\* "Not yet supported" by filters of containers: the flag is there, and unread.
ByImmutable ==
    /\ list.of = "tokens"
    /\ Call([call |-> "ByImmutable"],
            [filter EXCEPT !.flags = Narrowed(@, "ImmutableOnly")])

\* A class may only be narrowed.
ByClass(c) ==
    /\ list.of = "tokens" /\ c # filter.class
    /\ filter.class = AnyClass \/ filter.class \in IsClass[c]
    /\ Call([call |-> "ByClass", class |-> c], [filter EXCEPT !.class = c])
By(p) ==
    Call([call |-> "By", predicate |-> p],
         [filter EXCEPT !.predicates = Append(@, p)])

-----------------------------------------------------------------------------
(* Iterating.                                                               *)

End == Len(list.elements) + 1

\* A container's inner iterator stands on mutable items only, if it is told so.
InnerStands(k) ==
    list.of = "items" /\ "MutableOnly" \in filter.flags => list.elements[k].mutable

TestIterator(e) ==
    /\ list.of = "tokens" =>
         /\ e # Invalid
         /\ filter.class # AnyClass => filter.class \in IsClass[e.class]
         /\ "MutableOnly" \in filter.flags => e.mutable
         /\ "ImmutableOnly" \in filter.flags => ~e.mutable
    /\ TestAll(filter, e) # ("Inverted" \in filter.flags)

SkipNothing(k) == k

Stops(k) == k = End \/ (InnerStands(k) /\ TestIterator(list.elements[k]))
SkipInvalid(k) == CHOOSE j \in k..End : Stops(j) /\ \A i \in k..(j - 1) : ~Stops(i)

Iterate ==
    /\ cursor = 0
    /\ cursor' = SkipInvalid(1)
    /\ UNCHANGED <<list, filter, calls, emitted>>

\* The body of the loop gets the element, then the iterator goes on.
Advance ==
    /\ cursor \in 1..Len(list.elements)
    /\ emitted' = Append(emitted, list.elements[cursor])
    /\ cursor' = SkipInvalid(cursor + 1)
    /\ UNCHANGED <<list, filter, calls>>

WalkStart == [class |-> AnyClass, flags |-> {}, predicates |-> <<>>]
WalkInit ==
    /\ list \in Lists /\ filter = WalkStart
    /\ calls = <<>> /\ cursor = 0 /\ emitted = <<>>

WalkNext ==
    \/ Invert
    \/ ByMutable
    \/ ByImmutable
    \/ \E c \in Classes : ByClass(c)
    \/ \E p \in Predicates : By(p)
    \/ Iterate
    \/ Advance
WalkSpec == WalkInit /\ [][WalkNext]_walkVars

-----------------------------------------------------------------------------
(* What should hold.                                                        *)

Made(name) == { k \in DOMAIN calls : calls[k].call = name }
IsLast(k, S) == \A j \in S : j <= k

\* What the calls that made the filter ask of an element: every class and every
\* predicate that was named - or not all predicates, when the filter was
\* inverted an odd number of times - and the mutability that was named last.
Wanted(e) ==
    /\ e # Invalid
    /\ \A k \in Made("ByClass") : calls[k].class \in IsClass[e.class]
    /\ LET narrowed == Made("ByMutable") \cup Made("ByImmutable")
       IN  \A k \in narrowed :
             IsLast(k, narrowed) => e.mutable = (calls[k].call = "ByMutable")
    /\ (\A k \in Made("By") : Passes(calls[k].predicate, e)) = (Cardinality(Made("Invert")) % 2 = 0)

\* However a filter was made, and whatever stands before, between or behind the
\* elements it passes, a loop over it is given exactly the elements that the
\* calls ask for, in order: each comes after those before it.
EmitsWhatWasAsked ==
    cursor # 0 =>
        LET due == { k \in 1..(cursor - 1) : Wanted(list.elements[k]) }
        IN  /\ Len(emitted) = Cardinality(due)
            /\ \A k \in due : emitted[Cardinality(due \cap 1..k)] = list.elements[k]
=============================================================================
