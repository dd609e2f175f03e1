--------------------------- MODULE ItemInstances ---------------------------
(***************************************************************************)
(* UFaerieItem and UFaerieItemToken: instances and duplicates of items,     *)
(* edits of them and of their tokens, the hook through which the container  *)
(* that owns a mutable item hears of these, the registration of tokens for  *)
(* replication, and the comparison of items.                                *)
(***************************************************************************)
EXTENDS Integers, Sequences, FiniteSets

Seqs == INSTANCE SequencesExt

CONSTANTS
  MutableClasses, ImmutableClasses, \* of tokens: what IsMutable says
  HashedClasses, \* those that implement GetTokenHashImpl
  PrimaryClasses, \* those tagged as primary identifiers
  Data,          \* contents of a token, and what these hash to
  NoHash,        \* the hash of a token of any other class
  Designs,       \* what an asset may have: [classes, flags]
  MaxTokens,     \* tokens are made while there are fewer
  MaxItems,      \* items are made while there are fewer
  MaxHeld        \* tokens are added to items that have fewer

Classes == MutableClasses \cup ImmutableClasses
Flags == {"InstanceMutability", "TokenMutability", "AlwaysTokenMutable", "ForbidTokenMutability"}

ASSUME ItemInstancesAssumption ==
  /\ MutableClasses \cap ImmutableClasses = {}
  /\ NoHash \notin Data
  /\ Designs \subseteq [classes : Seq(Classes), flags : SUBSET Flags]
  /\ MaxTokens \in Nat /\ MaxItems \in Nat /\ MaxHeld \in Nat

VARIABLES
  token,      \* the tokens made: [class, data, outer]
  item,       \* the items made: [flags, tokens]; the first is an asset's
  owned,      \* items a container owns: its hook is bound to them
  registered, \* tokens registered with the container's actor
  seen,       \* of owned items: what was there when the container was last told
  halted      \* a check failed

vars == <<token, item, owned, registered, seen, halted>>

Mutability == {"Automatic", "Mutable", "Immutable"}
Transient == 0
IsMutable(t) == token[t].class \in MutableClasses
ToFlags(m) ==
  CASE m = "Mutable" -> {"AlwaysTokenMutable"}
    [] m = "Immutable" -> {"ForbidTokenMutability"}
    [] OTHER -> {}

Holds(it, t) == \E k \in DOMAIN it.tokens : it.tokens[k] = t
IsDataMutable(it) == "TokenMutability" \in it.flags
CanMutate(it) == {"InstanceMutability", "TokenMutability"} \subseteq it.flags
Editable == { i \in DOMAIN item : CanMutate(item[i]) }
Tells(tok) == [class |-> tok.class, data |-> tok.data]
Content(toks, it) == [ k \in DOMAIN it.tokens |-> Tells(toks[it.tokens[k]]) ]

(* Only at an item's creation is it asked whether tokens are mutable.       *)
CacheTokenMutability(toks, it) ==
  LET mutable == /\ "ForbidTokenMutability" \notin it.flags
                 /\ \/ "AlwaysTokenMutable" \in it.flags
                    \/ \E k \in DOMAIN it.tokens : toks[it.tokens[k]].class \in MutableClasses
  IN  [flags  |-> (it.flags \ {"TokenMutability"}) \cup IF mutable THEN {"TokenMutability"} ELSE {},
       tokens |-> it.tokens]

-----------------------------------------------------------------------------
(* Making tokens and items                                                  *)

Init ==
  \E d \in Designs, x \in Data :
    /\ token = [ k \in DOMAIN d.classes |-> [class |-> d.classes[k], data |-> x, outer |-> 1] ]
    /\ item = <<CacheTokenMutability(token, [flags |-> d.flags, tokens |-> [ k \in DOMAIN d.classes |-> k ]])>>
    /\ owned = {} /\ registered = {} /\ halted = FALSE
    /\ seen = <<<<>>>>

NewToken(c, x) ==
  /\ Len(token) < MaxTokens
  /\ token' = Append(token, [class |-> c, data |-> x, outer |-> Transient])
  /\ UNCHANGED <<item, owned, registered, seen, halted>>

(* A mutable token must be the item's own; an immutable one becomes it only *)
(* when it is nobody's.                                                     *)
MayBeAdopted(t, i) == IsMutable(t) => token[t].outer \in {Transient, i}
Renamed(tok, i) == [class |-> tok.class, data |-> tok.data, outer |-> i]
Adopted(toks, ts, i) ==
  [ t \in DOMAIN toks |->
      IF t \in ts /\ (toks[t].class \in MutableClasses \/ toks[t].outer = Transient)
      THEN Renamed(toks[t], i) ELSE toks[t] ]

Create(toks, it) ==
  /\ token' = toks
  /\ item' = Append(item, CacheTokenMutability(toks, it))
  /\ seen' = Append(seen, <<>>)
  /\ UNCHANGED <<owned, registered, halted>>

CreateNewInstance(list, m) ==
  /\ Len(item) < MaxItems
  /\ LET i == Len(item) + 1
         flags == ToFlags(m) \cup {"InstanceMutability"}
     IN  IF \A k \in DOMAIN list : MayBeAdopted(list[k], i)
         THEN Create(Adopted(token, { list[k] : k \in DOMAIN list }, i), [flags |-> flags, tokens |-> list])
         ELSE halted' = TRUE /\ UNCHANGED <<token, item, owned, registered, seen>>

(* A duplicate that holds the mutable tokens of its original.               *)
CreateDuplicateShares(i, m) ==
  Create(token, [flags |-> ToFlags(m) \cup {"InstanceMutability"}, tokens |-> item[i].tokens])
(* A duplicate has copies of the mutable tokens, and the immutable tokens   *)
(* themselves.                                                              *)
CreateDuplicate(i, m) ==
  LET list == item[i].tokens
      own == { k \in DOMAIN list : IsMutable(list[k]) }
      Copied(k) == Len(token) + Cardinality({ j \in own : j <= k })
      Original(t) == list[CHOOSE k \in own : Copied(k) = t]
  IN  Create([ t \in 1..(Len(token) + Cardinality(own)) |->
                 IF t \in DOMAIN token THEN token[t] ELSE Renamed(token[Original(t)], Len(item) + 1) ],
             [flags |-> ToFlags(m) \cup {"InstanceMutability"},
              tokens |-> [ k \in DOMAIN list |-> IF k \in own THEN Copied(k) ELSE list[k] ]])

(* An instance of an item is a duplicate of it, or the item itself.         *)
ShouldCreateDuplicate(i, m) == m = "Mutable" \/ (m = "Automatic" /\ IsDataMutable(item[i]))
CreateInstance(i, m) ==
  /\ Len(item) < MaxItems /\ Len(token) + Len(item[i].tokens) <= MaxTokens
  /\ ShouldCreateDuplicate(i, m)
  /\ CreateDuplicate(i, m)
(* A mutator that can be rolled back works on a duplicate.                  *)
DuplicateForMutation(i) ==
  /\ Len(item) < MaxItems /\ Len(token) + Len(item[i].tokens) <= MaxTokens
  /\ CanMutate(item[i])
  /\ CreateDuplicate(i, "Automatic")

-----------------------------------------------------------------------------
(* What the owner of an item does                                           *)

OwnTokens(i) == { t \in DOMAIN token : Holds(item[i], t) /\ token[t].outer = i }

TakeOwnership(i) ==
  /\ i \in Editable \ owned
  /\ owned' = owned \cup {i}
  /\ registered' = registered \cup OwnTokens(i)
  /\ seen' = [seen EXCEPT ![i] = Content(token, item[i])]
  /\ UNCHANGED <<token, item, halted>>

ReleaseOwnership(i) ==
  /\ i \in owned
  /\ owned' = owned \ {i}
  /\ registered' = registered \ OwnTokens(i)
  /\ seen' = [seen EXCEPT ![i] = <<>>]
  /\ UNCHANGED <<token, item, halted>>

(* OnItemMutated: of what it is told has gone or come, the container        *)
(* unregisters and registers the mutable tokens.                            *)
Registered(regs, gone, come) == (regs \ { t \in gone : IsMutable(t) }) \cup { t \in come : IsMutable(t) }
NotifyOwner(i, toks, it, gone, come) ==
  IF i \in owned
  THEN /\ seen' = [seen EXCEPT ![i] = Content(toks, it)]
       /\ registered' = Registered(registered, gone, come)
  ELSE UNCHANGED <<seen, registered>>

-----------------------------------------------------------------------------
(* Edits of an item that can mutate; the others refuse them                 *)

Become(i, toks, list, gone, come) ==
  LET it == [flags |-> item[i].flags, tokens |-> list]
  IN  /\ token' = toks
      /\ item' = [item EXCEPT ![i] = it]
      /\ NotifyOwner(i, toks, it, gone, come)
      /\ UNCHANGED <<owned, halted>>

Halt == halted' = TRUE /\ UNCHANGED <<token, item, owned, registered, seen>>

AddToken(i, t) ==
  /\ i \in Editable /\ Len(item[i].tokens) < MaxHeld
  /\ IF MayBeAdopted(t, i)
     THEN Become(i, Adopted(token, {t}, i), Append(item[i].tokens, t), {}, {t})
     ELSE Halt

(* Where a token lies in an item's list: it lies there once.                *)
IndexOf(i, t) == CHOOSE k \in DOMAIN item[i].tokens : item[i].tokens[k] = t

RemoveToken(i, t) ==
  /\ i \in Editable
  /\ Holds(item[i], t)
  /\ Become(i, token, Seqs!RemoveAt(item[i].tokens, IndexOf(i, t)), {t}, {})

ReplaceToken(i, old, new) ==
  /\ i \in Editable
  /\ Holds(item[i], old)
  /\ IF MayBeAdopted(new, i)
     THEN Become(i, Adopted(token, {new}, i), [item[i].tokens EXCEPT ![IndexOf(i, old)] = new], {old}, {new})
     ELSE Halt

(* RemoveAllSwap: a token that goes has its place taken by the last one     *)
(* that stays behind it.                                                    *)
RemoveAllSwap(list, goes) ==
  LET stays == DOMAIN list \ goes
      Last(n) == CHOOSE k \in stays : Cardinality({ j \in stays : j >= k }) = n
  IN  [ k \in 1..Cardinality(stays) |->
          IF k \in stays THEN list[k] ELSE list[Last(Cardinality({ j \in goes : j <= k }))] ]
RemoveTokensByClass(i, c) ==
  LET list == item[i].tokens
      goes == { k \in DOMAIN list : token[list[k]].class = c }
  IN  /\ i \in Editable
      /\ goes # {}
      /\ Become(i, token, RemoveAllSwap(list, goes), { list[k] : k \in goes }, {})

(* Edits of a token                                                         *)

(* GetMutableToken gives an item's first of a class and asks only whether   *)
(* its tokens are mutable: not whether the item can mutate, as an asset's   *)
(* own item cannot, which CreateInstance and drivers hand out.  A token may *)
(* also be kept after its removal, or be edited before anything holds it.   *)
(* Its maker does not keep it when it makes an item of it.                  *)
Obtainable(t) ==
  \/ token[t].outer = Transient
  \/ token[t].outer \in Editable /\ ~Holds(item[token[t].outer], t)
  \/ \E i \in DOMAIN item : \E k \in DOMAIN item[i].tokens :
       /\ IsDataMutable(item[i])
       /\ item[i].tokens[k] = t
       /\ \A j \in 1..(k - 1) : token[item[i].tokens[j]].class # token[t].class

(* The outer is told before the change is made.                             *)
NotifyOuterOfChangeEarly(before, after, t) ==
  LET i == token[t].outer IN
  IF CanMutate(item[i]) THEN NotifyOwner(i, before, item[i], {}, {})
  ELSE UNCHANGED <<seen, registered>>
NotifyOuterOfChange(before, after, t) ==
  LET i == token[t].outer IN
  IF CanMutate(item[i]) THEN NotifyOwner(i, after, item[i], {}, {})
  ELSE UNCHANGED <<seen, registered>>
EditToken(t, x) ==
  /\ IsMutable(t) /\ Obtainable(t)
  /\ x # token[t].data
  /\ token' = [token EXCEPT ![t].data = x]
  /\ IF token[t].outer = Transient
     THEN halted' = TRUE /\ UNCHANGED <<seen, registered>>
     ELSE NotifyOuterOfChange(token, token', t) /\ UNCHANGED halted
  /\ UNCHANGED <<item, owned>>

-----------------------------------------------------------------------------
(* Comparison of items                                                      *)

GetTokenHash(t) == IF token[t].class \in HashedClasses THEN token[t].data ELSE NoHash
Mask(it) == [ k \in DOMAIN it.tokens |-> token[it.tokens[k]].class \in PrimaryClasses ]
(* A token that matches ends the search for it, and then the comparison.    *)
CompareTokenMasks(maskA, maskB) ==
  IF Len(maskA) # Len(maskB) \/ \E k \in DOMAIN maskA : maskA[k] THEN "unequal"
  ELSE IF maskB # <<>> THEN "asserts" ELSE "equal"

(* The places of what one item has and the other has not.                   *)
Besides(a, b) == { k \in DOMAIN a.tokens : ~Holds(b, a.tokens[k]) }
HashAt(it, k) == GetTokenHash(it.tokens[k])
(* A hash of b takes nothing from those of a.                               *)
HashesMatchContains(a, b) ==
  \A k \in Besides(b, a) : \E j \in Besides(a, b) : HashAt(a, j) = HashAt(b, k)
(* Each hash of b takes all that equal it from those of a.                  *)
HashesMatch(a, b) ==
  \A k \in Besides(b, a) :
    /\ \E j \in Besides(a, b) : HashAt(a, j) = HashAt(b, k)
    /\ \A j \in Besides(b, a) : j # k => HashAt(b, j) # HashAt(b, k)
CompareWith(i, j, flags) ==
  LET a == item[i]
      b == item[j]
      ByMasks == IF IsDataMutable(a) \/ IsDataMutable(b) THEN "unequal"
                 ELSE CompareTokenMasks(Mask(a), Mask(b))
      ByHashes == IF Len(a.tokens) = Len(b.tokens) /\ HashesMatch(a, b) THEN "equal" ELSE "unequal"
  IN  IF i = j THEN "equal" ELSE IF flags = "Default" THEN ByMasks ELSE ByHashes

-----------------------------------------------------------------------------
Held(t) == \E i \in DOMAIN item : Holds(item[i], t)
Next ==
  /\ ~halted
  /\ \/ \E c \in Classes, x \in Data : NewToken(c, x)
     \/ \E n \in 0..MaxHeld : \E list \in [1..n -> DOMAIN token], m \in Mutability :
          (\A j, k \in 1..n : j < k => list[j] < list[k]) /\ CreateNewInstance(list, m)
     \/ \E i \in DOMAIN item :
          \/ \E m \in Mutability : CreateInstance(i, m)
          \/ DuplicateForMutation(i) \/ TakeOwnership(i) \/ ReleaseOwnership(i)
          \/ \E t \in DOMAIN token : ~Holds(item[i], t) /\ AddToken(i, t)
          \/ \E t \in DOMAIN token : RemoveToken(i, t)
          \/ \E t, u \in DOMAIN token : (u = t \/ ~Holds(item[i], u)) /\ ReplaceToken(i, t, u)
          \/ \E c \in Classes : RemoveTokensByClass(i, c)
     \/ \E t \in DOMAIN token, x \in Data : EditToken(t, x)
Spec == Init /\ [][Next]_vars

-----------------------------------------------------------------------------
(* An item that cannot mutate keeps its flags and its tokens for good, and  *)
(* what these tell is not changed through any duplicate or instance that    *)
(* was made from it, or any token that was elsewhere: only by an edit of a  *)
(* mutable token that no other item holds, got from the item itself, and    *)
(* never if its tokens are not mutable (CreateDuplicate, GetMutableToken).  *)
OnlyOwnEditsChangeImmutables ==
  [][\A i \in DOMAIN item : ~CanMutate(item[i]) =>
       /\ item'[i] = item[i]
       /\ \A t \in DOMAIN token : Holds(item[i], t) /\ Tells(token'[t]) # Tells(token[t]) =>
            /\ IsDataMutable(item[i]) /\ IsMutable(t)
            /\ \A j \in DOMAIN item : Holds(item[j], t) => j = i]_vars

(* Through the hook of TakeOwnership and OnTokenEdited the container hears  *)
(* of every change of what it owns: what it last saw is what there is, even *)
(* if a token was obtained from the item long before, or was replaced.      *)
OwnerSeesEveryChange ==
  \A i \in owned : seen[i] = Content(token, item[i])

(* Of the mutable tokens the actor replicates those in items its container  *)
(* owns, all of them and no others, wherever a token has been since.        *)
ReplicatesOwnedTokens ==
  ~halted => { t \in registered : IsMutable(t) } =
             { t \in DOMAIN token : IsMutable(t) /\ \E i \in owned : Holds(item[i], t) }

(* An owner has, and sends to clients, what its items are now.              *)
OwnersKeepTrack == OwnerSeesEveryChange /\ ReplicatesOwnedTokens

(* The comparison of all tokens is symmetric and finds items equal only if  *)
(* the hashes of their tokens agree, each as often; what the default one    *)
(* finds equal, with which entries are merged, it finds equal too.          *)
HashCount(it, h) == Cardinality({ k \in DOMAIN it.tokens : GetTokenHash(it.tokens[k]) = h })
EqualItemsHaveEqualHashes ==
  \A i, j \in DOMAIN item : i # j =>
    LET same == CompareWith(i, j, "CheckTokensOnly")
    IN  /\ same = CompareWith(j, i, "CheckTokensOnly")
        /\ same = "equal" =>
             \A h \in Data \cup {NoHash} : HashCount(item[i], h) = HashCount(item[j], h)
        /\ CompareWith(i, j, "Default") = "equal" => same = "equal"
=============================================================================
