---------------------------- MODULE SpatialGrid ----------------------------
(***************************************************************************)
(* UInventorySpatialGridExtension on an item storage: which cells of a grid *)
(* each stored stack lies on.  The storage is kept to what the extension    *)
(* sees of it: its addresses, the item (here its shape) of each entry, and  *)
(* the events it posts.  An event is handled one touched address at a time, *)
(* as the loops of PostEventBatch do; nothing else runs in between.         *)
(***************************************************************************)
EXTENDS GridShapes, Sequences

CONSTANTS
  Shapes,      \* the shapes of the items (UFaerieShapeToken::GetShape)
  StartSize,   \* the GridSize the extension is configured with
  GridSizes,   \* the sizes SetGridSize is called with
  MaxEntries,  \* bound: entry keys given out
  MaxStacks    \* bound: stack keys given out

(* The cell of a shape that FindFirstEmptyLocation tries with: the top left *)
(* most one, or for a shape without cells what the search starts from.      *)
MaxInt == 2147483647

FirstPoint ==
  [ shape \in Shapes |->
      IF shape = {}
      THEN <<MaxInt, MaxInt>>
      ELSE CHOOSE p \in shape : \A q \in shape : p[2] < q[2] \/ (p[2] = q[2] /\ p[1] <= q[1]) ]

(* A shape is any array of points: a designer draws it.                     *)
ASSUME ShapesAssumption ==
  \A shape \in Shapes : IsFiniteSet(shape) /\ shape \subseteq Int \X Int

ASSUME SizesAssumption == {StartSize} \cup GridSizes \subseteq Nat \X Nat

ASSUME BoundsAssumption == MaxEntries \in Nat /\ MaxStacks \in Nat

VARIABLES
  items,       \* the shape of the item of each entry key given out
  lastStack,   \* the last stack key given out
  stored,      \* the addresses the storage holds
  attached,    \* InitializedContainer is set
  size,        \* GridSize
  occupied,    \* OccupiedCells: the cells whose bit is set
  content,     \* GridContent: the placement of each address on the grid
  touched,     \* the posted event: its kind and its addresses still to be handled
  request,     \* the MoveItem a MoveToGrid makes after its addition
  skewed       \* history: a step has marked cells its placement does not name

storageVars == <<items, lastStack, stored>>
gridVars == <<occupied, content, skewed>>
vars == <<storageVars, attached, size, gridVars, touched, request>>

Given == (DOMAIN items) \X (1 .. lastStack)   \* the addresses given out
AddressLess(a, b) == a[1] < b[1] \/ (a[1] = b[1] /\ a[2] < b[2])
Shape(address) == items[address[1]]
Placement(origin, rotation) == [origin |-> origin, rotation |-> rotation]

Cells == (0 .. size[1] - 1) \X (0 .. size[2] - 1)
NoRequest == <<>>

(* An event with its last address handled is forgotten.                     *)
Touched(kind, addresses) ==
  [ kind |-> IF addresses = {} THEN "none" ELSE kind, addresses |-> addresses ]

(* ApplyPlacement: the callers disagree on whether the turned shape is      *)
(* normalized before it is moved to the origin of its placement.            *)
Turned == [ t \in Shapes \X Rotations \X BOOLEAN |-> Rotate(t[1], t[2], t[3]) ]

ApplyPlacement(shape, place, normalize, reset) ==
  LET turned == Turned[<<shape, place.rotation, reset>>]
  IN  Translate(IF normalize THEN Normalize(turned) ELSE turned, place.origin)

CellsOf(address) == ApplyPlacement(Shape(address), content[address], FALSE, FALSE)
NormalCellsOf(address) == ApplyPlacement(Shape(address), content[address], TRUE, FALSE)

(* UnmarkCell goes by an index: a cell left or right of the grid stands for *)
(* one of another row.                                                      *)
Wrapped(p) ==
  IF p \in Cells \/ size[1] = 0
  THEN p
  ELSE <<p[1] % size[1], p[2] + p[1] \div size[1]>>

Unmarked(cells) == occupied \ { Wrapped(p) : p \in cells }

(* The turned shape touches both axes.  Rotate moves a shape whose sides    *)
(* differ by two cells or more (OriginOffset), and then the ways the code   *)
(* places it, normalized or not, disagree.                                  *)
OnAxes(shape) ==
  /\ shape \subseteq Nat \X Nat
  /\ \E p \in shape : p[1] = 0
  /\ \E p \in shape : p[2] = 0

Settled(shape, rotation) ==
  LET turned == Turned[<<shape, rotation, FALSE>>]
  IN  turned = {} \/ OnAxes(turned)

TurnsInPlace(shape, rotation) ==
  LET next == GetNextRotation(rotation)
  IN  /\ OnAxes(Turned[<<shape, rotation, FALSE>>])
      /\ OnAxes(Turned[<<shape, next, FALSE>>])
      /\ Turned[<<shape, next, next = 0>>] = Turned[<<shape, next, FALSE>>]

(* Mutated: the cells of the other items are not looked at.                 *)
FitsOnEmptyGrid(shape, excluded) == shape \subseteq Cells

FitsInGrid(shape, excluded) ==
  shape \subseteq Cells /\ shape \cap occupied \subseteq excluded

(* FindFirstEmptyLocation: the placements it accepts, each with the cell    *)
(* and the rotation it was tried at.                                        *)
(* Mutated: the loop over the rotations starts one late.                    *)
RotationRangeFromOne ==
  [ shape \in Shapes |-> IF IsSymmetrical(shape) THEN {0} ELSE 1 .. 3 ]

RotationRange == [ shape \in Shapes |-> IF IsSymmetrical(shape) THEN {0} ELSE Rotations ]

Tried(shape, c) == Placement(Minus(c[1], FirstPoint[shape]), c[2])

Candidates(shape) ==
  { c \in (Cells \ occupied) \X RotationRange[shape] :
      FitsInGrid(ApplyPlacement(shape, Tried(shape, c), FALSE, FALSE), {}) }

Rank(c) == (c[1][2] * size[1] + c[1][1]) * 4 + c[2]

FirstEmptyLocation(shape) ==
  LET all == Candidates(shape)
      first == Min({ Rank(c) : c \in all })
  IN  { Tried(shape, c) : c \in { d \in all :
                                  Rank(d) = first /\ Tried(shape, d).origin # NoneValue } }

CanAddItemToGrid(shape) == FirstEmptyLocation(shape) # {}

(* FitsInGridAnyRotation: the rotations between the tests drop the          *)
(* translation, so the later tests are made near the corner of the grid.    *)
CanAddAtLocation(shape, position) ==
  LET first == Translate(shape, position)
      second == Rotate(first, 1, FALSE)
      third == Rotate(second, 1, FALSE)
      fourth == Rotate(third, 1, FALSE)
  IN  \E s \in {first, second, third, fourth} : FitsInGrid(s, {})

(* GetKeyAt: the elements are searched in the order of their addresses, and *)
(* an element whose origin is the position is taken before its cells are    *)
(* looked at.                                                               *)
KeysAt(position) ==
  { a \in DOMAIN content : content[a].origin = position \/ position \in CellsOf(a) }
LeastAddress(a, addresses) == \A b \in addresses : a = b \/ AddressLess(a, b)
GetKeyAt(position) == { a \in KeysAt(position) : LeastAddress(a, KeysAt(position)) }

Handled == touched.addresses = {}
Idle == Handled /\ request = NoRequest

-----------------------------------------------------------------------------
(* The effects of one address on the grid.                                  *)

AddItemToGrid(address) ==
  IF address \in DOMAIN content \/ FirstEmptyLocation(Shape(address)) = {}
  THEN UNCHANGED gridVars
  ELSE \E place \in FirstEmptyLocation(Shape(address)) :
         /\ content' = [ a \in DOMAIN content \cup {address} |->
                            IF a = address THEN place ELSE content[a] ]
         /\ occupied' = occupied \cup
                          ApplyPlacement(Shape(address), place, FALSE, FALSE)
         /\ UNCHANGED skewed

RemoveItem(address) ==
  IF address \in DOMAIN content
  THEN /\ occupied' = Unmarked(CellsOf(address))
       /\ content' = [ a \in DOMAIN content \ {address} |-> content[a] ]
       /\ UNCHANGED skewed
  ELSE UNCHANGED gridVars

OnAddition(address) == AddItemToGrid(address)

OnRemoval(address) ==
  IF address \in stored THEN UNCHANGED gridVars ELSE RemoveItem(address)

OnEdit(address) ==
  IF address \in stored THEN AddItemToGrid(address) ELSE RemoveItem(address)

(* One iteration of PostEventBatch (and of InitializeExtension, whose loop  *)
(* over the stored addresses adds them).  Within an event the addresses are *)
(* touched in the order of their keys.                                      *)
HandleTouched ==
  \E next \in touched.addresses :
    /\ LeastAddress(next, touched.addresses)
    /\ \/ touched.kind = "added" /\ OnAddition(next)
       \/ touched.kind = "removed" /\ OnRemoval(next)
       \/ touched.kind = "edited" /\ OnEdit(next)
    /\ touched' = Touched(touched.kind, touched.addresses \ {next})
    /\ UNCHANGED <<storageVars, attached, size, request>>

(* PostEvent reaches the extension while it is in the container's group.    *)
Post(kind, addresses) ==
  touched' = Touched(kind, IF attached THEN addresses ELSE {})

-----------------------------------------------------------------------------
(* The storage, and the extension's answers to it.                          *)

(* Each stack is tested alone.  AllowsAddition has a test of a group too    *)
(* (CanAddItemsToGrid, which marks the shapes it lets in untranslated); no  *)
(* storage or slot asks for it.                                             *)
AllowsAddition(shape) == attached => CanAddItemToGrid(shape)
AllowsSplit(shape) == attached => CanAddItemToGrid(shape)

StacksOf(entry) == { a \in stored : a[1] = entry }
NewStacks(entry, n) == { <<entry, s>> : s \in lastStack + 1 .. lastStack + n }

(* AddItemStack: the copies top up a stack of an entry and make new ones,   *)
(* or make an entry.                                                        *)
AddItemStack(shape) ==
  /\ Idle
  /\ \E n \in 0 .. 2 :
       /\ lastStack + n <= MaxStacks
       /\ AllowsAddition(shape)
       /\ lastStack' = lastStack + n
       /\ \/ \E entry \in DOMAIN items :
               /\ items[entry] = shape
               /\ StacksOf(entry) # {}
               /\ \E filled \in SUBSET StacksOf(entry) :
                    /\ Cardinality(filled) \in IF n = 0 THEN {1} ELSE {0, 1}
                    /\ stored' = stored \cup NewStacks(entry, n)
                    /\ Post("added", filled \cup NewStacks(entry, n))
               /\ UNCHANGED items
          \/ /\ n > 0
             /\ Len(items) < MaxEntries
             /\ items' = Append(items, shape)
             /\ stored' = stored \cup NewStacks(Len(items'), n)
             /\ Post("added", NewStacks(Len(items'), n))
  /\ UNCHANGED <<attached, size, gridVars, request>>

(* AddItemStacks: each stack is tested before any of them is on the grid,   *)
(* and their events are posted together.                                    *)
AddItemStacks(shape, other) ==
  /\ Idle
  /\ Len(items) + 2 <= MaxEntries
  /\ lastStack + 2 <= MaxStacks
  /\ AllowsAddition(shape) /\ AllowsAddition(other)
  /\ items' = Append(Append(items, shape), other)
  /\ lastStack' = lastStack + 2
  /\ LET new == { <<Len(items) + i, lastStack + i>> : i \in 1 .. 2 }
     IN  stored' = stored \cup new /\ Post("added", new)
  /\ UNCHANGED <<attached, size, gridVars, request>>

(* RemoveStack, RemoveEntry and Clear: some of the addresses they touch are *)
(* gone, the others have lost copies.                                       *)
RemoveStacks(addresses) ==
  /\ Idle
  /\ addresses # {} /\ addresses \subseteq stored
  /\ (\E entry \in DOMAIN items : addresses \subseteq StacksOf(entry)) \/ addresses = stored
  /\ \E gone \in SUBSET addresses :
       /\ Cardinality(addresses \ gone) <= 1
       /\ stored' = stored \ gone
  /\ Post("removed", addresses)
  /\ UNCHANGED <<items, lastStack, attached, size, gridVars, request>>

SplitStack(address) ==
  /\ Idle
  /\ address \in stored
  /\ lastStack < MaxStacks
  /\ AllowsSplit(Shape(address))
  /\ LET split == <<address[1], lastStack + 1>>
     IN  stored' = stored \cup {split} /\ Post("edited", {address, split})
  /\ lastStack' = lastStack + 1
  /\ UNCHANGED <<items, attached, size, gridVars, request>>

-----------------------------------------------------------------------------
(* The operations of the grid.                                              *)

NewPlacement(address, position) == Placement(position, content[address].rotation)
NewCells(address, position) ==
  ApplyPlacement(Shape(address), NewPlacement(address, position), TRUE, FALSE)

Overlapped(address, position) ==
  { b \in DOMAIN content \ {address} : Overlaps(NewCells(address, position), CellsOf(b)) }

(* TrySwapItems: the overlap test compares the first item's new cells with  *)
(* themselves.                                                              *)
SwapCells(a, b) ==
  ApplyPlacement(Shape(a), Placement(content[b].origin, content[a].rotation), FALSE, FALSE)

SwapRefused(a, b) ==
  \/ Overlaps(SwapCells(a, b), SwapCells(a, b))
  \/ ~FitsInGrid(SwapCells(a, b), NormalCellsOf(b))
  \/ ~FitsInGrid(SwapCells(b, a), NormalCellsOf(a))

TrySwapItems(a, b) ==
  IF SwapRefused(a, b)
  THEN UNCHANGED gridVars
  ELSE /\ occupied' = Unmarked(CellsOf(a) \cup CellsOf(b))
                        \cup SwapCells(a, b) \cup SwapCells(b, a)
       /\ UNCHANGED skewed
       /\ content' = [content EXCEPT ![a] = Placement(content[b].origin, @.rotation),
                                     ![b] = Placement(content[a].origin, @.rotation)]

(* MoveItem.  Onto another stack of its entry it first tries MergeStacks,   *)
(* which refuses every two stacks that exist, and then the swap.  Its       *)
(* handle is taken by key: the address must be on the grid.                 *)
(* Mutated: the new cells are marked before the old ones are unmarked.      *)
MovedMarkingFirst(address, position) ==
  \/ \E b \in Overlapped(address, position) :
       /\ LeastAddress(b, Overlapped(address, position))
       /\ TrySwapItems(address, b)
  \/ /\ Overlapped(address, position) = {}
     /\ FitsInGrid(NewCells(address, position), NormalCellsOf(address))
     /\ occupied' = (occupied \cup NewCells(address, position)) \ NormalCellsOf(address)
     /\ content' = [content EXCEPT ![address] = NewPlacement(address, position)]
     /\ skewed' = (skewed \/ ~Settled(Shape(address), content[address].rotation))
  \/ /\ Overlapped(address, position) = {}
     /\ ~FitsInGrid(NewCells(address, position), NormalCellsOf(address))
     /\ UNCHANGED gridVars

Moved(address, position) ==
  \/ \E b \in Overlapped(address, position) :
       /\ LeastAddress(b, Overlapped(address, position))
       /\ TrySwapItems(address, b)
  \/ /\ Overlapped(address, position) = {}
     /\ FitsInGrid(NewCells(address, position), NormalCellsOf(address))
     /\ occupied' = Unmarked(NormalCellsOf(address)) \cup NewCells(address, position)
     /\ content' = [content EXCEPT ![address] = NewPlacement(address, position)]
     /\ skewed' = (skewed \/ ~Settled(Shape(address), content[address].rotation))
  \/ /\ Overlapped(address, position) = {}
     /\ ~FitsInGrid(NewCells(address, position), NormalCellsOf(address))
     /\ UNCHANGED gridVars

MoveItem(address, position) ==
  /\ Idle
  /\ address \in DOMAIN content
  /\ Moved(address, position)
  /\ UNCHANGED <<storageVars, attached, size, touched, request>>

(* RotateItem: the new cells are not normalized, and the origin follows     *)
(* their bounds when these change.                                          *)
RotateItem(address) ==
  /\ Idle
  /\ address \in DOMAIN content
  /\ RotationRange[Shape(address)] # {0}
  /\ LET rotation == GetNextRotation(content[address].rotation)
         turned == Placement(content[address].origin, rotation)
         new == ApplyPlacement(Shape(address), turned, FALSE, rotation = 0)
         old == NormalCellsOf(address)
         sameBounds == BoundsMin(new) = BoundsMin(old) /\ BoundsMax(new) = BoundsMax(old)
     IN  /\ FitsInGrid(new, old)
         /\ occupied' = Unmarked(old) \cup new
         /\ content' = [content EXCEPT ![address] =
                          Placement(IF sameBounds THEN @.origin ELSE BoundsMin(new), rotation)]
         /\ skewed' = (skewed \/ ~TurnsInPlace(Shape(address), content[address].rotation))
  /\ UNCHANGED <<storageVars, attached, size, touched, request>>

(* FFaerieClientAction_MoveToGrid: the stack is added wherever it fits and  *)
(* then moved to the requested cell.                                        *)
MoveToGrid(shape, position) ==
  /\ Idle
  /\ attached
  /\ position # NoneValue
  /\ Len(items) < MaxEntries /\ lastStack < MaxStacks
  /\ AllowsAddition(shape)
  /\ CanAddAtLocation(shape, position)
  /\ items' = Append(items, shape)
  /\ lastStack' = lastStack + 1
  /\ LET address == <<Len(items) + 1, lastStack + 1>>
     IN  /\ stored' = stored \cup {address}
         /\ Post("added", {address})
         /\ request' = <<address, position>>
  /\ UNCHANGED <<attached, size, gridVars>>

MoveRequested ==
  /\ Handled
  /\ request # NoRequest
  /\ request[1] \in DOMAIN content
  /\ Moved(request[1], request[2])
  /\ request' = NoRequest
  /\ UNCHANGED <<storageVars, attached, size, touched>>

(* FFaerieClientAction_MoveToGrid::Release: the whole stack at a cell.      *)
ReleaseAt(position) ==
  /\ Idle
  /\ attached
  /\ position \in occupied
  /\ \E address \in GetKeyAt(position) \cap stored :
       /\ stored' = stored \ {address}
       /\ Post("removed", {address})
  /\ UNCHANGED <<items, lastStack, attached, size, gridVars, request>>

(* FCellGrid::Resize keeps the bits of the cells that are still there: a    *)
(* smaller grid forgets those of the items it cuts.                         *)
Resized(cells, newSize) == cells \cap ((0 .. newSize[1] - 1) \X (0 .. newSize[2] - 1))

SetGridSize(newSize) ==
  /\ Idle
  /\ size # newSize
  /\ size' = newSize
  /\ occupied' = Resized(occupied, newSize)
  /\ skewed' = (skewed \/ Resized(occupied, newSize) # occupied)
  /\ UNCHANGED <<storageVars, attached, content, touched, request>>

InitializeExtension ==
  /\ Idle
  /\ ~attached
  /\ attached' = TRUE
  /\ occupied' = {}
  /\ touched' = Touched("added", stored)
  /\ UNCHANGED <<storageVars, size, content, request, skewed>>

DeinitializeExtension ==
  /\ Idle
  /\ attached
  /\ attached' = FALSE
  /\ occupied' = {}
  /\ content' = << >>
  /\ skewed' = FALSE
  /\ UNCHANGED <<storageVars, size, touched, request>>

-----------------------------------------------------------------------------
Init ==
  /\ items = << >> /\ lastStack = 0 /\ stored = {}
  /\ attached = TRUE
  /\ size = StartSize
  /\ occupied = {} /\ content = << >>
  /\ touched = Touched("none", {}) /\ request = NoRequest
  /\ skewed = FALSE

Next ==
  \/ HandleTouched
  \/ \E shape \in Shapes : AddItemStack(shape)
  \/ \E shape, other \in Shapes : AddItemStacks(shape, other)
  \/ \E addresses \in SUBSET stored : RemoveStacks(addresses)
  \/ \E address \in stored : SplitStack(address)
  \/ \E address \in DOMAIN content, position \in Cells : MoveItem(address, position)
  \/ \E address \in DOMAIN content : RotateItem(address)
  \/ \E shape \in Shapes, position \in Cells : MoveToGrid(shape, position)
  \/ MoveRequested
  \/ \E position \in Cells : ReleaseAt(position)
  \/ \E newSize \in GridSizes : SetGridSize(newSize)
  \/ InitializeExtension
  \/ DeinitializeExtension

Spec == Init /\ [][Next]_vars

-----------------------------------------------------------------------------
(* The fields hold what their types allow: placements of addresses the      *)
(* storage has given out, on cells of the grid's own size.                  *)
GridTypeOK ==
  /\ items \in Seq(Shapes) /\ Len(items) <= MaxEntries
  /\ lastStack \in 0 .. MaxStacks
  /\ stored \subseteq Given
  /\ attached \in BOOLEAN
  /\ size \in {StartSize} \cup GridSizes
  /\ occupied \subseteq Cells
  /\ skewed \in BOOLEAN
  /\ DOMAIN content \subseteq Given
  /\ \A a \in DOMAIN content :
       content[a].origin \in Int \X Int /\ content[a].rotation \in Rotations
  /\ touched.addresses \subseteq Given
  /\ request = NoRequest \/ request \in (Given) \X Cells

(* The cell map and the placements tell the same story: a cell is marked    *)
(* exactly when some item on the grid lies on it (MarkShapeCells and        *)
(* UnmarkShapeCells of every operation undo each other).  They cease to do  *)
(* so only when an item that Rotate displaces is moved while turned, or is  *)
(* turned, or when the grid is made smaller over an item; whatever is added *)
(* or removed, of any shape and at any rotation, they do not.               *)
CellsMatchPlacements ==
  ~skewed => occupied = UNION { CellsOf(a) : a \in DOMAIN content }

(* No two items on the grid share a cell before one of those steps, whatever *)
(* was moved, rotated or added (FitsInGrid and the exclusion sets).         *)
ItemsDoNotOverlap ==
  ~skewed =>
    \A a, b \in DOMAIN content : a # b => ~Overlaps(CellsOf(a), CellsOf(b))

(* An address whose stack has left the storage leaves the grid with the     *)
(* event that says so (PostEventBatch and RemoveItemBatch).                 *)
OnlyStoredOnGrid ==
  \A a \in DOMAIN content :
    \/ a \in stored
    \/ touched.kind # "added" /\ a \in touched.addresses

(* The move that ends a MoveToGrid finds its stack on the grid: GetHandle   *)
(* indexes the array with the result of a search that must not fail.        *)
RequestedIsOnGrid ==
  Handled /\ request # NoRequest => request[1] \in DOMAIN content

(* AllowsAddition refuses a shape only when it fits nowhere unturned ("No   *)
(* valid placement found", FindFirstEmptyLocation).  The shape has its      *)
(* corner at zero: another one may fit with the origin that stands for none. *)
RefusesOnlyWhatFitsNowhere ==
  \A shape \in Shapes :
    OnAxes(shape) /\ (\E p \in Cells : FitsInGrid(Translate(shape, p), {})) => CanAddItemToGrid(shape)

(* The two ways the code turns a shape, through a bit matrix and about a    *)
(* pivot, give the same cells up to their place (RotateInline and           *)
(* RotateAroundInline_90, _180, _270); a view's turns undo a shape's; and   *)
(* IsSymmetrical, of shapes and views, tells those that no turn changes.    *)
TurnsAgreeOn ==
  [ shape \in Shapes |->
      LET center == GetShapeCenter(shape)
          turned == [ r \in Rotations |-> Normalize(Turned[<<shape, r, TRUE>>]) ]
      IN  /\ turned[1] = Normalize(RotateAround_90(shape, center))
          /\ turned[2] = Normalize(RotateAround_180(shape, center))
          /\ turned[3] = Normalize(RotateAround_270(shape, center))
          /\ \A r \in Rotations : Normalize(ViewRotate(turned[r], r)) = turned[0]
          /\ IsSymmetrical(shape) <=> \A r \in Rotations : turned[r] = shape
          /\ ViewIsSymmetrical(shape) <=> IsSymmetrical(shape) ]

TurnsAgree == \A a \in DOMAIN content : TurnsAgreeOn[Shape(a)]

(* Releasing the stack at a cell takes an item that lies on this cell       *)
(* (FFaerieClientAction_MoveToGrid::Release through GetKeyAt).              *)
ReleaseTakesWhatLiesThere ==
  [][\A p \in Cells : ReleaseAt(p) => \A a \in stored \ stored' : p \in CellsOf(a)]_vars
=============================================================================
