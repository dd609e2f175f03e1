------------------------- MODULE SpatialGrid_proofs -------------------------
(***************************************************************************)
(* Proofs about the spatial grid, for every set of shapes and of sizes: as  *)
(* long as no step has skewed it, the cell map tells the placements and no  *)
(* two items share a cell; only stored stacks stay, a requested move finds  *)
(* its stack, and what fits somewhere unturned is not refused.  Nothing     *)
(* skews a grid that only grows and whose items turn in place.              *)
(***************************************************************************)
EXTENDS SpatialGrid, FiniteSetTheorems, WellFoundedInduction, TLAPS

Points == Int \X Int

(* The least number of a set that has one.                                  *)
LEMMA MinIs ==
  ASSUME NEW S, S \subseteq Int, NEW m \in S, \A n \in S : m <= n
  PROVE  Min(S) = m
<1>1. \A k \in S : (\A n \in S : k <= n) => k = m
  OBVIOUS
<1> QED
  BY <1>1 DEF Min

(* Naturals that are some have a least one.                                 *)
LEMMA LeastNatural ==
  ASSUME NEW S \in SUBSET Nat, NEW n \in S
  PROVE  \E m \in S : \A k \in S : m <= k
<1> DEFINE less == {p \in Nat \X Nat : p[1] < p[2]}
<1>1. PICK m \in S : \A k \in S : <<k, m>> \notin less
  BY NatLessThanWellFounded, WFMin DEF OpToRel
<1>2. \A k \in S : <<k, m>> \in Nat \X Nat
  OBVIOUS
<1>3. \A k \in S : ~ k < m
  BY <1>1, <1>2
<1> QED
  BY <1>3

(* The corner of cells of the grid is a point.                              *)
LEMMA CornerIsPoint ==
  ASSUME NEW cells, cells \subseteq Nat \X Nat
  PROVE  BoundsMin(cells) \in Points
<1>1. CASE cells = {}
  BY <1>1 DEF BoundsMin, Points
<1>2. CASE cells # {}
  <2>1. Xs(cells) \in SUBSET Nat /\ Ys(cells) \in SUBSET Nat
    BY DEF Xs, Ys
  <2>2. \E x \in Xs(cells) : TRUE
    BY <1>2 DEF Xs
  <2>3. \E y \in Ys(cells) : TRUE
    BY <1>2 DEF Ys
  <2>4. \A S \in SUBSET Nat : (\E n \in S : TRUE) => Min(S) \in Nat
    <3> SUFFICES ASSUME NEW S \in SUBSET Nat, NEW n \in S PROVE Min(S) \in Nat
      OBVIOUS
    <3>1. PICK m \in S : \A k \in S : m <= k
      BY LeastNatural
    <3>2. S \subseteq Int /\ \A k \in S : m <= k
      BY <3>1
    <3>3. Min(S) = m
      BY <3>2, MinIs
    <3> QED
      BY <3>3
  <2> QED
    BY <1>2, <2>1, <2>2, <2>3, <2>4 DEF BoundsMin, Points
<1> QED
  BY <1>1, <1>2

(* Every finite set of points that are some has a top left most one.        *)
Before(p, q) == p[2] < q[2] \/ (p[2] = q[2] /\ p[1] <= q[1])

LEMMA FirstOfFinite ==
  ASSUME NEW shape, IsFiniteSet(shape), shape \subseteq Points, shape # {}
  PROVE  \E p \in shape : \A q \in shape : Before(p, q)
<1> DEFINE bad == { U \in SUBSET shape : U # {} /\ ~ \E p \in U : \A q \in U : Before(p, q) }
<1>1. bad \subseteq FiniteSubsetsOf(shape)
  BY FS_Subset DEF FiniteSubsetsOf
<1>2. SUFFICES ASSUME bad # {} PROVE FALSE
  <2>1. shape \notin bad => \E p \in shape : \A q \in shape : Before(p, q)
    OBVIOUS
  <2> QED
    BY <1>2, <2>1
<1>3. IsWellFoundedOn(StrictSubsetOrdering(shape), FiniteSubsetsOf(shape))
  BY FS_StrictSubsetOrderingWellFounded
<1>4. PICK U \in bad : \A V \in bad : <<V, U>> \notin StrictSubsetOrdering(shape)
  BY <1>1, <1>2, <1>3, WFMin
<1>5. PICK x \in U : TRUE
  OBVIOUS
<1>6. U \ {x} \notin bad
  <2>1. (U \ {x}) \subseteq U /\ U \ {x} # U
    OBVIOUS
  <2> QED
    BY <1>4, <2>1 DEF StrictSubsetOrdering
<1>7. /\ \A p \in Points : Before(p, p)
      /\ \A p, q \in Points : Before(p, q) \/ Before(q, p)
      /\ \A p, q, t \in Points : (Before(p, q) /\ Before(q, t)) => Before(p, t)
  BY DEF Before, Points
<1>8. /\ U \subseteq Points /\ x \in Points
      /\ ~ \E p \in U : \A q \in U : Before(p, q)
  BY <1>5
<1>9. CASE U = {x}
  BY <1>7, <1>8, <1>9
<1>10. CASE U # {x}
  <2>1. U \ {x} \in SUBSET shape /\ U \ {x} # {}
    BY <1>10
  <2>2. PICK p \in U \ {x} : \A q \in U \ {x} : Before(p, q)
    BY <1>6, <2>1
  <2>3. p \in U /\ p \in Points
    BY <1>8
  <2> HIDE DEF bad
  <2>4. CASE Before(p, x)
    <3>1. \A q \in U : Before(p, q)
      BY <2>2, <2>4
    <3> QED
      BY <1>8, <2>3, <3>1
  <2>5. CASE Before(x, p)
    <3>1. \A q \in U : Before(x, q)
      <4> SUFFICES ASSUME NEW q \in U PROVE Before(x, q)
        OBVIOUS
      <4>1. CASE q = x
        BY <1>7, <1>8, <4>1
      <4>2. CASE q # x
        BY <1>7, <1>8, <2>2, <2>3, <2>5, <4>2
      <4> QED
        BY <4>1, <4>2
    <3> QED
      BY <1>5, <1>8, <3>1
  <2> QED
    BY <1>7, <1>8, <2>3, <2>4, <2>5
<1> QED
  BY <1>9, <1>10

(* The cell that a shape is tried with.                                     *)
LEMMA FirstPointIs ==
  ASSUME NEW shape \in Shapes
  PROVE  /\ FirstPoint[shape] \in Points
         /\ shape # {} => /\ FirstPoint[shape] \in shape
                          /\ \A q \in shape : Before(FirstPoint[shape], q)
<1>1. CASE shape = {}
  BY <1>1 DEF FirstPoint, MaxInt, Points
<1>2. CASE shape # {}
  <2>1. \E p \in shape : \A q \in shape : p[2] < q[2] \/ (p[2] = q[2] /\ p[1] <= q[1])
    BY <1>2, ShapesAssumption, FirstOfFinite DEF Before, Points
  <2>2. FirstPoint[shape] = CHOOSE p \in shape :
                              \A q \in shape : p[2] < q[2] \/ (p[2] = q[2] /\ p[1] <= q[1])
    BY <1>2 DEF FirstPoint
  <2>3. FirstPoint[shape] \in shape /\ \A q \in shape : Before(FirstPoint[shape], q)
    BY <2>1, <2>2 DEF Before
  <2>4. shape \subseteq Points
    BY ShapesAssumption DEF Points
  <2> QED
    BY <2>3, <2>4
<1> QED
  BY <1>1, <1>2

-----------------------------------------------------------------------------
(* Shapes.                                                                  *)

(* The corner of a shape on its axes moves with the shape.                  *)
LEMMA CornerMoves ==
  ASSUME NEW shape, OnAxes(shape), NEW origin \in Points
  PROVE  BoundsMin(Translate(shape, origin)) = origin
<1> DEFINE moved == Translate(shape, origin)
<1>1. PICK p \in shape : p[1] = 0
  BY DEF OnAxes
<1>2. PICK q \in shape : q[2] = 0
  BY DEF OnAxes
<1>3. \A t \in shape : t \in Nat \X Nat /\ Plus(t, origin) = <<t[1] + origin[1], t[2] + origin[2]>>
  BY DEF OnAxes, Plus
<1>4. \A t \in moved : \E u \in shape : t = <<u[1] + origin[1], u[2] + origin[2]>>
  BY <1>3 DEF Translate
<1>5. Plus(p, origin) \in moved /\ Plus(q, origin) \in moved
  BY DEF Translate
<1>6. origin[1] \in Xs(moved) /\ origin[2] \in Ys(moved)
  BY <1>1, <1>2, <1>3, <1>5 DEF Xs, Ys, Points
<1>7. \A n \in Xs(moved) : n \in Int /\ origin[1] <= n
  BY <1>3, <1>4 DEF Xs, Points
<1>8. \A n \in Ys(moved) : n \in Int /\ origin[2] <= n
  BY <1>3, <1>4 DEF Ys, Points
<1>9. Min(Xs(moved)) = origin[1]
  BY <1>6, <1>7, MinIs
<1>10. Min(Ys(moved)) = origin[2]
  BY <1>6, <1>8, MinIs
<1>11. moved # {}
  BY <1>5
<1> QED
  BY <1>9, <1>10, <1>11 DEF BoundsMin, Points

(* A shape on its axes is normalized.                                       *)
LEMMA OnAxesNormalized ==
  ASSUME NEW shape, OnAxes(shape)
  PROVE  Normalize(shape) = shape
<1>1. \A p \in shape : Plus(p, <<0, 0>>) = p
  BY DEF OnAxes, Plus
<1>2. Translate(shape, <<0, 0>>) = shape
  BY <1>1 DEF Translate
<1>3. BoundsMin(shape) = <<0, 0>>
  BY <1>2, CornerMoves DEF Points
<1>4. Minus(<<0, 0>>, BoundsMin(shape)) = <<0, 0>>
  BY <1>3 DEF Minus
<1> QED
  BY <1>2, <1>4 DEF Normalize

(* The cells of a placement, each way they are computed.                    *)
LEMMA PlacedCells ==
  ASSUME NEW shape \in Shapes, NEW place \in [origin : Points, rotation : Rotations],
         NEW reset \in BOOLEAN
  PROVE  LET turned == Turned[<<shape, place.rotation, reset>>]
         IN  /\ ApplyPlacement(shape, place, FALSE, reset) = Translate(turned, place.origin)
             /\ ApplyPlacement(shape, place, TRUE, reset) = Translate(Normalize(turned), place.origin)
BY DEF ApplyPlacement

(* Normalizing a settled shape changes nothing.                             *)
LEMMA SettledAgrees ==
  ASSUME NEW shape \in Shapes, NEW place \in [origin : Points, rotation : Rotations],
         Settled(shape, place.rotation)
  PROVE  ApplyPlacement(shape, place, TRUE, FALSE) = ApplyPlacement(shape, place, FALSE, FALSE)
<1> DEFINE turned == Turned[<<shape, place.rotation, FALSE>>]
<1>1. Normalize(turned) = turned
  <2>1. CASE turned = {}
    BY <2>1 DEF Normalize, Translate
  <2>2. CASE OnAxes(turned)
    BY <2>2, OnAxesNormalized
  <2> QED
    BY <2>1, <2>2 DEF Settled
<1> HIDE DEF turned
<1> QED
  BY <1>1, PlacedCells DEF turned

-----------------------------------------------------------------------------
(* The grid: its items, its cells, and what one step may do to them.        *)

IsPlacement(place) == place \in [origin : Points, rotation : Rotations]

Placed ==
  /\ DOMAIN content \subseteq Given
  /\ \A a \in DOMAIN content : IsPlacement(content[a])

CellsTell ==
  /\ \A p \in occupied : \E a \in DOMAIN content : p \in CellsOf(a)
  /\ \A a \in DOMAIN content : CellsOf(a) \subseteq occupied

Disjoint ==
  \A a, b \in DOMAIN content : a # b => CellsOf(a) \cap CellsOf(b) = {}

Grid ==
  /\ Placed
  /\ occupied \subseteq Cells
  /\ skewed \in BOOLEAN
  /\ ~skewed => CellsTell /\ Disjoint

TypeInv ==
  /\ items \in Seq(Shapes)
  /\ lastStack \in Nat
  /\ size \in {StartSize} \cup GridSizes
  /\ attached \in BOOLEAN
  /\ stored \subseteq Given
  /\ touched.addresses \subseteq Given
  /\ touched = [kind |-> touched.kind, addresses |-> touched.addresses]
  /\ request = NoRequest \/ request \in Given \X Cells

(* The addresses an addition touches are stored until they are handled.     *)
AddedAreStored == touched.kind = "added" => touched.addresses \subseteq stored

(* A move waits only for the addition of its stack, which has a place.      *)
RequestWaits ==
  request # NoRequest =>
    \/ Handled /\ request[1] \in DOMAIN content
    \/ /\ touched = Touched("added", {request[1]})
       /\ CanAddItemToGrid(Shape(request[1]))

(* Without the extension in the container's group nothing is on the grid    *)
(* and nothing is posted to it.                                             *)
EmptyWhenDetached == ~attached => DOMAIN content = {} /\ occupied = {} /\ Handled

GridInv ==
  /\ TypeInv /\ Grid
  /\ AddedAreStored /\ OnlyStoredOnGrid
  /\ RequestWaits /\ EmptyWhenDetached

(* The cells of an address follow its item and its placement alone.         *)
LEMMA SameCells ==
  ASSUME NEW a, Shape(a)' = Shape(a), content'[a] = content[a]
  PROVE  CellsOf(a)' = CellsOf(a)
BY DEF CellsOf, ApplyPlacement, Turned

(* The item of an address is a shape.                                       *)
LEMMA ShapeOfGiven ==
  ASSUME TypeInv, NEW a \in Given
  PROVE  Shape(a) \in Shapes
BY DEF TypeInv, Given, Shape

(* Cells of the grid are unmarked as they are.                              *)
LEMMA UnmarkedCells ==
  ASSUME NEW cells, cells \subseteq Cells
  PROVE  Unmarked(cells) = occupied \ cells
<1>1. \A p \in cells : Wrapped(p) = p
  BY DEF Wrapped
<1> QED
  BY <1>1 DEF Unmarked

(* A place found for a shape is a placement on free cells of the grid.      *)
LEMMA FoundPlace ==
  ASSUME TypeInv, NEW shape \in Shapes, NEW place \in FirstEmptyLocation(shape)
  PROVE  /\ IsPlacement(place)
         /\ ApplyPlacement(shape, place, FALSE, FALSE) \subseteq Cells \ occupied
<1>1. PICK c \in Candidates(shape) : place = Tried(shape, c)
  BY DEF FirstEmptyLocation
<1>2. PICK p \in Cells \ occupied, r \in RotationRange[shape] :
        /\ place = Placement(Minus(p, FirstPoint[shape]), r)
        /\ FitsInGrid(ApplyPlacement(shape, place, FALSE, FALSE), {})
  <2>1. /\ c \in (Cells \ occupied) \X RotationRange[shape]
        /\ FitsInGrid(ApplyPlacement(shape, Tried(shape, c), FALSE, FALSE), {})
    BY DEF Candidates
  <2>2. c[1] \in Cells \ occupied /\ c[2] \in RotationRange[shape]
    BY <2>1
  <2> QED
    BY <1>1, <2>1, <2>2 DEF Tried
<1>3. size \in Nat \X Nat
  BY SizesAssumption DEF TypeInv
<1>4. p \in Points
  BY <1>3 DEF Cells, Points
<1>6. Minus(p, FirstPoint[shape]) \in Points
  BY <1>4, FirstPointIs DEF Minus, Points
<1>7. r \in Rotations
  BY DEF RotationRange, Rotations
<1> QED
  BY <1>2, <1>6, <1>7 DEF IsPlacement, Placement, FitsInGrid

(* Adding an item, where there is place for one, keeps the grid.            *)
LEMMA AddKeepsGrid ==
  ASSUME TypeInv, Grid, NEW address \in Given, AddItemToGrid(address),
         UNCHANGED <<items, lastStack, size>>
  PROVE  /\ Grid'
         /\ DOMAIN content' \in {DOMAIN content, DOMAIN content \cup {address}}
         /\ CanAddItemToGrid(Shape(address)) => address \in DOMAIN content'
<1>1. CASE UNCHANGED gridVars /\ (address \in DOMAIN content \/ ~CanAddItemToGrid(Shape(address)))
  <2>1. \A a : CellsOf(a)' = CellsOf(a)
    BY <1>1 DEF gridVars, CellsOf, ApplyPlacement, Shape, Turned
  <2> QED
    BY <1>1, <2>1 DEF gridVars, Grid, Placed, CellsTell, Disjoint, Given, Cells
<1>2. CASE /\ address \notin DOMAIN content
           /\ \E place \in FirstEmptyLocation(Shape(address)) :
                /\ content' = [ a \in DOMAIN content \cup {address} |->
                                   IF a = address THEN place ELSE content[a] ]
                /\ occupied' = occupied \cup ApplyPlacement(Shape(address), place, FALSE, FALSE)
                /\ skewed' = skewed
  <2>1. PICK place \in FirstEmptyLocation(Shape(address)) :
          /\ content' = [ a \in DOMAIN content \cup {address} |->
                             IF a = address THEN place ELSE content[a] ]
          /\ occupied' = occupied \cup ApplyPlacement(Shape(address), place, FALSE, FALSE)
          /\ skewed' = skewed
    BY <1>2
  <2> DEFINE new == ApplyPlacement(Shape(address), place, FALSE, FALSE)
  <2>2. IsPlacement(place) /\ new \subseteq Cells /\ new \cap occupied = {}
    BY ShapeOfGiven, FoundPlace
  <2>3. \A a \in DOMAIN content : CellsOf(a)' = CellsOf(a)
    <3> SUFFICES ASSUME NEW a \in DOMAIN content PROVE CellsOf(a)' = CellsOf(a)
      OBVIOUS
    <3>1. content'[a] = content[a] /\ Shape(a)' = Shape(a)
      BY <1>2, <2>1 DEF Shape
    <3> QED
      BY <3>1, SameCells
  <2>4. CellsOf(address)' = new
    BY <2>1 DEF CellsOf, ApplyPlacement, Shape, Turned
  <2>5. DOMAIN content' = DOMAIN content \cup {address}
    BY <2>1
  <2>6. Placed'
    BY <2>1, <2>2, <2>5 DEF Placed, Grid, Given
  <2>7. (occupied \subseteq Cells)'
    BY <2>1, <2>2 DEF Grid, Cells
  <2>8. ASSUME ~skewed PROVE CellsTell'
    <3> USE <2>8
    <3>1. occupied' = occupied \cup new
      BY <2>1
    <3> HIDE DEF new
    <3>2. \A p \in occupied' : \E a \in DOMAIN content' : p \in CellsOf(a)'
      BY <2>3, <2>4, <2>5, <3>1 DEF CellsTell, Grid
    <3>3. \A a \in DOMAIN content' : CellsOf(a)' \subseteq occupied'
      BY <2>3, <2>4, <2>5, <3>1 DEF CellsTell, Grid
    <3> QED
      BY <3>2, <3>3 DEF CellsTell
  <2>9. ASSUME ~skewed PROVE Disjoint'
    <3> USE <2>9
    <3>1. \A a \in DOMAIN content : CellsOf(a) \cap new = {}
      BY <2>2 DEF CellsTell, Grid
    <3> HIDE DEF new
    <3>2. \A a, b \in DOMAIN content' : a # b => CellsOf(a)' \cap CellsOf(b)' = {}
      BY <1>2, <2>3, <2>4, <2>5, <3>1 DEF Grid, Disjoint
    <3> QED
      BY <3>2 DEF Disjoint
  <2> QED
    BY <2>1, <2>5, <2>6, <2>7, <2>8, <2>9 DEF Grid
<1> QED
  BY <1>1, <1>2 DEF AddItemToGrid, CanAddItemToGrid

(* Removing an item keeps the grid of the others.                           *)
LEMMA RemoveKeepsGrid ==
  ASSUME TypeInv, Grid, NEW address, RemoveItem(address),
         UNCHANGED <<items, lastStack, size>>
  PROVE  /\ Grid'
         /\ DOMAIN content' = DOMAIN content \ {address}
<1>1. CASE address \notin DOMAIN content
  <2>1. UNCHANGED gridVars
    BY <1>1 DEF RemoveItem
  <2>2. \A a : CellsOf(a)' = CellsOf(a)
    BY <2>1 DEF gridVars, CellsOf, ApplyPlacement, Shape, Turned
  <2> QED
    BY <1>1, <2>1, <2>2 DEF gridVars, Grid, Placed, CellsTell, Disjoint, Given, Cells
<1>2. CASE address \in DOMAIN content
  <2>1. /\ occupied' = Unmarked(CellsOf(address))
        /\ content' = [ a \in DOMAIN content \ {address} |-> content[a] ]
        /\ skewed' = skewed
    BY <1>2 DEF RemoveItem
  <2>2. DOMAIN content' = DOMAIN content \ {address}
    BY <2>1
  <2>3. \A a \in DOMAIN content' : CellsOf(a)' = CellsOf(a)
    <3> SUFFICES ASSUME NEW a \in DOMAIN content' PROVE CellsOf(a)' = CellsOf(a)
      OBVIOUS
    <3>1. content'[a] = content[a] /\ Shape(a)' = Shape(a)
      BY <2>1, <2>2 DEF Shape
    <3> QED
      BY <3>1, SameCells
  <2>4. Placed'
    BY <2>1, <2>2 DEF Placed, Grid, Given
  <2>5. (occupied \subseteq Cells)'
    BY <2>1 DEF Grid, Cells, Unmarked
  <2>6. ASSUME ~skewed PROVE CellsTell'
    <3>1. CellsOf(address) \subseteq Cells
      BY <1>2, <2>6 DEF CellsTell, Grid
    <3>2. occupied' = occupied \ CellsOf(address)
      BY <2>1, <3>1, UnmarkedCells
    <3> QED
      BY <1>2, <2>2, <2>3, <2>6, <3>2 DEF CellsTell, Grid, Disjoint
  <2>7. ASSUME ~skewed PROVE Disjoint'
    BY <2>2, <2>3, <2>7 DEF Disjoint, Grid
  <2> QED
    BY <2>1, <2>2, <2>4, <2>5, <2>6, <2>7 DEF Grid
<1> QED
  BY <1>1, <1>2

(* Giving an item of the grid a new placement, on cells that were free or   *)
(* its own, keeps a grid that is not skewed.                                *)
LEMMA ReplaceKeepsGrid ==
  ASSUME TypeInv, Grid, NEW address \in DOMAIN content, NEW place, IsPlacement(place),
         NEW new, new = ApplyPlacement(Shape(address), place, FALSE, FALSE),
         FitsInGrid(new, CellsOf(address)),
         ~skewed, skewed' \in BOOLEAN,
         occupied' = Unmarked(CellsOf(address)) \cup new,
         content' = [content EXCEPT ![address] = place],
         UNCHANGED <<items, lastStack, size>>
  PROVE  Grid' /\ DOMAIN content' = DOMAIN content
<1>1. /\ DOMAIN content' = DOMAIN content
      /\ content'[address] = place
      /\ \A a \in DOMAIN content : a # address => content'[a] = content[a]
  OBVIOUS
<1>2. \A a \in DOMAIN content : a # address => CellsOf(a)' = CellsOf(a)
  <2> SUFFICES ASSUME NEW a \in DOMAIN content, a # address PROVE CellsOf(a)' = CellsOf(a)
    OBVIOUS
  <2>1. content'[a] = content[a] /\ Shape(a)' = Shape(a)
    BY <1>1 DEF Shape
  <2> QED
    BY <2>1, SameCells
<1>3. CellsOf(address)' = new
  BY <1>1 DEF CellsOf, ApplyPlacement, Shape, Turned
<1>4. /\ new \subseteq Cells /\ \A p \in new : p \in CellsOf(address) \/ p \notin occupied
      /\ occupied' = (occupied \ CellsOf(address)) \cup new
  <2>1. CellsOf(address) \subseteq Cells
    BY DEF Grid, CellsTell
  <2> QED
    BY <2>1, UnmarkedCells DEF FitsInGrid
<1>5. Placed'
  BY <1>1 DEF Placed, Grid, Given
<1>6. (occupied \subseteq Cells)'
  BY <1>4 DEF Grid, Cells
<1>7. \A a \in DOMAIN content : a # address => CellsOf(a) \cap CellsOf(address) = {}
  BY DEF Grid, Disjoint
<1>8. CellsTell'
  <2>1. \A p \in occupied : \E a \in DOMAIN content : p \in CellsOf(a)
    BY DEF Grid, CellsTell
  <2>2. \A a \in DOMAIN content : CellsOf(a) \subseteq occupied
    BY DEF Grid, CellsTell
  <2>3. \A p \in occupied' : \E a \in DOMAIN content : p \in CellsOf(a)'
    BY <1>2, <1>3, <1>4, <2>1
  <2>4. \A a \in DOMAIN content : CellsOf(a)' \subseteq occupied'
    BY <1>2, <1>3, <1>4, <1>7, <2>2
  <2> QED
    BY <1>1, <2>3, <2>4 DEF CellsTell
<1>9. \A a \in DOMAIN content : a # address => CellsOf(a) \cap new = {}
  BY <1>4, <1>7 DEF CellsTell, Grid
<1>10. Disjoint'
  <2>1. Disjoint
    BY DEF Grid
  <2>2. \A a, b \in DOMAIN content : a # b => CellsOf(a)' \cap CellsOf(b)' = {}
    <3> SUFFICES ASSUME NEW a \in DOMAIN content, NEW b \in DOMAIN content, a # b
                 PROVE  CellsOf(a)' \cap CellsOf(b)' = {}
      OBVIOUS
    <3>1. CASE a = address
      BY <1>2, <1>3, <1>9, <3>1
    <3>2. CASE b = address
      BY <1>2, <1>3, <1>9, <3>2
    <3>3. CASE a # address /\ b # address
      BY <1>2, <2>1, <3>3 DEF Disjoint
    <3> QED
      BY <3>1, <3>2, <3>3
  <2> QED
    BY <1>1, <2>2 DEF Disjoint
<1> QED
  BY <1>1, <1>5, <1>6, <1>8, <1>10 DEF Grid

(* A step that leaves the grid and the items it refers to alone keeps it.   *)
LEMMA UntouchedGrid ==
  ASSUME TypeInv, Grid, UNCHANGED <<content, occupied, skewed, size>>,
         Given \subseteq Given', \A a \in Given : Shape(a)' = Shape(a)
  PROVE  Grid'
<1>1. \A a \in DOMAIN content : CellsOf(a)' = CellsOf(a)
  <2> SUFFICES ASSUME NEW a \in DOMAIN content PROVE CellsOf(a)' = CellsOf(a)
    OBVIOUS
  <2>1. Shape(a)' = Shape(a) /\ content'[a] = content[a]
    BY DEF Grid, Placed
  <2> QED
    BY <2>1, SameCells
<1>2. Placed'
  BY DEF Grid, Placed
<1>3. ~skewed => CellsTell' /\ Disjoint'
  BY <1>1 DEF Grid, CellsTell, Disjoint
<1> QED
  BY <1>2, <1>3 DEF Grid, Cells

(* An item given the next key leaves the others theirs.                     *)
LEMMA AppendKeeps ==
  ASSUME NEW s \in Seq(Shapes), NEW shape \in Shapes
  PROVE  /\ Append(s, shape) \in Seq(Shapes)
         /\ Len(Append(s, shape)) = Len(s) + 1
         /\ \A i \in 1 .. Len(s) : Append(s, shape)[i] = s[i]
         /\ Append(s, shape)[Len(s) + 1] = shape
OBVIOUS

(* A product grows with its factors.                                        *)
LEMMA ProductGrows ==
  ASSUME NEW A, NEW B, NEW C, NEW D, A \subseteq C, B \subseteq D
  PROVE  A \X B \subseteq C \X D
OBVIOUS

(* Keys given out stay given out, and so do the items of their entries.     *)
LEMMA GivenGrows ==
  ASSUME TypeInv, lastStack' \in Nat, lastStack <= lastStack',
         \/ items' = items
         \/ \E shape \in Shapes : items' = Append(items, shape)
         \/ \E shape, other \in Shapes : items' = Append(Append(items, shape), other)
  PROVE  /\ items' \in Seq(Shapes) /\ Len(items) <= Len(items')
         /\ Given \subseteq Given'
         /\ \A a \in Given : Shape(a)' = Shape(a)
<1>0. items \in Seq(Shapes) /\ Len(items) \in Nat
  BY DEF TypeInv
<1>1. /\ items' \in Seq(Shapes) /\ Len(items) <= Len(items')
      /\ \A i \in 1 .. Len(items) : items'[i] = items[i]
  <2>1. CASE items' = items
    BY <1>0, <2>1
  <2>2. CASE \E shape \in Shapes : items' = Append(items, shape)
    BY <1>0, <2>2, AppendKeeps
  <2>3. CASE \E shape, other \in Shapes : items' = Append(Append(items, shape), other)
    <3>1. PICK shape \in Shapes, other \in Shapes : items' = Append(Append(items, shape), other)
      BY <2>3
    <3> DEFINE half == Append(items, shape)
    <3>2. /\ half \in Seq(Shapes) /\ Len(half) = Len(items) + 1
          /\ \A i \in 1 .. Len(items) : half[i] = items[i]
      BY <1>0, AppendKeeps
    <3> HIDE DEF half
    <3>3. /\ Append(half, other) \in Seq(Shapes) /\ Len(Append(half, other)) = Len(half) + 1
          /\ \A i \in 1 .. Len(half) : Append(half, other)[i] = half[i]
      BY <3>2, AppendKeeps
    <3>4. items' = Append(half, other)
      BY <3>1 DEF half
    <3> QED
      BY <1>0, <3>2, <3>3, <3>4
  <2> QED
    BY <2>1, <2>2, <2>3
<1>2. DOMAIN items = 1 .. Len(items) /\ DOMAIN items' = 1 .. Len(items')
  BY <1>0, <1>1
<1>3. Len(items') \in Nat
  BY <1>1
<1>4. Given \subseteq Given'
  <2>1. DOMAIN items \subseteq DOMAIN items'
    <3>1. 1 .. Len(items) \subseteq 1 .. Len(items')
      BY <1>0, <1>1, <1>3
    <3> QED
      BY <1>2, <3>1
  <2>2. (1 .. lastStack) \subseteq (1 .. lastStack')
    BY DEF TypeInv
  <2>3. (DOMAIN items) \X (1 .. lastStack) \subseteq (DOMAIN items') \X (1 .. lastStack')
    BY <2>1, <2>2, ProductGrows
  <2> QED
    BY <2>3 DEF Given
<1>5. \A a \in Given : Shape(a)' = Shape(a)
  BY <1>1, <1>2 DEF Given, Shape
<1> QED
  BY <1>1, <1>4, <1>5

(* Whether a shape has a place depends on the cells and the size alone.     *)
LEMMA SamePlaces ==
  ASSUME NEW shape, UNCHANGED <<occupied, size>>
  PROVE  CanAddItemToGrid(shape)' = CanAddItemToGrid(shape)
BY DEF CanAddItemToGrid, FirstEmptyLocation, Candidates, Tried, Rank, FitsInGrid,
       ApplyPlacement, Turned, Cells

(* The swap with an overlapped item is always refused.                      *)
LEMMA SwapsAreRefused ==
  ASSUME TypeInv, Grid, NEW a \in DOMAIN content, NEW position, NEW b \in Overlapped(a, position)
  PROVE  SwapRefused(a, b)
<1> DEFINE turned == Turned[<<Shape(a), content[a].rotation, FALSE>>]
<1>1. NewCells(a, position) # {}
  BY DEF Overlapped, Overlaps
<1>2. NewCells(a, position) = Translate(Normalize(turned), position)
  BY DEF NewCells, NewPlacement, Placement, ApplyPlacement
<1>3. turned # {}
  BY <1>1, <1>2 DEF Normalize, Translate
<1>4. SwapCells(a, b) = Translate(turned, content[b].origin)
  BY DEF SwapCells, Placement, ApplyPlacement
<1>5. SwapCells(a, b) # {}
  BY <1>3, <1>4 DEF Translate
<1> QED
  BY <1>5 DEF SwapRefused, Overlaps

(* A new placement on cells of the grid keeps a grid that is skewed, or is  *)
(* from now on.                                                             *)
LEMMA SkewedGridKept ==
  ASSUME TypeInv, Grid, NEW address \in DOMAIN content, NEW place, IsPlacement(place),
         NEW old, NEW new, new \subseteq Cells, skewed', skewed' \in BOOLEAN,
         occupied' = Unmarked(old) \cup new,
         content' = [content EXCEPT ![address] = place],
         UNCHANGED <<items, lastStack, size>>
  PROVE  Grid' /\ DOMAIN content' = DOMAIN content
<1>1. Placed' /\ DOMAIN content' = DOMAIN content
  BY DEF Placed, Grid, Given
<1>2. (occupied \subseteq Cells)'
  BY DEF Grid, Cells, Unmarked
<1> QED
  BY <1>1, <1>2 DEF Grid

(* Moving an item keeps the grid and the items on it.                       *)
LEMMA MoveKeepsGrid ==
  ASSUME TypeInv, Grid, NEW address \in DOMAIN content, NEW position \in Cells,
         Moved(address, position), UNCHANGED <<items, lastStack, size>>
  PROVE  Grid' /\ DOMAIN content' = DOMAIN content
<1>1. CASE UNCHANGED gridVars
  <2>1. Grid'
    BY <1>1, UntouchedGrid DEF gridVars, Given, Shape
  <2> QED
    BY <1>1, <2>1 DEF gridVars
<1>2. CASE \E b \in Overlapped(address, position) : TrySwapItems(address, b)
  <2>1. PICK b \in Overlapped(address, position) : TrySwapItems(address, b)
    BY <1>2
  <2>2. UNCHANGED gridVars
    BY <2>1, SwapsAreRefused DEF TrySwapItems
  <2> QED
    BY <1>1, <2>2
<1>3. CASE /\ FitsInGrid(NewCells(address, position), NormalCellsOf(address))
           /\ occupied' = Unmarked(NormalCellsOf(address)) \cup NewCells(address, position)
           /\ content' = [content EXCEPT ![address] = NewPlacement(address, position)]
           /\ skewed' = (skewed \/ ~Settled(Shape(address), content[address].rotation))
  <2> DEFINE place == NewPlacement(address, position)
             new == NewCells(address, position)
             old == NormalCellsOf(address)
  <2>1. position \in Points
    BY SizesAssumption DEF TypeInv, Cells, Points
  <2>2. IsPlacement(place) /\ place.rotation = content[address].rotation
    BY <2>1 DEF IsPlacement, NewPlacement, Placement, Grid, Placed
  <2>3. IsPlacement(content[address]) /\ Shape(address) \in Shapes
    BY ShapeOfGiven DEF Grid, Placed
  <2>4. skewed \in BOOLEAN /\ skewed' \in BOOLEAN
    BY <1>3 DEF Grid
  <2>5. CASE skewed'
    <3>1. new \subseteq Cells
      BY <1>3 DEF FitsInGrid
    <3> HIDE DEF place, new, old
    <3> QED
      BY <1>3, <2>2, <2>4, <2>5, <3>1, SkewedGridKept DEF place, new, old
  <2>6. CASE ~skewed'
    <3>1. ~skewed /\ Settled(Shape(address), content[address].rotation)
      BY <1>3, <2>4, <2>6
    <3>2. new = ApplyPlacement(Shape(address), place, FALSE, FALSE)
      BY <2>2, <2>3, <3>1, SettledAgrees DEF NewCells, IsPlacement
    <3>3. old = CellsOf(address)
      BY <2>3, <3>1, SettledAgrees DEF NormalCellsOf, CellsOf, IsPlacement
    <3> HIDE DEF place, new, old
    <3> QED
      BY <1>3, <2>2, <2>4, <3>1, <3>2, <3>3, ReplaceKeepsGrid DEF place, new, old
  <2> QED
    BY <2>4, <2>5, <2>6
<1> QED
  BY <1>1, <1>2, <1>3 DEF Moved

(* Turning an item keeps the grid and the items on it.                      *)
LEMMA RotateKeepsGrid ==
  ASSUME TypeInv, Grid, NEW address, RotateItem(address)
  PROVE  Grid' /\ DOMAIN content' = DOMAIN content
<1> DEFINE rotation == GetNextRotation(content[address].rotation)
           turned == Placement(content[address].origin, rotation)
           new == ApplyPlacement(Shape(address), turned, FALSE, rotation = 0)
           old == NormalCellsOf(address)
           sameBounds == BoundsMin(new) = BoundsMin(old) /\ BoundsMax(new) = BoundsMax(old)
           place == Placement(IF sameBounds THEN content[address].origin ELSE BoundsMin(new),
                              rotation)
<1>1. /\ address \in DOMAIN content
      /\ FitsInGrid(new, old)
      /\ occupied' = Unmarked(old) \cup new
      /\ content' = [content EXCEPT ![address] = place]
      /\ skewed' = (skewed \/ ~TurnsInPlace(Shape(address), content[address].rotation))
      /\ UNCHANGED <<items, lastStack, size>>
  BY DEF RotateItem, storageVars
<1>2. content[address].origin \in Points /\ content[address].rotation \in 0 .. 3
  BY <1>1 DEF Grid, Placed, IsPlacement, Rotations
<1>3. rotation \in Rotations
  BY <1>2 DEF GetNextRotation, Rotations
<1>4. IsPlacement(turned) /\ IsPlacement(content[address])
  BY <1>1, <1>2, <1>3 DEF IsPlacement, Placement, Grid, Placed
<1>5. Shape(address) \in Shapes
  BY <1>1, ShapeOfGiven DEF Grid, Placed
<1>6. turned.rotation = rotation /\ turned.origin = content[address].origin
  BY DEF Placement
<1>7. new \subseteq Cells /\ BoundsMin(new) \in Points
  <2>1. new \subseteq Cells
    BY <1>1 DEF FitsInGrid
  <2>2. Cells \subseteq Nat \X Nat
    BY SizesAssumption DEF TypeInv, Cells
  <2> HIDE DEF new
  <2> QED
    BY <2>1, <2>2, CornerIsPoint
<1>8. IsPlacement(place)
  BY <1>2, <1>3, <1>7 DEF IsPlacement, Placement
<1>9. skewed \in BOOLEAN /\ skewed' \in BOOLEAN
  BY <1>1 DEF Grid
<1>10. CASE skewed'
  <2> HIDE DEF place, new, old
  <2> QED
    BY <1>1, <1>7, <1>8, <1>9, <1>10, SkewedGridKept
<1>11. CASE ~skewed'
  <2>1. ~skewed /\ TurnsInPlace(Shape(address), content[address].rotation)
    BY <1>1, <1>9, <1>11
  <2>2. /\ OnAxes(Turned[<<Shape(address), content[address].rotation, FALSE>>])
        /\ OnAxes(Turned[<<Shape(address), rotation, FALSE>>])
        /\ Turned[<<Shape(address), rotation, rotation = 0>>]
             = Turned[<<Shape(address), rotation, FALSE>>]
    BY <2>1 DEF TurnsInPlace
  <2>3. old = CellsOf(address)
    BY <1>4, <1>5, <2>2, SettledAgrees DEF NormalCellsOf, CellsOf, IsPlacement, Settled
  <2> HIDE DEF rotation
  <2>4. new = Translate(Turned[<<Shape(address), rotation, FALSE>>], content[address].origin)
    BY <1>6, <2>2 DEF ApplyPlacement
  <2>5. BoundsMin(new) = content[address].origin
    BY <1>2, <2>2, <2>4, CornerMoves
  <2>6. place = turned
    BY <2>5
  <2>7. new = ApplyPlacement(Shape(address), place, FALSE, FALSE)
    BY <1>6, <2>4, <2>6 DEF ApplyPlacement
  <2> HIDE DEF place, new, old
  <2> QED
    BY <1>1, <1>8, <1>9, <2>1, <2>3, <2>7, ReplaceKeepsGrid
<1> QED
  BY <1>9, <1>10, <1>11

-----------------------------------------------------------------------------
(* The invariant, one action at a time.                                     *)

(* An empty grid is a grid.                                                 *)
LEMMA EmptyGrid ==
  ASSUME occupied = {}, DOMAIN content = {}, skewed \in BOOLEAN
  PROVE  Grid
BY DEF Grid, Placed, CellsTell, Disjoint

(* What an event is made of.                                                *)
LEMMA TouchedIs ==
  ASSUME NEW kind, NEW addresses
  PROVE  /\ Touched(kind, addresses).addresses = addresses
         /\ addresses # {} => Touched(kind, addresses).kind = kind
         /\ addresses = {} => Touched(kind, addresses).kind = "none"
         /\ Touched(kind, addresses) = [kind |-> Touched(kind, addresses).kind,
                                        addresses |-> Touched(kind, addresses).addresses]
BY DEF Touched

(* The initial grid is empty.                                               *)
LEMMA GridInit == Init => GridInv
<1> SUFFICES ASSUME Init PROVE GridInv
  OBVIOUS
<1>1. touched.addresses = {} /\ touched.kind = "none"
      /\ touched = [kind |-> touched.kind, addresses |-> touched.addresses]
  BY TouchedIs DEF Init
<1>2. DOMAIN content = {} /\ occupied = {} /\ skewed = FALSE
  BY DEF Init
<1>3. items = << >> /\ items \in Seq(Shapes)
  BY DEF Init
<1>4. TypeInv
  BY <1>1, <1>3 DEF Init, TypeInv
<1>5. Grid
  BY <1>2, EmptyGrid
<1>6. AddedAreStored /\ OnlyStoredOnGrid /\ RequestWaits /\ EmptyWhenDetached
  BY <1>1, <1>2 DEF Init, AddedAreStored, OnlyStoredOnGrid, RequestWaits, EmptyWhenDetached
<1> QED
  BY <1>4, <1>5, <1>6 DEF GridInv

(* The storage changes: new keys may be given out, and the addresses of the *)
(* event that says so are posted, the ones that are gone among them.        *)
LEMMA StorageStep ==
  ASSUME GridInv, Handled, request = NoRequest,
         items' \in Seq(Shapes), lastStack' \in Nat,
         Given \subseteq Given', \A a \in Given : Shape(a)' = Shape(a),
         UNCHANGED <<attached, size, occupied, content, skewed>>,
         stored' \subseteq Given',
         NEW kind \in {"added", "removed", "edited"}, NEW addresses,
         addresses \subseteq Given',
         Post(kind, addresses),
         kind = "added" => addresses \subseteq stored',
         stored \ stored' \subseteq addresses,
         kind = "added" => stored \subseteq stored'
  PROVE  /\ (Grid /\ AddedAreStored /\ OnlyStoredOnGrid /\ EmptyWhenDetached)'
         /\ request' = NoRequest \/ request' \in Given' \X Cells' => TypeInv'
         /\ request' = NoRequest => GridInv'
<1> USE DEF GridInv
<1> DEFINE posted == IF attached THEN addresses ELSE {}
<1>1. /\ touched'.addresses = posted
      /\ posted # {} => touched'.kind = kind
      /\ posted = {} => touched'.kind = "none"
      /\ touched' = [kind |-> touched'.kind, addresses |-> touched'.addresses]
  BY TouchedIs DEF Post
<1>2. posted \subseteq Given'
  OBVIOUS
<1>3. Grid'
  BY UntouchedGrid
<1>4. AddedAreStored'
  BY <1>1 DEF AddedAreStored
<1>5. OnlyStoredOnGrid'
  <2> SUFFICES ASSUME NEW a \in DOMAIN content, a \notin stored'
               PROVE  touched'.kind # "added" /\ a \in touched'.addresses
    BY DEF OnlyStoredOnGrid
  <2>1. attached
    BY DEF EmptyWhenDetached
  <2>2. a \in stored
    BY DEF OnlyStoredOnGrid, Handled
  <2> QED
    BY <1>1, <2>1, <2>2
<1>6. EmptyWhenDetached'
  BY <1>1 DEF EmptyWhenDetached, Handled
<1>7. ASSUME request' = NoRequest \/ request' \in Given' \X Cells'
      PROVE  TypeInv'
  BY <1>1, <1>2, <1>7 DEF TypeInv
<1>8. ASSUME request' = NoRequest PROVE GridInv'
  <2>1. RequestWaits'
    BY <1>8 DEF RequestWaits, NoRequest
  <2> QED
    BY <1>3, <1>4, <1>5, <1>6, <1>7, <1>8, <2>1
<1> QED
  BY <1>3, <1>4, <1>5, <1>6, <1>7, <1>8

(* Nothing the storage may do between two events breaks the grid.           *)
LEMMA AddItemStackKeeps ==
  ASSUME GridInv, NEW shape \in Shapes, AddItemStack(shape)
  PROVE  GridInv'
<1>1. PICK n \in 0 .. 2 :
        /\ lastStack' = lastStack + n
        /\ \/ \E entry \in DOMAIN items :
                \E filled \in SUBSET StacksOf(entry) :
                  /\ stored' = stored \cup NewStacks(entry, n)
                  /\ Post("added", filled \cup NewStacks(entry, n))
                  /\ UNCHANGED items
           \/ /\ items' = Append(items, shape)
              /\ stored' = stored \cup NewStacks(Len(items'), n)
              /\ Post("added", NewStacks(Len(items'), n))
  BY DEF AddItemStack
<1>2. lastStack' \in Nat /\ lastStack <= lastStack'
  BY <1>1 DEF GridInv, TypeInv
<1>3. items' = items \/ items' = Append(items, shape)
  BY <1>1
<1>4. /\ items' \in Seq(Shapes) /\ Len(items) <= Len(items')
      /\ Given \subseteq Given' /\ \A a \in Given : Shape(a)' = Shape(a)
  BY <1>2, <1>3, GivenGrows DEF GridInv
<1>5. \A entry \in DOMAIN items' : NewStacks(entry, n) \subseteq Given'
  BY <1>1, <1>2 DEF NewStacks, Given, GridInv, TypeInv
<1>6. Handled /\ request = NoRequest /\ request' = NoRequest
      /\ UNCHANGED <<attached, size, occupied, content, skewed>>
  BY DEF AddItemStack, Idle, gridVars
<1>7. CASE \E entry \in DOMAIN items : \E filled \in SUBSET StacksOf(entry) :
             /\ stored' = stored \cup NewStacks(entry, n)
             /\ Post("added", filled \cup NewStacks(entry, n))
             /\ UNCHANGED items
  <2>0. PICK entry \in DOMAIN items : \E filled \in SUBSET StacksOf(entry) :
             /\ stored' = stored \cup NewStacks(entry, n)
             /\ Post("added", filled \cup NewStacks(entry, n))
             /\ UNCHANGED items
    BY <1>7
  <2>1. PICK filled \in SUBSET StacksOf(entry) :
             /\ stored' = stored \cup NewStacks(entry, n)
             /\ Post("added", filled \cup NewStacks(entry, n))
             /\ UNCHANGED items
    BY <2>0
  <2>2. filled \subseteq stored /\ NewStacks(entry, n) \subseteq Given' /\ stored \subseteq Given
    BY <1>5, <2>1 DEF StacksOf, GridInv, TypeInv
  <2>3. /\ stored' \subseteq Given'
        /\ filled \cup NewStacks(entry, n) \subseteq stored'
        /\ stored \subseteq stored'
    BY <1>4, <2>1, <2>2
  <2> QED
    BY <1>2, <1>4, <1>6, <2>1, <2>3, StorageStep
<1>8. CASE /\ items' = Append(items, shape)
           /\ stored' = stored \cup NewStacks(Len(items'), n)
           /\ Post("added", NewStacks(Len(items'), n))
  <2>1. Len(items') \in DOMAIN items'
    BY <1>8, AppendKeeps DEF GridInv, TypeInv
  <2>2. NewStacks(Len(items'), n) \subseteq Given' /\ stored \subseteq Given
    BY <1>5, <2>1 DEF GridInv, TypeInv
  <2>3. /\ stored' \subseteq Given'
        /\ NewStacks(Len(items'), n) \subseteq stored'
        /\ stored \subseteq stored'
    BY <1>4, <1>8, <2>2
  <2> QED
    BY <1>2, <1>4, <1>6, <1>8, <2>3, StorageStep
<1> QED
  BY <1>1, <1>7, <1>8

(* AddItemStacks keeps the invariant.                                       *)
LEMMA AddItemStacksKeeps ==
  ASSUME GridInv, NEW shape \in Shapes, NEW other \in Shapes, AddItemStacks(shape, other)
  PROVE  GridInv'
<1> DEFINE new == { <<Len(items) + i, lastStack + i>> : i \in 1 .. 2 }
<1>1. /\ lastStack' = lastStack + 2
      /\ items' = Append(Append(items, shape), other)
      /\ stored' = stored \cup new /\ Post("added", new)
  BY DEF AddItemStacks
<1>2. lastStack \in Nat /\ lastStack' \in Nat /\ lastStack <= lastStack'
  BY <1>1 DEF GridInv, TypeInv
<1>3. /\ items' \in Seq(Shapes) /\ Len(items) <= Len(items')
      /\ Given \subseteq Given' /\ \A a \in Given : Shape(a)' = Shape(a)
  BY <1>1, <1>2, GivenGrows DEF GridInv
<1>4. Handled /\ request = NoRequest /\ request' = NoRequest
      /\ UNCHANGED <<attached, size, occupied, content, skewed>>
  BY DEF AddItemStacks, Idle, gridVars
<1>5. DOMAIN items' = 1 .. Len(items) + 2 /\ Len(items) \in Nat
  BY <1>1, AppendKeeps DEF GridInv, TypeInv
<1>6. new \subseteq Given'
  BY <1>1, <1>2, <1>5 DEF Given
<1> HIDE DEF new
<1>7. stored' \subseteq Given' /\ new \subseteq stored' /\ stored \subseteq stored'
  BY <1>1, <1>3, <1>6 DEF GridInv, TypeInv
<1> QED
  BY <1>1, <1>2, <1>3, <1>4, <1>6, <1>7, StorageStep

(* A step in which stored stacks leave and their removal is posted.         *)
LEMMA RemovalKeeps ==
  ASSUME GridInv, Idle, NEW gone, NEW addresses,
         gone \subseteq addresses, addresses \subseteq stored,
         stored' = stored \ gone, Post("removed", addresses),
         UNCHANGED <<items, lastStack, attached, size, occupied, content, skewed, request>>
  PROVE  GridInv'
<1>1. Given' = Given /\ \A a \in Given : Shape(a)' = Shape(a)
  BY DEF Given, Shape
<1>2. Handled /\ request = NoRequest /\ request' = NoRequest
  BY DEF Idle
<1>3. items' \in Seq(Shapes) /\ lastStack' \in Nat
  BY DEF GridInv, TypeInv
<1>4. stored' \subseteq Given' /\ addresses \subseteq Given' /\ stored \ stored' \subseteq addresses
  BY <1>1 DEF GridInv, TypeInv
<1> QED
  BY <1>1, <1>2, <1>3, <1>4, StorageStep

(* RemoveStacks keeps the invariant.                                        *)
LEMMA RemoveStacksKeeps ==
  ASSUME GridInv, NEW addresses, RemoveStacks(addresses)
  PROVE  GridInv'
<1>1. PICK gone \in SUBSET addresses : stored' = stored \ gone
  BY DEF RemoveStacks
<1> QED
  BY <1>1, RemovalKeeps DEF RemoveStacks, gridVars

(* ReleaseAt keeps the invariant.                                           *)
LEMMA ReleaseAtKeeps ==
  ASSUME GridInv, NEW position, ReleaseAt(position)
  PROVE  GridInv'
<1>1. PICK address \in stored : /\ stored' = stored \ {address}
                                /\ Post("removed", {address})
  BY DEF ReleaseAt
<1> QED
  BY <1>1, RemovalKeeps DEF ReleaseAt, gridVars

(* SplitStack keeps the invariant.                                          *)
LEMMA SplitStackKeeps ==
  ASSUME GridInv, NEW address \in stored, SplitStack(address)
  PROVE  GridInv'
<1> DEFINE split == <<address[1], lastStack + 1>>
<1>1. /\ stored' = stored \cup {split} /\ Post("edited", {address, split})
      /\ lastStack' = lastStack + 1
      /\ UNCHANGED <<items, attached, size, occupied, content, skewed, request>>
  BY DEF SplitStack, gridVars
<1>2. lastStack \in Nat /\ lastStack' \in Nat /\ lastStack <= lastStack'
  BY <1>1 DEF GridInv, TypeInv
<1>3. /\ items' \in Seq(Shapes)
      /\ Given \subseteq Given' /\ \A a \in Given : Shape(a)' = Shape(a)
  BY <1>1, <1>2, GivenGrows DEF GridInv
<1>4. Handled /\ request = NoRequest /\ request' = NoRequest
  BY <1>1 DEF SplitStack, Idle
<1>5. address \in Given
  BY DEF GridInv, TypeInv
<1>6. split \in Given'
  BY <1>1, <1>2, <1>5 DEF Given
<1> HIDE DEF split
<1>7. stored' \subseteq Given' /\ {address, split} \subseteq Given' /\ stored \ stored' \subseteq {address, split}
  BY <1>1, <1>3, <1>5, <1>6 DEF GridInv, TypeInv
<1> QED
  BY <1>1, <1>2, <1>3, <1>4, <1>7, StorageStep

(* A step that only rearranges the grid keeps the invariant.                *)
LEMMA RearrangedKeeps ==
  ASSUME GridInv, Grid', DOMAIN content' = DOMAIN content, Handled,
         UNCHANGED <<items, lastStack, stored, attached, size, touched>>,
         attached,
         request' = NoRequest
  PROVE  GridInv'
<1>1. TypeInv'
  BY DEF GridInv, TypeInv, Given
<1>2. AddedAreStored' /\ OnlyStoredOnGrid' /\ EmptyWhenDetached'
  BY DEF GridInv, AddedAreStored, OnlyStoredOnGrid, EmptyWhenDetached, Handled
<1>3. RequestWaits'
  BY DEF RequestWaits, NoRequest
<1> QED
  BY <1>1, <1>2, <1>3 DEF GridInv

(* Items are on the grid only of an extension that is initialized.          *)
LEMMA AttachedWithItems ==
  ASSUME GridInv, NEW a \in DOMAIN content
  PROVE  attached
BY DEF GridInv, EmptyWhenDetached, TypeInv

(* MoveItem keeps the invariant.                                            *)
LEMMA MoveItemKeeps ==
  ASSUME GridInv, NEW address \in DOMAIN content, NEW position \in Cells,
         MoveItem(address, position)
  PROVE  GridInv'
<1>1. Grid' /\ DOMAIN content' = DOMAIN content
  BY MoveKeepsGrid DEF GridInv, MoveItem, storageVars
<1>2. /\ UNCHANGED <<items, lastStack, stored, attached, size, touched>>
      /\ Handled /\ request' = NoRequest
  BY DEF MoveItem, storageVars, Idle
<1>3. attached
  BY AttachedWithItems
<1> QED
  BY <1>1, <1>2, <1>3, RearrangedKeeps

(* MoveRequested keeps the invariant.                                       *)
LEMMA MoveRequestedKeeps ==
  ASSUME GridInv, MoveRequested
  PROVE  GridInv'
<1>1. request \in Given \X Cells /\ request[1] \in DOMAIN content
  BY DEF MoveRequested, GridInv, TypeInv
<1>2. request[2] \in Cells
  BY <1>1
<1>3. Grid' /\ DOMAIN content' = DOMAIN content
  BY <1>1, <1>2, MoveKeepsGrid DEF GridInv, MoveRequested, storageVars
<1>4. /\ UNCHANGED <<items, lastStack, stored, attached, size, touched>>
      /\ Handled /\ request' = NoRequest
  BY DEF MoveRequested, storageVars
<1>5. attached
  BY <1>1, AttachedWithItems
<1> QED
  BY <1>3, <1>4, <1>5, RearrangedKeeps

(* RotateItem keeps the invariant.                                          *)
LEMMA RotateItemKeeps ==
  ASSUME GridInv, NEW address \in DOMAIN content, RotateItem(address)
  PROVE  GridInv'
<1>1. Grid' /\ DOMAIN content' = DOMAIN content
  BY RotateKeepsGrid DEF GridInv
<1>2. /\ UNCHANGED <<items, lastStack, stored, attached, size, touched>>
      /\ Handled /\ request' = NoRequest
  BY DEF RotateItem, storageVars, Idle
<1>3. attached
  BY AttachedWithItems
<1> QED
  BY <1>1, <1>2, <1>3, RearrangedKeeps

(* MoveToGrid keeps the invariant.                                          *)
LEMMA MoveToGridKeeps ==
  ASSUME GridInv, NEW shape \in Shapes, NEW position \in Cells, MoveToGrid(shape, position)
  PROVE  GridInv'
<1> DEFINE address == <<Len(items) + 1, lastStack + 1>>
<1>1. /\ items' = Append(items, shape)
      /\ lastStack' = lastStack + 1
      /\ stored' = stored \cup {address}
      /\ Post("added", {address})
      /\ request' = <<address, position>>
      /\ UNCHANGED <<attached, size, occupied, content, skewed>>
      /\ attached /\ CanAddItemToGrid(shape)
  BY DEF MoveToGrid, gridVars, AllowsAddition
<1>2. lastStack \in Nat /\ lastStack' \in Nat /\ lastStack <= lastStack'
  BY <1>1 DEF GridInv, TypeInv
<1>3. /\ items' \in Seq(Shapes)
      /\ Given \subseteq Given' /\ \A a \in Given : Shape(a)' = Shape(a)
  BY <1>1, <1>2, GivenGrows DEF GridInv
<1>4. Handled /\ request = NoRequest
  BY DEF MoveToGrid, Idle
<1>5. DOMAIN items' = 1 .. Len(items) + 1 /\ Len(items) \in Nat /\ items'[Len(items) + 1] = shape
  BY <1>1, AppendKeeps DEF GridInv, TypeInv
<1>6. address \in Given' /\ items'[address[1]] = shape
  <2>1. Len(items) + 1 \in DOMAIN items' /\ lastStack + 1 \in 1 .. lastStack'
    BY <1>1, <1>2, <1>5
  <2> QED
    BY <1>5, <2>1 DEF Given
<1> HIDE DEF address
<1>7. /\ stored' \subseteq Given' /\ {address} \subseteq Given' /\ {address} \subseteq stored'
      /\ stored \subseteq stored'
  BY <1>1, <1>3, <1>6 DEF GridInv, TypeInv
<1>8. Cells' = Cells
  BY <1>1 DEF Cells
<1>9. request' \in Given' \X Cells'
  BY <1>1, <1>6, <1>8
<1>10. /\ (Grid /\ AddedAreStored /\ OnlyStoredOnGrid /\ EmptyWhenDetached)'
       /\ TypeInv'
  BY <1>1, <1>2, <1>3, <1>4, <1>7, <1>9, StorageStep
<1>11. RequestWaits'
  <2>1. touched' = Touched("added", {address})
    BY <1>1 DEF Post
  <2>2. request'[1] = address
    BY <1>1
  <2>3. CanAddItemToGrid(shape)'
    BY <1>1, SamePlaces
  <2>4. CanAddItemToGrid(Shape(request[1]))'
    BY <1>6, <2>2, <2>3 DEF Shape
  <2> QED
    BY <2>1, <2>2, <2>4 DEF RequestWaits, Touched
<1> QED
  BY <1>10, <1>11 DEF GridInv

(* Whatever its new size, the grid keeps the cells that it still has; when  *)
(* it loses marked ones, it is skewed.                                      *)
LEMMA SetGridSizeKeeps ==
  ASSUME GridInv, NEW newSize \in GridSizes, SetGridSize(newSize)
  PROVE  GridInv'
<1>1. /\ size' = newSize /\ occupied' = Resized(occupied, newSize)
      /\ skewed' = (skewed \/ Resized(occupied, newSize) # occupied)
      /\ UNCHANGED <<items, lastStack, stored, attached, content, touched, request>>
      /\ Handled /\ request = NoRequest
  BY DEF SetGridSize, Idle, storageVars
<1>2. skewed \in BOOLEAN /\ skewed' \in BOOLEAN
  BY <1>1 DEF GridInv, Grid
<1>3. \A a : CellsOf(a)' = CellsOf(a)
  BY <1>1 DEF CellsOf, ApplyPlacement, Shape, Turned
<1>4. Placed' /\ (occupied \subseteq Cells)'
  BY <1>1 DEF GridInv, Grid, Placed, Given, Resized, Cells
<1>5. ASSUME ~skewed' PROVE CellsTell' /\ Disjoint'
  <2>1. ~skewed /\ occupied' = occupied
    BY <1>1, <1>2, <1>5
  <2> QED
    BY <1>1, <1>3, <2>1 DEF GridInv, Grid, CellsTell, Disjoint
<1>6. Grid'
  BY <1>2, <1>4, <1>5 DEF Grid
<1>7. TypeInv'
  BY <1>1 DEF GridInv, TypeInv, Given
<1>8. ~attached => occupied' = {}
  BY <1>1 DEF GridInv, EmptyWhenDetached, Resized
<1>9. AddedAreStored' /\ OnlyStoredOnGrid' /\ EmptyWhenDetached' /\ RequestWaits'
  BY <1>1, <1>8 DEF GridInv, AddedAreStored, OnlyStoredOnGrid, EmptyWhenDetached, RequestWaits, Handled
<1> QED
  BY <1>6, <1>7, <1>9 DEF GridInv

(* Initialize keeps the invariant.                                          *)
LEMMA InitializeKeeps ==
  ASSUME GridInv, InitializeExtension
  PROVE  GridInv'
<1>1. DOMAIN content = {} /\ request = NoRequest
  BY DEF GridInv, EmptyWhenDetached, InitializeExtension, Idle
<1>2. /\ touched'.addresses = stored
      /\ touched' = [kind |-> touched'.kind, addresses |-> touched'.addresses]
      /\ attached' = TRUE /\ occupied' = {}
      /\ UNCHANGED <<items, lastStack, stored, size, content, request, skewed>>
  BY TouchedIs DEF InitializeExtension, storageVars
<1>3. Grid'
  BY <1>1, <1>2 DEF GridInv, Grid, Placed, CellsTell, Disjoint
<1>4. TypeInv'
  BY <1>2 DEF GridInv, TypeInv, Given, Cells
<1>5. AddedAreStored' /\ OnlyStoredOnGrid' /\ EmptyWhenDetached' /\ RequestWaits'
  BY <1>1, <1>2 DEF AddedAreStored, OnlyStoredOnGrid, EmptyWhenDetached, RequestWaits, NoRequest
<1> QED
  BY <1>3, <1>4, <1>5 DEF GridInv

(* Deinitialize keeps the invariant.                                        *)
LEMMA DeinitializeKeeps ==
  ASSUME GridInv, DeinitializeExtension
  PROVE  GridInv'
<1>1. /\ Handled /\ request = NoRequest
      /\ attached' = FALSE /\ occupied' = {} /\ DOMAIN content' = {} /\ skewed' = FALSE
      /\ UNCHANGED <<items, lastStack, stored, size, touched, request>>
  BY DEF DeinitializeExtension, Idle, storageVars
<1>2. Grid'
  BY <1>1 DEF Grid, Placed, CellsTell, Disjoint
<1>3. TypeInv'
  BY <1>1 DEF GridInv, TypeInv, Given
<1>4. AddedAreStored' /\ OnlyStoredOnGrid' /\ EmptyWhenDetached' /\ RequestWaits'
  BY <1>1 DEF GridInv, AddedAreStored, OnlyStoredOnGrid, EmptyWhenDetached, RequestWaits, Handled
<1> QED
  BY <1>2, <1>3, <1>4 DEF GridInv

(* One address of an event is handled: its place is found or given up.      *)
LEMMA HandleTouchedKeeps ==
  ASSUME GridInv, HandleTouched
  PROVE  GridInv'
<1>1. PICK next \in touched.addresses :
        /\ \/ touched.kind = "added" /\ OnAddition(next)
           \/ touched.kind = "removed" /\ OnRemoval(next)
           \/ touched.kind = "edited" /\ OnEdit(next)
        /\ touched' = Touched(touched.kind, touched.addresses \ {next})
        /\ UNCHANGED <<items, lastStack, stored, attached, size, request>>
  BY DEF HandleTouched, storageVars
<1> DEFINE rest == touched.addresses \ {next}
<1>2. /\ touched'.addresses = rest
      /\ rest # {} => touched'.kind = touched.kind
      /\ rest = {} => touched'.kind = "none"
      /\ touched' = [kind |-> touched'.kind, addresses |-> touched'.addresses]
  BY <1>1, TouchedIs
<1>3. next \in Given /\ TypeInv /\ Grid
  BY DEF GridInv, TypeInv
<1>4. CASE AddItemToGrid(next) /\ next \in stored /\ touched.kind # "removed"
  <2>1. /\ Grid'
        /\ DOMAIN content' \in {DOMAIN content, DOMAIN content \cup {next}}
        /\ CanAddItemToGrid(Shape(next)) => next \in DOMAIN content'
    BY <1>1, <1>3, <1>4, AddKeepsGrid
  <2>2. OnlyStoredOnGrid'
    BY <1>1, <1>2, <1>4, <2>1 DEF GridInv, OnlyStoredOnGrid
  <2>3. RequestWaits'
    <3> SUFFICES ASSUME request # NoRequest
                 PROVE  Handled' /\ request[1] \in DOMAIN content'
      BY <1>1 DEF RequestWaits
    <3>1. touched = Touched("added", {request[1]}) /\ CanAddItemToGrid(Shape(request[1]))
      BY DEF GridInv, RequestWaits, Handled
    <3>2. touched.addresses = {request[1]}
      BY <3>1, TouchedIs
    <3>3. next = request[1] /\ rest = {}
      BY <3>2
    <3> QED
      BY <1>2, <2>1, <3>1, <3>3 DEF Handled
  <2> QED
    BY <1>1, <1>2, <1>3, <2>1, <2>2, <2>3
       DEF GridInv, TypeInv, Given, AddedAreStored, EmptyWhenDetached, Cells, Handled
<1>5. CASE RemoveItem(next) /\ next \notin stored /\ touched.kind # "added"
  <2>1. Grid' /\ DOMAIN content' = DOMAIN content \ {next}
    BY <1>1, <1>3, <1>5, RemoveKeepsGrid
  <2>2. OnlyStoredOnGrid'
    BY <1>1, <1>2, <1>5, <2>1 DEF GridInv, OnlyStoredOnGrid
  <2>3. RequestWaits'
    <3>1. request = NoRequest
      BY <1>5, TouchedIs DEF GridInv, RequestWaits, Handled
    <3> QED
      BY <1>1, <3>1 DEF RequestWaits
  <2> QED
    BY <1>1, <1>2, <1>3, <2>1, <2>2, <2>3
       DEF GridInv, TypeInv, Given, AddedAreStored, EmptyWhenDetached, Cells, Handled
<1>6. CASE UNCHANGED gridVars /\ next \in stored /\ touched.kind = "removed"
  <2>1. Grid' /\ content' = content /\ occupied' = occupied
    BY <1>1, <1>3, <1>6, UntouchedGrid DEF gridVars, Given, Shape
  <2>2. OnlyStoredOnGrid'
    BY <1>1, <1>2, <1>6, <2>1 DEF GridInv, OnlyStoredOnGrid
  <2>3. RequestWaits'
    <3>1. request = NoRequest
      BY <1>6, TouchedIs DEF GridInv, RequestWaits, Handled
    <3> QED
      BY <1>1, <3>1 DEF RequestWaits
  <2> QED
    BY <1>1, <1>2, <1>3, <2>1, <2>2, <2>3
       DEF GridInv, TypeInv, Given, AddedAreStored, EmptyWhenDetached, Cells, Handled
<1>7. touched.kind = "added" => next \in stored
  BY DEF GridInv, AddedAreStored
<1> QED
  BY <1>1, <1>4, <1>5, <1>6, <1>7 DEF OnAddition, OnRemoval, OnEdit

(* The invariant is kept by every step.                                     *)
LEMMA GridStep == GridInv /\ [Next]_vars => GridInv'
<1> SUFFICES ASSUME GridInv, [Next]_vars PROVE GridInv'
  OBVIOUS
<1>1. CASE UNCHANGED vars
  <2>1. UNCHANGED <<items, lastStack, stored, attached, size, occupied, content, touched,
                    request, skewed>>
    BY <1>1 DEF vars, storageVars, gridVars
  <2>2. Given' = Given /\ Cells' = Cells /\ \A a \in Given : Shape(a)' = Shape(a)
    BY <2>1 DEF Given, Cells, Shape
  <2>3. Grid'
    BY <2>1, <2>2, UntouchedGrid DEF GridInv
  <2>4. TypeInv' /\ AddedAreStored' /\ OnlyStoredOnGrid' /\ EmptyWhenDetached'
    BY <2>1, <2>2 DEF GridInv, TypeInv, AddedAreStored, OnlyStoredOnGrid, EmptyWhenDetached, Handled
  <2>5. RequestWaits'
    <3> SUFFICES ASSUME request # NoRequest
                 PROVE  \/ Handled /\ request[1] \in DOMAIN content
                        \/ /\ touched = Touched("added", {request[1]})
                           /\ CanAddItemToGrid(Shape(request[1]))'
      BY <2>1 DEF RequestWaits, Handled, Touched
    <3>1. request[1] \in Given
      BY DEF GridInv, TypeInv
    <3>2. Shape(request[1])' = Shape(request[1])
      BY <2>1 DEF Shape
    <3>3. CanAddItemToGrid(Shape(request[1]))' = CanAddItemToGrid(Shape(request[1]))
      BY <2>1, <3>2, SamePlaces
    <3> QED
      BY <3>3 DEF GridInv, RequestWaits
  <2> QED
    BY <2>3, <2>4, <2>5 DEF GridInv
<1>2. CASE Next
  BY <1>2, HandleTouchedKeeps, AddItemStackKeeps, AddItemStacksKeeps, RemoveStacksKeeps,
     SplitStackKeeps, MoveItemKeeps, RotateItemKeeps, MoveToGridKeeps, MoveRequestedKeeps,
     ReleaseAtKeeps, SetGridSizeKeeps, InitializeKeeps, DeinitializeKeeps DEF Next
<1> QED
  BY <1>1, <1>2

(* Every reachable state of the grid satisfies the invariant.               *)
THEOREM GridInvariant == Spec => []GridInv
<1>1. Init => GridInv
  BY GridInit
<1>2. GridInv /\ [Next]_vars => GridInv'
  BY GridStep
<1> QED
  BY <1>1, <1>2, PTL DEF Spec

(* The cell map and the placements tell the same story whatever shapes were *)
(* added, split and removed before, until an item that Rotate displaces is  *)
(* moved or turned, or the grid is made smaller over an item.               *)
THEOREM CellsAlwaysMatch == Spec => []CellsMatchPlacements
<1>1. GridInv => CellsMatchPlacements
  <2> SUFFICES ASSUME GridInv, ~skewed
               PROVE  occupied = UNION { CellsOf(a) : a \in DOMAIN content }
    BY DEF CellsMatchPlacements
  <2> QED
    BY DEF GridInv, Grid, CellsTell
<1> QED
  BY <1>1, GridInvariant, PTL

(* No two items on the grid share a cell before such a step.                *)
THEOREM ItemsNeverOverlap == Spec => []ItemsDoNotOverlap
<1>1. GridInv => ItemsDoNotOverlap
  BY DEF GridInv, Grid, Disjoint, ItemsDoNotOverlap, Overlaps
<1> QED
  BY <1>1, GridInvariant, PTL

(* Shapes all of whose turns stay in place, and sizes that only grow.       *)
CompactShapes == \A shape \in Shapes, rotation \in Rotations : TurnsInPlace(shape, rotation)

GridGrows ==
  \A s \in {StartSize} \cup GridSizes, t \in GridSizes :
    s # t => s[1] <= t[1] /\ s[2] <= t[2]

(* Every marked cell is under an item, every item is on marked cells, and   *)
(* no two items share one, whatever has happened before.                    *)
GridInStep ==
  /\ occupied = UNION { CellsOf(a) : a \in DOMAIN content }
  /\ \A a, b \in DOMAIN content : a # b => ~Overlaps(CellsOf(a), CellsOf(b))

Straight == GridInv /\ skewed = FALSE

(* When no item is displaced by its turns and the grid never shrinks, no    *)
(* step whatever skews the grid: the marked cells are those of the          *)
(* placements, and no two items share one.                                  *)
THEOREM CompactItemsStayInStep ==
  ASSUME CompactShapes, GridGrows
  PROVE  Spec => []GridInStep
<1>1. Init => Straight
  BY GridInit DEF Init, Straight
<1>2. Straight /\ [Next]_vars => Straight'
  <2> SUFFICES ASSUME GridInv, skewed = FALSE, [Next]_vars PROVE skewed' = FALSE
    BY GridStep DEF Straight
  <2>1. \A shape \in Shapes, rotation \in Rotations :
          Settled(shape, rotation) /\ TurnsInPlace(shape, rotation)
    BY DEF CompactShapes, TurnsInPlace, Settled
  <2>2. \A a \in DOMAIN content : Shape(a) \in Shapes /\ content[a].rotation \in Rotations
    BY ShapeOfGiven DEF GridInv, Grid, Placed, IsPlacement
  <2>3. ASSUME NEW address \in DOMAIN content, NEW position \in Cells, Moved(address, position)
        PROVE  skewed' = FALSE
    BY <2>1, <2>2, <2>3 DEF Moved, TrySwapItems, gridVars
  <2>4. CASE \E address \in DOMAIN content, position \in Cells : MoveItem(address, position)
    BY <2>3, <2>4 DEF MoveItem
  <2>5. CASE MoveRequested
    <3>1. request \in Given \X Cells
      BY <2>5 DEF MoveRequested, GridInv, TypeInv
    <3> QED
      BY <2>3, <2>5, <3>1 DEF MoveRequested
  <2>6. CASE \E address \in DOMAIN content : RotateItem(address)
    BY <2>1, <2>2, <2>6 DEF RotateItem
  <2>7. CASE \E newSize \in GridSizes : SetGridSize(newSize)
    <3>1. PICK newSize \in GridSizes : SetGridSize(newSize)
      BY <2>7
    <3>2. size \in Nat \X Nat /\ newSize \in Nat \X Nat /\ size[1] <= newSize[1] /\ size[2] <= newSize[2]
      BY <3>1, SizesAssumption DEF SetGridSize, GridInv, TypeInv, GridGrows
    <3>3. Cells \subseteq (0 .. newSize[1] - 1) \X (0 .. newSize[2] - 1)
      BY <3>2 DEF Cells
    <3>4. Resized(occupied, newSize) = occupied
      BY <3>3 DEF Resized, GridInv, Grid
    <3> QED
      BY <3>1, <3>4 DEF SetGridSize
  <2>8. CASE HandleTouched
    BY <2>8 DEF HandleTouched, OnAddition, OnRemoval, OnEdit, AddItemToGrid, RemoveItem, gridVars
  <2>9. CASE \E shape \in Shapes : AddItemStack(shape)
    BY <2>9 DEF AddItemStack, gridVars
  <2>10. CASE \E shape, other \in Shapes : AddItemStacks(shape, other)
    BY <2>10 DEF AddItemStacks, gridVars
  <2>11. CASE \/ \E addresses \in SUBSET stored : RemoveStacks(addresses)
              \/ \E position \in Cells : ReleaseAt(position)
    BY <2>11 DEF RemoveStacks, ReleaseAt, gridVars
  <2>12. CASE \E address \in stored : SplitStack(address)
    BY <2>12 DEF SplitStack, gridVars
  <2>13. CASE \E shape \in Shapes, position \in Cells : MoveToGrid(shape, position)
    BY <2>13 DEF MoveToGrid, gridVars
  <2>14. CASE InitializeExtension \/ DeinitializeExtension \/ UNCHANGED vars
    BY <2>14 DEF InitializeExtension, DeinitializeExtension, vars, gridVars
  <2> QED
    BY <2>4, <2>5, <2>6, <2>7, <2>8, <2>9, <2>10, <2>11, <2>12, <2>13, <2>14 DEF Next
<1>3. Straight => GridInStep
  BY DEF Straight, GridInStep, GridInv, Grid, CellsTell, Disjoint, Overlaps
<1> QED
  BY <1>1, <1>2, <1>3, PTL DEF Spec

(* An address whose stack has left the storage leaves the grid with the     *)
(* event that says so.                                                      *)
THEOREM OnlyStoredStay == Spec => []OnlyStoredOnGrid
<1>1. GridInv => OnlyStoredOnGrid
  BY DEF GridInv
<1> QED
  BY <1>1, GridInvariant, PTL

(* The move that ends a MoveToGrid always finds its stack on the grid.      *)
THEOREM RequestedAlwaysOnGrid == Spec => []RequestedIsOnGrid
<1>1. GridInv => RequestedIsOnGrid
  <2> SUFFICES ASSUME GridInv, Handled, request # NoRequest PROVE request[1] \in DOMAIN content
    BY DEF RequestedIsOnGrid
  <2>1. Touched("added", {request[1]}).addresses # {}
    BY TouchedIs
  <2> QED
    BY <2>1 DEF GridInv, RequestWaits, Handled
<1> QED
  BY <1>1, GridInvariant, PTL

-----------------------------------------------------------------------------
(* What is refused.                                                         *)

\* A candidate is a cell and a rotation of the grid.
LEMMA CandidateIs ==
  ASSUME TypeInv, NEW shape \in Shapes, OnAxes(shape), NEW c \in Candidates(shape)
  PROVE  /\ c[1] \in Cells /\ c[2] \in Rotations /\ Rank(c) \in Nat
         /\ Tried(shape, c).origin # NoneValue
<1>1. size \in Nat \X Nat
  BY SizesAssumption DEF TypeInv
<1>2. /\ c \in (Cells \ occupied) \X RotationRange[shape]
      /\ FitsInGrid(ApplyPlacement(shape, Tried(shape, c), FALSE, FALSE), {})
  BY DEF Candidates
<1>3. c[1] \in Cells /\ c[2] \in RotationRange[shape]
  BY <1>2
<1>4. c[2] \in Rotations
  BY <1>3 DEF RotationRange, Rotations
<1>5. Rank(c) \in Nat
  <2>1. size[1] \in Nat /\ c[1][1] \in Nat /\ c[1][2] \in Nat /\ c[2] \in Nat
    BY <1>1, <1>3, <1>4 DEF Cells, Rotations
  <2>2. c[1][2] * size[1] \in Nat
    BY <2>1
  <2> QED
    BY <2>1, <2>2 DEF Rank
<1>6. Tried(shape, c).origin # NoneValue
  <2>1. FirstPoint[shape] \in Points /\ FirstPoint[shape][2] = 0
    BY FirstPointIs DEF OnAxes, Before, Points
  <2>2. c[1][2] \in Nat
    BY <1>1, <1>3 DEF Cells
  <2> QED
    BY <2>1, <2>2 DEF Tried, Placement, Minus, NoneValue
<1> QED
  BY <1>3, <1>4, <1>5, <1>6

\* A shape that fits unturned is tried where it fits.
LEMMA FittingIsCandidate ==
  ASSUME TypeInv, NEW shape \in Shapes, OnAxes(shape), NEW p \in Cells,
         FitsInGrid(Translate(shape, p), {})
  PROVE  <<Plus(p, FirstPoint[shape]), 0>> \in Candidates(shape)
<1> DEFINE first == FirstPoint[shape]
           c == <<Plus(p, first), 0>>
<1>1. size \in Nat \X Nat
  BY SizesAssumption DEF TypeInv
<1>2. p \in Nat \X Nat
  BY <1>1 DEF Cells
<1>3. 0 \in Rotations
  BY DEF Rotations
<1>4. first \in shape /\ shape \subseteq Nat \X Nat
  BY FirstPointIs DEF OnAxes
<1>5. Plus(first, p) \in Cells \ occupied
  BY <1>4 DEF FitsInGrid, Translate
<1> HIDE DEF first
<1>6. Plus(p, first) = Plus(first, p) /\ Minus(Plus(p, first), first) = p
  BY <1>2, <1>4 DEF Plus, Minus
<1>7. 0 \in RotationRange[shape]
  BY <1>3 DEF RotationRange
<1>8. c \in (Cells \ occupied) \X RotationRange[shape]
  BY <1>5, <1>6, <1>7
<1>9. Tried(shape, c) = Placement(p, 0)
  BY <1>6 DEF Tried, first
<1>10. ApplyPlacement(shape, Placement(p, 0), FALSE, FALSE) = Translate(shape, p)
  <2>1. Turned[<<shape, 0, FALSE>>] = Rotate(shape, 0, FALSE)
    BY <1>3 DEF Turned
  <2>2. Rotate(shape, 0, FALSE) = shape
    BY DEF Rotate
  <2> QED
    BY <2>1, <2>2 DEF ApplyPlacement, Placement
<1> HIDE DEF c
<1> QED
  BY <1>8, <1>9, <1>10 DEF Candidates, c, first

\* AllowsAddition never refuses a shape that fits somewhere as it is
\* (FindFirstEmptyLocation): it tries the rotations of every cell, its choice
\* is the first that fits, and the placement of a shape with its corner at zero
\* never has the origin that stands for none.
THEOREM NothingThatFitsIsRefused == Spec => []RefusesOnlyWhatFitsNowhere
<1>1. ASSUME TypeInv PROVE RefusesOnlyWhatFitsNowhere
  <2> SUFFICES ASSUME NEW shape \in Shapes, OnAxes(shape),
                      NEW p \in Cells, FitsInGrid(Translate(shape, p), {})
               PROVE  CanAddItemToGrid(shape)
    BY DEF RefusesOnlyWhatFitsNowhere
  <2> DEFINE all == Candidates(shape)
             ranks == { Rank(c) : c \in all }
  <2>1. PICK c \in all : TRUE
    BY <1>1, FittingIsCandidate
  <2>2. \A d \in all : Rank(d) \in Nat /\ Tried(shape, d).origin # NoneValue
    BY <1>1, CandidateIs
  <2> HIDE DEF all
  <2>3. ranks \in SUBSET Nat /\ Rank(c) \in ranks
    BY <2>2
  <2>4. \A m \in ranks : \E d \in all : Rank(d) = m
    OBVIOUS
  <2> HIDE DEF ranks
  <2>5. PICK m \in ranks : \A k \in ranks : m <= k
    BY <2>3, LeastNatural
  <2>6. Min(ranks) = m
    <3>1. ranks \subseteq Int
      BY <2>3
    <3> QED
      BY <2>5, <3>1, MinIs
  <2>7. PICK d \in all : Rank(d) = m
    BY <2>4
  <2>8. Tried(shape, d) \in FirstEmptyLocation(shape)
    BY <2>2, <2>6, <2>7 DEF FirstEmptyLocation, all, ranks
  <2> QED
    BY <2>8 DEF CanAddItemToGrid
<1>2. GridInv => RefusesOnlyWhatFitsNowhere
  BY <1>1 DEF GridInv
<1> QED
  BY <1>2, GridInvariant, PTL
=============================================================================
