----------------------------- MODULE GridShapes -----------------------------
(***************************************************************************)
(* FFaerieGridShape and its views: a shape is a set of cells <<x, y>>, x to *)
(* the right and y downwards.  The array of points becomes a set: nothing   *)
(* in the code depends on the order of the points, and no shape repeats one *)
(* (Overlaps would take a repeated point for an overlap).                   *)
(* A bit matrix is the set of the coordinates whose bit is set, with its    *)
(* dimension.  Rotations are 0 to 3 quarter turns (ESpatialItemRotation).   *)
(***************************************************************************)
EXTENDS Integers, FiniteSets, FiniteSetsExt

Rotations == 0 .. 3

GetNextRotation(r) == (r + 1) % 4

(* FIntPoint::NoneValue: the sentinel of the placements is also a point.    *)
NoneValue == <<-1, -1>>

Plus(p, q) == <<p[1] + q[1], p[2] + q[2]>>
Minus(p, q) == <<p[1] - q[1], p[2] - q[2]>>

(* Integer division of C++: towards zero.                                   *)
Half(n) == IF n >= 0 THEN n \div 2 ELSE -((-n) \div 2)

MakeRect(height, width) == (0 .. height - 1) \X (0 .. width - 1)

Xs(shape) == { p[1] : p \in shape }
Ys(shape) == { p[2] : p \in shape }

(* GetBounds: both corners belong to the rectangle.                         *)
BoundsMin(shape) ==
  IF shape = {} THEN <<0, 0>> ELSE <<Min(Xs(shape)), Min(Ys(shape))>>
BoundsMax(shape) ==
  IF shape = {} THEN <<0, 0>> ELSE <<Max(Xs(shape)), Max(Ys(shape))>>

(* GetSize counts from the cell <<0, 0>>.                                   *)
GetSize(shape) ==
  IF shape = {} THEN <<0, 0>> ELSE Plus(BoundsMax(shape), <<1, 1>>)

GetShapeCenter(shape) == <<Half(GetSize(shape)[1]), Half(GetSize(shape)[2])>>

Translate(shape, offset) == { Plus(p, offset) : p \in shape }

Normalize(shape) == Translate(shape, Minus(<<0, 0>>, BoundsMin(shape)))

-----------------------------------------------------------------------------
(* Rotation through a square bit matrix, the one items are placed with.     *)

ToMatrix(shape) ==
  LET size == Plus(Minus(BoundsMax(shape), BoundsMin(shape)), <<1, 1>>)
      padding == << IF size[2] > size[1] THEN (size[2] - size[1]) \div 2 ELSE 0,
                    IF size[1] > size[2] THEN (size[1] - size[2]) \div 2 ELSE 0 >>
  IN  [ dim |-> Max({size[1], size[2]}),
        bits |-> Translate(shape, Minus(padding, BoundsMin(shape))) ]

Transpose(matrix) == [ matrix EXCEPT !.bits = { <<p[2], p[1]>> : p \in @ } ]

ReverseRows(matrix) ==
  [ matrix EXCEPT !.bits = { <<matrix.dim - 1 - p[1], p[2]>> : p \in @ } ]

QuarterTurn(matrix) == ReverseRows(Transpose(matrix))

RotateMatrixClockwise(matrix, rotation) ==
  CASE matrix.dim <= 1 \/ rotation = 0 -> matrix
    [] rotation = 1 -> QuarterTurn(matrix)
    [] rotation = 2 -> QuarterTurn(QuarterTurn(matrix))
    [] OTHER -> QuarterTurn(QuarterTurn(QuarterTurn(matrix)))

MatrixToPoints(matrix, origin) == Translate(Normalize(matrix.bits), origin)

(* How far the turned shape is moved: half of the difference of its sides.  *)
(* The multiplier compares the same number with itself and is always -1.    *)
OriginOffset(size) ==
  LET original == size
      turned == <<size[2], size[1]>>
      multiplier == IF turned[1] > original[2] THEN 1 ELSE -1
  IN  << Half(turned[2] - original[2]) * multiplier,
         Half(turned[1] - original[1]) * multiplier >>

Rotate(shape, rotation, reset) ==
  IF ~reset /\ rotation = 0
  THEN shape
  ELSE LET matrix == RotateMatrixClockwise(ToMatrix(shape), rotation)
           size == GetSize(MatrixToPoints(matrix, <<0, 0>>))
       IN  MatrixToPoints(matrix, OriginOffset(size))

-----------------------------------------------------------------------------
(* Rotation about a pivot.                                                  *)

About(shape, pivot, Turn(_)) ==
  { Plus(Turn(Minus(p, pivot)), pivot) : p \in shape }

Clockwise(p) == <<-p[2], p[1]>>
HalfTurn(p) == <<-p[1], -p[2]>>
CounterClockwise(p) == <<p[2], -p[1]>>

RotateAround_90(shape, pivot) == About(shape, pivot, Clockwise)
RotateAround_180(shape, pivot) == About(shape, pivot, HalfTurn)
RotateAround_270(shape, pivot) == About(shape, pivot, CounterClockwise)

RotateAroundCenter(shape) ==
  IF shape = {} THEN shape ELSE RotateAround_90(shape, GetShapeCenter(shape))

IsSymmetrical(shape) ==
  \/ shape = {}
  \/ Normalize(RotateAroundCenter(shape)) = shape

Overlaps(shape, other) == shape \cap other # {}

-----------------------------------------------------------------------------
(* FFaerieGridShapeView: the points of a shape that stays where it is.  Its *)
(* operations repeat those of the shape with two differences: the size does *)
(* not count the cell <<0, 0>>, and quarter turns go the other way round.   *)

ViewSize(points) == IF points = {} THEN <<0, 0>> ELSE BoundsMax(points)
ViewCenter(points) == <<Half(ViewSize(points)[1]), Half(ViewSize(points)[2])>>

ViewRotate(points, rotation) ==
  CASE rotation = 1 -> About(points, ViewCenter(points), CounterClockwise)
    [] rotation = 2 -> About(points, ViewCenter(points), HalfTurn)
    [] rotation = 3 -> About(points, ViewCenter(points), Clockwise)
    [] OTHER -> points

ViewIsSymmetrical(points) ==
  points = {} \/ Normalize(ViewRotate(points, 1)) = points

=============================================================================
