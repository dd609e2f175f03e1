---------------------------- MODULE MCSpatialGrid ----------------------------
(* A grid of 3 x 3 cells that can lose its last column and get it back,     *)
(* with a single cell, a corner of three cells, and a bar of three cells,   *)
(* which Rotate displaces.                                                  *)
EXTENDS SpatialGrid

MCShapes == { MakeRect(1, 1), MakeRect(3, 1), {<<0, 0>>, <<1, 0>>, <<0, 1>>} }
MCStartSize == <<3, 3>>
MCGridSizes == { <<2, 3>>, <<3, 3>> }
=============================================================================
