----------------------------- MODULE SimpleGrid -----------------------------
(***************************************************************************)
(* UInventorySimpleGridExtension (InventorySimpleGridExtension.cpp) on one  *)
(* of the storages of FaerieItemStorage: a grid on which every stack lies on*)
(* a cell of its own.  Every call on the storages is a step here too, the   *)
(* ones the grid refuses are none, and the grid handles the batch its       *)
(* storage broadcasts.  Turning an item changes nothing but its placement's *)
(* rotation, which nobody reads, and is left out.                           *)
(***************************************************************************)
EXTENDS FaerieItemStorage

CONSTANTS
    Gridded,   \* the storage with the grid
    StartSize, \* the GridSize it is configured with
    GridSizes  \* the sizes SetGridSize is called with

ASSUME GridAssumption ==
    /\ Gridded \in Storages
    /\ {StartSize} \cup GridSizes \subseteq Nat \X Nat

VARIABLES
    gridded, \* InitializedContainer is set
    gridSize,\* GridSize
    marked,  \* OccupiedCells: the cells whose bit is set
    placed   \* GridContent: the origin of each address on the grid

simpleGridVars == <<gridded, gridSize, marked, placed>>

CellsOf(size) == (0 .. size[1] - 1) \X (0 .. size[2] - 1)
Unmarked == CellsOf(gridSize) \ marked

Before(p, q) == p[2] < q[2] \/ (p[2] = q[2] /\ p[1] <= q[1])

StoredAddresses(st) ==
    UNION {{<<k, j>> : j \in DOMAIN st.entries[k].stacks} : k \in DOMAIN st.entries}

-----------------------------------------------------------------------------
(* One address; a grid is a record [marked, placed].                        *)

FirstEmptyLocation(grid) ==
    LET free == CellsOf(gridSize) \ grid.marked
    IN  {p \in free : \A q \in free : Before(p, q)}

AddItemToGrid(grid, a) ==
    IF FirstEmptyLocation(grid) = {} THEN grid
    ELSE LET origin == CHOOSE p \in FirstEmptyLocation(grid) : TRUE
         IN  [marked |-> grid.marked \cup {origin},
              placed |-> [b \in DOMAIN grid.placed \cup {a} |->
                            IF b = a THEN origin ELSE grid.placed[b]]]

\* BSOA::Remove, which calls PreStackRemove_Server for what it finds.
RemoveItem(grid, a) ==
    IF a \notin DOMAIN grid.placed THEN grid
    ELSE [marked |-> grid.marked \ {grid.placed[a]},
          placed |-> [b \in DOMAIN grid.placed \ {a} |-> grid.placed[b]]]

\* Mutated: a stack is taken off with its entry only.
RemoveWithEntry(type, there, grid, a) ==
    IF a \in there THEN (IF a \in DOMAIN grid.placed THEN grid ELSE AddItemToGrid(grid, a))
    ELSE IF \E b \in there : b[1] = a[1] THEN grid ELSE RemoveItem(grid, a)

\* Mutated: an edit tells of changes only.
EditAddsNothing(type, there, grid, a) ==
    IF type = "Addition"
    THEN IF a \in DOMAIN grid.placed THEN grid ELSE AddItemToGrid(grid, a)
    ELSE IF a \in there THEN grid ELSE RemoveItem(grid, a)

\* An addition adds what is not yet on the grid, a removal takes off what is no
\* longer stored, an edit does both.
Handled(type, there, grid, a) ==
    IF type = "Addition" \/ (type = "Split" /\ a \in there)
    THEN IF a \in DOMAIN grid.placed THEN grid ELSE AddItemToGrid(grid, a)
    ELSE IF a \in there THEN grid ELSE RemoveItem(grid, a)

HandledAll(type, there, grid, addresses) ==
    LET size == Cardinality(addresses)
        after[n \in 0 .. size] ==
            IF n = 0 THEN grid ELSE Handled(type, there, after[n - 1], InOrder(addresses)[n])
    IN  after[size]

-----------------------------------------------------------------------------
(* The batch of the last call, if the grid's storage broadcast one; a call  *)
(* that changes no entry broadcasts none, and no call broadcasts two of one *)
(* storage.                                                                 *)

Posted ==
    IF ~gridded \/ store'[Gridded].entries = store[Gridded].entries THEN {}
    ELSE {b \in {log'[n] : n \in DOMAIN log'} : b.storage = Gridded}

PostEventBatch ==
    IF Posted = {} THEN UNCHANGED <<marked, placed>>
    ELSE \E batch \in Posted :
            LET grid == HandledAll(batch.type, StoredAddresses(store'[Gridded]),
                                   [marked |-> marked, placed |-> placed], TouchedBy(batch))
            IN  marked' = grid.marked /\ placed' = grid.placed

\* AllowsAddition asks for one cell more than the one stack it is shown; a split
\* (AllowsEdit) is refused on a full grid.
Allows ==
    \A batch \in Posted :
        CASE batch.type = "Addition" -> Cardinality(Unmarked) > 1
          [] batch.type = "Split"    -> Unmarked # {}
          [] OTHER                   -> TRUE

StorageSteps ==
    /\ Next
    /\ Allows
    /\ PostEventBatch
    /\ UNCHANGED <<gridded, gridSize>>

-----------------------------------------------------------------------------
(* The calls on the grid itself.                                            *)

\* The search that is to find what lies on the target finds the address itself,
\* so no call ever moves anything.
FindOverlappingItem(a) == {a} \cap DOMAIN placed

MoveItem(a, target) ==
    /\ a \in DOMAIN placed
    /\ IF FindOverlappingItem(a) # {} THEN UNCHANGED <<marked, placed>>
       ELSE /\ marked' = (marked \ {placed[a]}) \cup {target}
            /\ placed' = [placed EXCEPT ![a] = target]
    /\ UNCHANGED <<vars, gridded, gridSize>>

\* FCellGrid::Resize keeps the bits of the cells that are still there.
SetGridSize(size) ==
    /\ size # gridSize
    /\ gridSize' = size
    /\ marked' = marked \cap CellsOf(size)
    /\ UNCHANGED <<vars, gridded, placed>>

\* All that is stored is put on the grid, which has none of it yet.
InitializeExtension ==
    /\ ~gridded
    /\ gridded' = TRUE
    /\ LET there == StoredAddresses(store[Gridded])
           grid == HandledAll("Addition", there, [marked |-> {}, placed |-> placed], there)
       IN  marked' = grid.marked /\ placed' = grid.placed
    /\ UNCHANGED <<vars, gridSize>>

DeinitializeExtension ==
    /\ gridded
    /\ gridded' = FALSE /\ marked' = {} /\ placed' = <<>>
    /\ UNCHANGED <<vars, gridSize>>

SimpleGridInit ==
    /\ gridded = TRUE /\ gridSize = StartSize
    /\ marked = {} /\ placed = <<>>

SimpleGridNext ==
    \/ StorageSteps
    \/ ~halted /\ \E a \in DOMAIN placed, p \in CellsOf(gridSize) : MoveItem(a, p)
    \/ ~halted /\ \E size \in GridSizes : SetGridSize(size)
    \/ ~halted /\ InitializeExtension
    \/ ~halted /\ DeinitializeExtension

SimpleGridSpec ==
    Init /\ SimpleGridInit /\ [][SimpleGridNext]_<<vars, simpleGridVars>>

-----------------------------------------------------------------------------
(* Properties.                                                              *)

\* Only stacks that are stored are on the grid, each alone on its cell, and these
\* cells are the marked ones: whatever was moved in from another storage, split
\* off, taken in part, or cleared with its key given out anew (the cell map and
\* GridContent are kept apart, by PreStackRemove_Server and AddItemToGrid).
OneStackPerCell ==
    /\ DOMAIN placed \subseteq StoredAddresses(store[Gridded])
    /\ \A a, b \in DOMAIN placed : placed[a] = placed[b] => a = b
    /\ marked = {placed[a] : a \in DOMAIN placed}

\* Cells stay one stack's each.  A stack that comes to a grid with a free cell
\* gets it, and a stack on the grid stays on its cell until it is gone (InitializeExtension says "Add all existing
\* items to the grid on startup", and PostEventBatch does it from then on).
ComersGetCells ==
    [][LET there == StoredAddresses(store'[Gridded])
       IN  /\ OneStackPerCell'
           /\ gridded' =>
                 \A a \in there \ (IF gridded THEN StoredAddresses(store[Gridded]) ELSE {}) :
                    a \in DOMAIN placed' \/ Unmarked' = {}
           /\ gridded /\ gridded' =>
                 \A a \in DOMAIN placed \cap there :
                    a \in DOMAIN placed' /\ placed'[a] = placed[a]]_<<vars, simpleGridVars>>
=============================================================================
