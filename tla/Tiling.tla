------------------------------- MODULE Tiling --------------------------------
(* The tiles of a result matrix: Master::createTiledTasks in src/master.cpp  *)
(* cuts rows x cols into squares of TILE_SIZE, the last row and column of    *)
(* squares being cut short.                                                  *)
EXTENDS Integers, Sequences

CONSTANT TileSize   \* TILE_SIZE of src/master.h

ASSUME TilingAssumption == TileSize \in Nat \ {0}

lesser(a, b) == IF a < b THEN a ELSE b      \* std::min

\* Mutant: the division rounds down and drops the last, short tile.
TileCountRoundedDown(n) == n \div TileSize

\* rowTiles and colTiles.
TileCount(n) == (n + TileSize - 1) \div TileSize

\* Mutant: std::min forgotten, the last tile reaches beyond the matrix.
TileEndUncut(start, n) == start + TileSize

\* endRow and endCol.
TileEnd(start, n) == lesser(start + TileSize, n)

\* The task made in round (i, j) of the loops.
TileTask(rows, cols, i, j) ==
  [taskId   |-> i * TileCount(cols) + j,
   startRow |-> i * TileSize,  endRow |-> TileEnd(i * TileSize, rows),
   startCol |-> j * TileSize,  endCol |-> TileEnd(j * TileSize, cols)]

\* taskQueue_ after createTiledTasks: row by row.
TaskQueue(rows, cols) ==
  [k \in 1 .. TileCount(rows) * TileCount(cols) |->
     TileTask(rows, cols, (k - 1) \div TileCount(cols), (k - 1) % TileCount(cols))]

-----------------------------------------------------------------------------
\* The element (r, c) belongs to the task.
Covers(t, r, c) == t.startRow <= r /\ r < t.endRow /\ t.startCol <= c /\ c < t.endCol

\* The round of the loops whose tile an element belongs to.
TileOf(r, c) == <<r \div TileSize, c \div TileSize>>

\* The rounds of the two loops.
Rounds(rows, cols) == (0 .. TileCount(rows) - 1) \X (0 .. TileCount(cols) - 1)

\* Each element of the matrix is in the tile of one round, and only of that one.
Partition(rows, cols) ==
  \A r \in 0 .. rows - 1, c \in 0 .. cols - 1 :
    /\ TileOf(r, c) \in Rounds(rows, cols)
    /\ \A i \in 0 .. TileCount(rows) - 1, j \in 0 .. TileCount(cols) - 1 :
         Covers(TileTask(rows, cols, i, j), r, c) <=> TileOf(r, c) = <<i, j>>
=============================================================================
