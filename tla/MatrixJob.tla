----------------------------- MODULE MatrixJob -------------------------------
(* The elements of a job: the handler threads of src/master.cpp take tasks   *)
(* from the queue of Tiling, a client computes the tile of each              *)
(* (Client::computeMatrixMultiplication), the handler stores it element by   *)
(* element in resultMatrix_ without a lock (Master::processResult), and the  *)
(* main thread copies resultMatrix_ without a lock (Master::getResult).      *)
(* Dispatch says which handler gets which task when; here every order of the *)
(* tasks, and every interleaving of the elements, is possible.               *)
EXTENDS Tiling, FiniteSets

CONSTANTS Handlers,    \* the handler threads
          MaxRows, MaxCols,  \* bounds of the matrices
          Common,      \* the common dimension of the two factors
          Entry,       \* the value of every element of the two factors
          Garbage      \* what a read outside a client's matrix can contribute

ASSUME JobAssumption == /\ IsFiniteSet(Handlers)
                        /\ MaxRows \in Nat \ {0} /\ MaxCols \in Nat \ {0}
                        /\ Common \in Nat \ {0} /\ Entry \in Int
                        /\ Garbage \subseteq Int /\ Garbage # {}

VARIABLES
  rows, cols,  \* the dimensions of resultMatrix_
  tasks,       \* taskQueue_
  hpc,         \* where each handler is
  task,        \* the task of each handler
  tile,        \* its resultTile, indexed as the vector is
  next,        \* the row and column its loop is at
  completed,   \* completedTasks_
  data,        \* data_ of resultMatrix_
  copy,        \* data_ of the matrix getResult returns
  mpc, at      \* where the main thread is, and in the copying

vars == <<rows, cols, tasks, hpc, task, tile, next, completed, data, copy, mpc, at>>

NoTask == [taskId |-> -1, startRow |-> 0, endRow |-> 0, startCol |-> 0, endCol |-> 0]

Zero       == [of |-> <<>>, sum |-> 0]   \* an element not stored yet
Index(r, c) == r * cols + c              \* Matrix::at
Last       == rows * cols - 1

Init ==
  /\ rows \in 1 .. MaxRows /\ cols \in 1 .. MaxCols
  /\ tasks = TaskQueue(rows, cols)
  /\ hpc = [h \in Handlers |-> "idle"] /\ task = [h \in Handlers |-> NoTask]
  /\ tile = [h \in Handlers |-> <<>>] /\ next = [h \in Handlers |-> <<0, 0>>]
  /\ completed = 0
  /\ data = [n \in 0 .. Last |-> Zero] /\ copy = <<>>
  /\ mpc = "polling" /\ at = 0

totalTasks == TileCount(rows) * TileCount(cols)

-----------------------------------------------------------------------------
TakeTask(h) ==
  /\ hpc[h] = "idle" /\ tasks # <<>>
  /\ task' = [task EXCEPT ![h] = Head(tasks)]
  /\ tasks' = Tail(tasks)
  /\ hpc' = [hpc EXCEPT ![h] = "compute"]
  /\ UNCHANGED <<rows, cols, tile, next, completed, data, copy, mpc, at>>

NumRows(t) == t.endRow - t.startRow
NumCols(t) == t.endCol - t.startCol

\* The matrices of a client are the 1 x 1 zeros of its constructor: nothing
\* sends it others.  Its loop over k makes one round and reads (i, 0), (0, j).
Sums(i, j) == IF i = 0 /\ j = 0 THEN {0} ELSE Garbage

\* localRow * numCols + localCol runs through the vector in row order.
Compute(h) ==
  LET t == task[h]
      RowAt(n) == t.startRow + n \div NumCols(t)
      ColAt(n) == t.startCol + (n % NumCols(t))
  IN  /\ hpc[h] = "compute"
      /\ \E s \in [0 .. NumRows(t) * NumCols(t) - 1 -> {0} \cup Garbage] :
           /\ \A n \in DOMAIN s : s[n] \in Sums(RowAt(n), ColAt(n))
           /\ tile' = [tile EXCEPT ![h] =
                [n \in DOMAIN s |-> [of |-> <<RowAt(n), ColAt(n)>>, sum |-> s[n]]]]
      /\ next' = [next EXCEPT ![h] = <<t.startRow, t.startCol>>]
      /\ hpc' = [hpc EXCEPT ![h] = "store"]
      /\ UNCHANGED <<rows, cols, tasks, task, completed, data, copy, mpc, at>>

\* Mutant: the width of the matrix is taken for the width of the tile.
TileIdxOfMatrix(t, r, c) == (r - t.startRow) * cols + (c - t.startCol)

\* Mutant: the tile is read column by column.
TileIdxTransposed(t, r, c) == (c - t.startCol) * NumRows(t) + (r - t.startRow)

\* tileIdx of processResult.
TileIdx(t, r, c) == (r - t.startRow) * NumCols(t) + (c - t.startCol)

\* One element of the loops of processResult.
StoreElement(h) ==
  LET t == task[h]
      r == next[h][1]
      c == next[h][2]
      endOfRow == c + 1 = t.endCol
  IN  /\ hpc[h] = "store"
      /\ data' = [data EXCEPT ![Index(r, c)] = tile[h][TileIdx(t, r, c)]]
      /\ next' = [next EXCEPT ![h] = IF endOfRow THEN <<r + 1, t.startCol>>
                                     ELSE <<r, c + 1>>]
      /\ hpc' = [hpc EXCEPT ![h] = IF endOfRow /\ r + 1 = t.endRow THEN "bump"
                                   ELSE "store"]
      /\ UNCHANGED <<rows, cols, tasks, task, tile, completed, copy, mpc, at>>

CountCompletion(h) ==
  /\ hpc[h] = "bump"
  /\ completed' = completed + 1
  /\ task' = [task EXCEPT ![h] = NoTask] /\ tile' = [tile EXCEPT ![h] = <<>>]
  /\ hpc' = [hpc EXCEPT ![h] = "idle"]
  /\ UNCHANGED <<rows, cols, tasks, next, data, copy, mpc, at>>

\* Mutant: the main thread goes on when the last task has been handed out.
FindCompleteEarly ==
  /\ mpc = "polling" /\ tasks = <<>>
  /\ mpc' = "copying" /\ copy' = [n \in 0 .. Last |-> Zero]
  /\ UNCHANGED <<rows, cols, tasks, hpc, task, tile, next, completed, data, at>>

\* The main thread finds isComplete true and copies the matrix ...
FindComplete ==
  /\ mpc = "polling" /\ completed >= totalTasks
  /\ mpc' = "copying" /\ copy' = [n \in 0 .. Last |-> Zero]
  /\ UNCHANGED <<rows, cols, tasks, hpc, task, tile, next, completed, data, at>>

\* ... element by element.
CopyElement ==
  /\ mpc = "copying"
  /\ copy' = [copy EXCEPT ![at] = data[at]]
  /\ at' = at + 1
  /\ mpc' = IF at = Last THEN "got" ELSE "copying"
  /\ UNCHANGED <<rows, cols, tasks, hpc, task, tile, next, completed, data>>

Next ==
  \/ FindComplete \/ CopyElement
  \/ \E h \in Handlers : TakeTask(h) \/ Compute(h) \/ StoreElement(h) \/ CountCompletion(h)

Spec == Init /\ [][Next]_vars

-----------------------------------------------------------------------------
\* The element a handler is about to store.
Target(h) == Index(next[h][1], next[h][2])
Storing   == {h \in Handlers : hpc[h] = "store"}

\* Every variable has its type; in particular no task reaches beyond the matrix.
TypeOK ==
  /\ rows \in 1 .. MaxRows /\ cols \in 1 .. MaxCols
  /\ completed \in 0 .. totalTasks /\ at \in 0 .. Last + 1
  /\ mpc \in {"polling", "copying", "got"}
  /\ hpc \in [Handlers -> {"idle", "compute", "store", "bump"}]
  /\ \A h \in Handlers : /\ task[h].endRow <= rows /\ task[h].endCol <= cols
                         /\ hpc[h] # "idle" => NumRows(task[h]) > 0 /\ NumCols(task[h]) > 0
  /\ DOMAIN data = 0 .. Last

\* The unlocked accesses to resultMatrix_ never meet: no two handlers are about
\* to store the same element, and none stores while the main thread copies.
NoRace ==
  /\ \A g, h \in Storing : g # h => Target(g) # Target(h)
  /\ mpc # "polling" => Storing = {}

\* Every access is inside the matrix and inside the tile.
InBounds ==
  \A h \in Storing : /\ Target(h) \in DOMAIN data
                     /\ TileIdx(task[h], next[h][1], next[h][2]) \in DOMAIN tile[h]

\* The tasks of createTiledTasks cover each element of the matrix once.
TilesPartition == Partition(rows, cols)

\* The matrix the main thread gets has at each place the element that some
\* client computed for that place.
ResultPlaced ==
  mpc = "got" => \A r \in 0 .. rows - 1, c \in 0 .. cols - 1 :
                   copy[Index(r, c)].of = <<r, c>>

-----------------------------------------------------------------------------
\* README.md:3: the result is the product of the two matrices.  A run that TLC
\* must refute says less, see MCMatrixJob.
ResultIsProduct ==
  mpc = "got" => \A n \in 0 .. Last : copy[n].sum = Common * Entry * Entry
=============================================================================
