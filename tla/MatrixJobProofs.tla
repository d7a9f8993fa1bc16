--------------------------- MODULE MatrixJobProofs ---------------------------
(* Proofs, checked by TLAPS, about Tiling and MatrixJob for matrices and     *)
(* tiles of any size and any number of handlers: the tiles of                *)
(* createTiledTasks partition the matrix and each of them is in the queue    *)
(* once; the unlocked stores into the result matrix never meet, and each     *)
(* puts an element where it belongs.                                         *)
EXTENDS MatrixJob, FiniteSetTheorems, SequenceTheorems, TLAPS

-----------------------------------------------------------------------------
(* The tiles.                                                                *)

LEMMA Quotient ==
  ASSUME NEW n \in Nat, NEW i \in Nat
  PROVE  i * TileSize <= n /\ n < i * TileSize + TileSize <=> n \div TileSize = i
<1>1. TileSize \in Nat /\ TileSize > 0
  BY TilingAssumption
<1>2. n \div TileSize \in Nat
  BY <1>1
<1>3. (n \div TileSize) * TileSize <= n /\ n < (n \div TileSize) * TileSize + TileSize
  BY <1>1
<1>4. ASSUME NEW q \in Nat, q * TileSize <= n, n < q * TileSize + TileSize,
             NEW p \in Nat, p * TileSize <= n, n < p * TileSize + TileSize
      PROVE  ~(p < q)
  BY <1>1, <1>4
<1> QED BY <1>2, <1>3, <1>4

LEMMA Monotone ==
  ASSUME NEW p \in Nat, NEW q \in Nat, p <= q, NEW t \in Nat
  PROVE  p * t <= q * t
<1>1. (q - p) * t >= 0
  BY q - p \in Nat
<1>2. q * t = p * t + (q - p) * t
  OBVIOUS
<1> QED BY <1>1, <1>2

\* The tile of an element is one of those the loops make.
LEMMA TileInRange ==
  ASSUME NEW m \in Nat, NEW n \in 0 .. m - 1
  PROVE  n \div TileSize \in 0 .. TileCount(m) - 1
<1>1. TileSize \in Nat /\ TileSize > 0
  BY TilingAssumption
<1>2. TileCount(m) \in Nat /\ TileCount(m) * TileSize >= m
  <2>1. m + TileSize - 1 \in Nat
    BY <1>1
  <2>2. m + TileSize - 1 < TileCount(m) * TileSize + TileSize /\ TileCount(m) \in Nat
    <3>1. (m + TileSize - 1) \div TileSize \in Nat
      BY <1>1, <2>1
    <3> QED BY <2>1, <3>1, Quotient DEF TileCount
  <2> QED BY <1>1, <2>2
<1>3. n \div TileSize \in Nat /\ (n \div TileSize) * TileSize <= n
  BY <1>1, Quotient
<1>4. n \div TileSize < TileCount(m)
  <2>1. SUFFICES ASSUME TileCount(m) <= n \div TileSize PROVE FALSE
    BY <1>2, <1>3
  <2>2. TileCount(m) * TileSize <= (n \div TileSize) * TileSize
    BY <1>1, <1>2, <1>3, <2>1, Monotone
  <2>3. TileCount(m) * TileSize \in Nat /\ (n \div TileSize) * TileSize \in Nat
    BY <1>1, <1>2, <1>3
  <2>4. n \in Nat /\ n < m
    OBVIOUS
  <2> HIDE DEF TileCount
  <2> QED BY <1>2, <1>3, <2>2, <2>3, <2>4
<1> QED BY <1>2, <1>3, <1>4

\* Between the bounds of a tile in one dimension.
LEMMA Between ==
  ASSUME NEW m \in Nat, NEW n \in 0 .. m - 1, NEW i \in 0 .. TileCount(m) - 1, TileCount(m) \in Nat
  PROVE  i * TileSize <= n /\ n < TileEnd(i * TileSize, m) <=> n \div TileSize = i
<1>1. TileSize \in Nat /\ i * TileSize \in Nat
  BY TilingAssumption
<1>2. n < TileEnd(i * TileSize, m) <=> n < i * TileSize + TileSize
  BY <1>1 DEF TileEnd, lesser
<1> QED BY <1>2, Quotient

\* Every element of a matrix of any size is in the tile of exactly one round of
\* the loops of createTiledTasks (master.cpp:142-161), and that round is made.
THEOREM PartitionHolds ==
  ASSUME NEW m \in Nat, NEW n \in Nat
  PROVE  Partition(m, n)
<1>1. ASSUME NEW k \in Nat PROVE TileCount(k) \in Nat
  BY TilingAssumption DEF TileCount
<1>2. ASSUME NEW r \in 0 .. m - 1, NEW c \in 0 .. n - 1,
             NEW i \in 0 .. TileCount(m) - 1, NEW j \in 0 .. TileCount(n) - 1
      PROVE  Covers(TileTask(m, n, i, j), r, c) <=> TileOf(r, c) = <<i, j>>
  <2>1. i * TileSize <= r /\ r < TileEnd(i * TileSize, m) <=> r \div TileSize = i
    BY <1>1, Between
  <2>2. j * TileSize <= c /\ c < TileEnd(j * TileSize, n) <=> c \div TileSize = j
    BY <1>1, Between
  <2> QED BY <2>1, <2>2 DEF Covers, TileTask, TileOf
<1>3. \A r \in 0 .. m - 1, c \in 0 .. n - 1 : TileOf(r, c) \in Rounds(m, n)
  BY TileInRange DEF TileOf, Rounds
<1> QED BY <1>2, <1>3 DEF Partition

-----------------------------------------------------------------------------
(* Places in a two-dimensional array that is kept row by row.                *)

LEMMA DivMod ==
  ASSUME NEW n \in Nat \ {0}, NEW k \in Nat
  PROVE  /\ k \div n \in Nat /\ k % n \in 0 .. n - 1
         /\ k = (k \div n) * n + (k % n)
OBVIOUS

LEMMA DivModUnique ==
  ASSUME NEW n \in Nat \ {0}, NEW a \in Nat, NEW b \in 0 .. n - 1
  PROVE  /\ a * n + b \in Nat
         /\ (a * n + b) \div n = a
         /\ (a * n + b) % n = b
<1> DEFINE k == a * n + b
           q == k \div n
<1>1. a * n \in Nat /\ k \in Nat
  OBVIOUS
<1>2. q \in Nat /\ k % n \in 0 .. n - 1 /\ k = q * n + (k % n)
  BY <1>1, DivMod
<1>3. ~(q < a)
  <2>1. SUFFICES ASSUME q + 1 <= a PROVE FALSE
    BY <1>2
  <2>2. (q + 1) * n <= a * n
    BY <1>2, <2>1, Monotone
  <2>3. (q + 1) * n = q * n + n
    BY <1>2
  <2>4. q * n \in Nat
    BY <1>2
  <2> QED BY <1>1, <1>2, <2>2, <2>3, <2>4
<1>4. ~(a < q)
  <2>1. SUFFICES ASSUME a + 1 <= q PROVE FALSE
    BY <1>2
  <2>2. (a + 1) * n <= q * n
    BY <1>2, <2>1, Monotone
  <2>3. (a + 1) * n = a * n + n
    OBVIOUS
  <2>4. q * n \in Nat
    BY <1>2
  <2> QED BY <1>1, <1>2, <2>2, <2>3, <2>4
<1>5. q = a
  BY <1>2, <1>3, <1>4
<1> QED BY <1>1, <1>2, <1>5

\* r * n + c is the place of (r, c), and of no other pair, in an array m x n.
LEMMA PlaceInRange ==
  ASSUME NEW m \in Nat, NEW n \in Nat \ {0}, NEW r \in 0 .. m - 1, NEW c \in 0 .. n - 1
  PROVE  r * n + c \in 0 .. m * n - 1
<1>1. (r + 1) * n <= m * n
  BY Monotone
<1>2. (r + 1) * n = r * n + n /\ r * n \in Nat /\ m * n \in Nat
  OBVIOUS
<1> QED BY <1>1, <1>2

LEMMA PlaceUnique ==
  ASSUME NEW n \in Nat \ {0}, NEW r \in Nat, NEW c \in 0 .. n - 1,
         NEW s \in Nat, NEW d \in 0 .. n - 1, r * n + c = s * n + d
  PROVE  r = s /\ c = d
<1>1. (r * n + c) \div n = r /\ (r * n + c) % n = c
  BY DivModUnique
<1>2. (s * n + d) \div n = s /\ (s * n + d) % n = d
  BY DivModUnique
<1> QED BY <1>1, <1>2

LEMMA RowInRange ==
  ASSUME NEW m \in Nat, NEW n \in Nat \ {0}, NEW k \in 0 .. m * n - 1
  PROVE  k \div n \in 0 .. m - 1 /\ k % n \in 0 .. n - 1
<1>1. k \in Nat /\ m * n \in Nat
  OBVIOUS
<1>2. k \div n \in Nat /\ k % n \in 0 .. n - 1 /\ k = (k \div n) * n + (k % n)
  BY <1>1, DivMod
<1>3. k \div n < m
  <2>1. SUFFICES ASSUME m <= k \div n PROVE FALSE
    BY <1>2
  <2>2. m * n <= (k \div n) * n
    BY <1>2, <2>1, Monotone
  <2>3. (k \div n) * n \in Nat
    BY <1>2
  <2> QED BY <1>1, <1>2, <2>2, <2>3
<1> QED BY <1>2, <1>3

-----------------------------------------------------------------------------
(* The tasks of the queue.                                                   *)

LEMMA TileCountNat ==
  ASSUME NEW m \in Nat \ {0}
  PROVE  TileCount(m) \in Nat \ {0}
<1>1. TileSize \in Nat \ {0} /\ m + TileSize - 1 \in Nat
  BY TilingAssumption
<1>2. TileCount(m) \in Nat
  BY <1>1, DivMod DEF TileCount
<1>3. 0 \in 0 .. m - 1 /\ 0 \div TileSize \in 0 .. TileCount(m) - 1
  BY TileInRange
<1> QED BY <1>2, <1>3

\* A tile is not empty and ends with the matrix at the latest.
LEMMA TileSpan ==
  ASSUME NEW m \in Nat \ {0}, NEW i \in 0 .. TileCount(m) - 1
  PROVE  /\ i * TileSize \in Nat /\ TileEnd(i * TileSize, m) \in Nat
         /\ i * TileSize < TileEnd(i * TileSize, m) /\ TileEnd(i * TileSize, m) <= m
<1>1. TileSize \in Nat \ {0} /\ m + TileSize - 1 \in Nat
  BY TilingAssumption
<1>2. TileCount(m) \in Nat \ {0}
  BY TileCountNat
<1>3. i * TileSize \in Nat
  BY <1>1, <1>2
<1>4. TileCount(m) * TileSize <= m + TileSize - 1
  BY <1>1, <1>2, Quotient DEF TileCount
<1>5. i * TileSize < m
  <2>1. i + 1 \in Nat /\ i + 1 <= TileCount(m)
    BY <1>2
  <2>2. (i + 1) * TileSize <= TileCount(m) * TileSize
    BY <1>1, <1>2, <2>1, Monotone
  <2>3. (i + 1) * TileSize = i * TileSize + TileSize
    BY <1>1, <1>2
  <2>4. TileCount(m) * TileSize \in Nat
    BY <1>1, <1>2
  <2> HIDE DEF TileCount
  <2> QED BY <1>1, <1>3, <1>4, <2>2, <2>3, <2>4
<1> QED BY <1>1, <1>3, <1>5 DEF TileEnd, lesser

\* The round of the k-th task.
LEMMA QueueRound ==
  ASSUME NEW m \in Nat \ {0}, NEW n \in Nat \ {0},
         NEW k \in 1 .. TileCount(m) * TileCount(n)
  PROVE  \E i \in 0 .. TileCount(m) - 1, j \in 0 .. TileCount(n) - 1 :
           k - 1 = i * TileCount(n) + j /\ TaskQueue(m, n)[k] = TileTask(m, n, i, j)
<1> DEFINE i == (k - 1) \div TileCount(n)
           j == (k - 1) % TileCount(n)
<1>1. TileCount(m) \in Nat \ {0} /\ TileCount(n) \in Nat \ {0}
  BY TileCountNat
<1>2. TaskQueue(m, n)[k] = TileTask(m, n, i, j)
  BY DEF TaskQueue
<1> HIDE DEF TileCount
<1>3. TileCount(m) * TileCount(n) \in Nat
  BY <1>1
<1>4. k - 1 \in 0 .. TileCount(m) * TileCount(n) - 1 /\ k - 1 \in Nat
  BY <1>3
<1>5. i \in 0 .. TileCount(m) - 1 /\ j \in 0 .. TileCount(n) - 1
  BY <1>1, <1>4, RowInRange
<1>6. k - 1 = i * TileCount(n) + j
  BY <1>1, <1>4, DivMod
<1> QED BY <1>2, <1>5, <1>6

TileTasks == [taskId : Int, startRow : Int, endRow : Int, startCol : Int, endCol : Int]

\* Every task of the queue is a tile within the matrix, with its place as its number.
LEMMA QueueTask ==
  ASSUME NEW m \in Nat \ {0}, NEW n \in Nat \ {0},
         NEW k \in 1 .. TileCount(m) * TileCount(n),
         NEW t, t = TaskQueue(m, n)[k]
  PROVE  /\ t \in TileTasks /\ t.taskId = k - 1
         /\ 0 <= t.startRow /\ t.startRow < t.endRow /\ t.endRow <= m
         /\ 0 <= t.startCol /\ t.startCol < t.endCol /\ t.endCol <= n
<1>1. PICK i \in 0 .. TileCount(m) - 1, j \in 0 .. TileCount(n) - 1 :
         k - 1 = i * TileCount(n) + j /\ t = TileTask(m, n, i, j)
  BY QueueRound
<1>2. /\ t.taskId = i * TileCount(n) + j
      /\ t.startRow = i * TileSize /\ t.endRow = TileEnd(i * TileSize, m)
      /\ t.startCol = j * TileSize /\ t.endCol = TileEnd(j * TileSize, n)
  BY <1>1 DEF TileTask
<1>3. TileCount(m) \in Nat \ {0} /\ TileCount(n) \in Nat \ {0}
  BY TileCountNat
<1>4. k - 1 \in Int
  BY <1>3
<1>5. /\ i * TileSize \in Nat /\ TileEnd(i * TileSize, m) \in Nat
      /\ i * TileSize < TileEnd(i * TileSize, m) /\ TileEnd(i * TileSize, m) <= m
  BY TileSpan
<1>6. /\ j * TileSize \in Nat /\ TileEnd(j * TileSize, n) \in Nat
      /\ j * TileSize < TileEnd(j * TileSize, n) /\ TileEnd(j * TileSize, n) <= n
  BY TileSpan
<1>7. t \in TileTasks
  <2>1. t = [taskId |-> k - 1, startRow |-> i * TileSize, endRow |-> TileEnd(i * TileSize, m),
             startCol |-> j * TileSize, endCol |-> TileEnd(j * TileSize, n)]
    BY <1>1 DEF TileTask
  <2> QED BY <1>4, <1>5, <1>6, <2>1 DEF TileTasks
<1> QED BY <1>1, <1>2, <1>5, <1>6, <1>7

\* No element is in two tasks of the queue ...
LEMMA QueueDisjoint ==
  ASSUME NEW m \in Nat \ {0}, NEW n \in Nat \ {0},
         NEW k \in 1 .. TileCount(m) * TileCount(n),
         NEW l \in 1 .. TileCount(m) * TileCount(n),
         NEW r \in 0 .. m - 1, NEW c \in 0 .. n - 1,
         Covers(TaskQueue(m, n)[k], r, c), Covers(TaskQueue(m, n)[l], r, c)
  PROVE  k = l
<1>1. PICK i \in 0 .. TileCount(m) - 1, j \in 0 .. TileCount(n) - 1 :
         k - 1 = i * TileCount(n) + j /\ TaskQueue(m, n)[k] = TileTask(m, n, i, j)
  BY QueueRound
<1>2. PICK p \in 0 .. TileCount(m) - 1, q \in 0 .. TileCount(n) - 1 :
         l - 1 = p * TileCount(n) + q /\ TaskQueue(m, n)[l] = TileTask(m, n, p, q)
  BY QueueRound
<1>3. TileOf(r, c) = <<i, j>> /\ TileOf(r, c) = <<p, q>>
  BY <1>1, <1>2, PartitionHolds DEF Partition
<1>4. i = p /\ j = q
  BY <1>3
<1>5. k - 1 = l - 1
  BY <1>1, <1>2, <1>4
<1>6. TileCount(m) * TileCount(n) \in Nat
  BY TileCountNat
<1> QED BY <1>5, <1>6

\* ... and every element is in one.
LEMMA QueueCovers ==
  ASSUME NEW m \in Nat \ {0}, NEW n \in Nat \ {0}, NEW r \in 0 .. m - 1, NEW c \in 0 .. n - 1
  PROVE  \E k \in 1 .. TileCount(m) * TileCount(n) : Covers(TaskQueue(m, n)[k], r, c)
<1> DEFINE i == r \div TileSize
           j == c \div TileSize
           k == i * TileCount(n) + j + 1
<1>1. i \in 0 .. TileCount(m) - 1 /\ j \in 0 .. TileCount(n) - 1
  BY TileInRange
<1>2. TileCount(m) \in Nat \ {0} /\ TileCount(n) \in Nat \ {0}
  BY TileCountNat
<1>3. Covers(TileTask(m, n, i, j), r, c)
  BY <1>1, PartitionHolds DEF Partition, TileOf
<1> HIDE DEF i, j, TileCount
<1>4. i * TileCount(n) + j \in 0 .. TileCount(m) * TileCount(n) - 1
  BY <1>1, <1>2, PlaceInRange
<1>5. TileCount(m) * TileCount(n) \in Nat /\ i * TileCount(n) + j \in Int
  BY <1>1, <1>2
<1>6. k \in 1 .. TileCount(m) * TileCount(n) /\ k - 1 = i * TileCount(n) + j
  BY <1>4, <1>5
<1>7. (k - 1) \div TileCount(n) = i /\ (k - 1) % TileCount(n) = j
  <2>1. i \in Nat
    BY <1>1, <1>2
  <2>2. (i * TileCount(n) + j) \div TileCount(n) = i /\ (i * TileCount(n) + j) % TileCount(n) = j
    BY <1>1, <1>2, <2>1, DivModUnique
  <2> HIDE DEF k
  <2> QED BY <1>6, <2>2
<1>8. TaskQueue(m, n)[k] = TileTask(m, n, i, j)
  BY <1>6, <1>7 DEF TaskQueue
<1> QED BY <1>3, <1>6, <1>8

-----------------------------------------------------------------------------
(* The elements of a job.                                                    *)

Queue == TaskQueue(rows, cols)
Taken == totalTasks - Len(tasks)   \* how many tasks have been handed out
Busy  == {h \in Handlers : hpc[h] # "idle"}
Cell(r, c) == r \in 0 .. rows - 1 /\ c \in 0 .. cols - 1

Sizes == rows \in 1 .. MaxRows /\ cols \in 1 .. MaxCols

Types ==
  /\ tasks \in Seq(TileTasks) /\ completed \in Nat
  /\ hpc \in [Handlers -> {"idle", "compute", "store", "bump"}]
  /\ task \in [Handlers -> TileTasks] /\ DOMAIN tile = Handlers
  /\ next \in [Handlers -> Int \X Int]
  /\ DOMAIN data = 0 .. Last
  /\ mpc \in {"polling", "copying", "got"} /\ at \in Nat

\* taskQueue_ holds the end of the queue that createTiledTasks made.
QueueIsRest ==
  /\ Len(tasks) <= totalTasks
  /\ \A i \in 1 .. Len(tasks) : tasks[i] = Queue[Taken + i]

\* A handler at work has a task that was handed out, and nobody else has it.
TasksHeld ==
  /\ \A h \in Busy : /\ task[h].taskId \in 0 .. Taken - 1
                     /\ task[h] = Queue[task[h].taskId + 1]
  /\ \A h \in Handlers \ Busy : task[h].endRow = 0 /\ task[h].endCol = 0
  /\ \A g, h \in Busy : g # h => task[g].taskId # task[h].taskId

\* What was handed out is counted or held: completed reaches totalTasks only
\* when the last handler has stored its tile.
Counted == completed + Cardinality(Busy) = Taken

\* A handler that stores is inside its tile, and the vector it reads has the
\* tile row by row.
TilesFilled ==
  \A h \in Storing :
    LET t == task[h]
    IN  /\ Covers(t, next[h][1], next[h][2])
        /\ DOMAIN tile[h] = 0 .. NumRows(t) * NumCols(t) - 1
        /\ \A n \in DOMAIN tile[h] : tile[h][n].of =
             <<t.startRow + n \div NumCols(t), t.startCol + (n % NumCols(t))>>

\* The loops of handler h have passed the element.
Passed(h, r, c) == r < next[h][1] \/ (r = next[h][1] /\ c < next[h][2])

\* The element is still to be stored: its task is queued, or held by a handler
\* that has not come to it yet.
ToStore(h, r, c) == /\ Covers(task[h], r, c)
                    /\ hpc[h] = "compute" \/ (hpc[h] = "store" /\ ~Passed(h, r, c))
Ahead(r, c) == \/ \E i \in 1 .. Len(tasks) : Covers(tasks[i], r, c)
               \/ \E h \in Handlers : ToStore(h, r, c)

Stored(r, c) == data[Index(r, c)].of = <<r, c>>

StoredOrAhead == \A r, c : Cell(r, c) => Ahead(r, c) \/ Stored(r, c)

\* What the main thread has copied is as it is in resultMatrix_.
CopyFollows ==
  /\ mpc = "polling" => at = 0
  /\ mpc # "polling" => /\ completed >= totalTasks /\ DOMAIN copy = 0 .. Last
                        /\ \A n \in 0 .. at - 1 : copy[n] = data[n]
  /\ mpc = "copying" => at \in 0 .. Last
  /\ mpc = "got" => at = Last + 1

\* The parts about the tasks, and those about the elements.
TaskInv == Sizes /\ Types /\ QueueIsRest /\ TasksHeld /\ Counted
JobInv  == TaskInv /\ TilesFilled /\ StoredOrAhead /\ CopyFollows

-----------------------------------------------------------------------------
(* The tasks.                                                                *)

LEMMA SizeFacts ==
  ASSUME Sizes
  PROVE  /\ rows \in Nat \ {0} /\ cols \in Nat \ {0}
         /\ TileCount(rows) \in Nat \ {0} /\ TileCount(cols) \in Nat \ {0}
         /\ totalTasks \in Nat \ {0} /\ Last \in Nat
<1>1. rows \in Nat \ {0} /\ cols \in Nat \ {0}
  BY JobAssumption DEF Sizes
<1>2. TileCount(rows) \in Nat \ {0} /\ TileCount(cols) \in Nat \ {0}
  BY <1>1, TileCountNat
<1>3. TileCount(rows) * TileCount(cols) \in Nat \ {0}
  BY <1>2
<1>4. rows * cols \in Nat \ {0}
  BY <1>1
<1> QED BY <1>1, <1>2, <1>3, <1>4 DEF totalTasks, Last

LEMMA BusyFinite ==
  /\ IsFiniteSet(Busy) /\ Cardinality(Busy) \in Nat
  /\ Cardinality(Busy) = 0 <=> Busy = {}
<1>1. IsFiniteSet(Busy)
  BY JobAssumption, FS_Subset DEF Busy
<1> QED BY <1>1, FS_CardinalityType, FS_EmptySet

\* The tile of a handler at work is within the matrix and not empty.
LEMMA HeldTask ==
  ASSUME TaskInv, NEW h \in Busy
  PROVE  /\ task[h].taskId + 1 \in 1 .. totalTasks
         /\ task[h] = Queue[task[h].taskId + 1]
         /\ 0 <= task[h].startRow /\ task[h].startRow < task[h].endRow /\ task[h].endRow <= rows
         /\ 0 <= task[h].startCol /\ task[h].startCol < task[h].endCol /\ task[h].endCol <= cols
         /\ task[h] \in TileTasks
<1> DEFINE k == task[h].taskId + 1
<1>1. /\ rows \in Nat \ {0} /\ cols \in Nat \ {0} /\ totalTasks \in Nat
      /\ Len(tasks) \in Nat
  BY SizeFacts, LenProperties DEF TaskInv, Types
<1>2. task[h].taskId \in 0 .. Taken - 1 /\ task[h] = Queue[k]
  BY DEF TaskInv, TasksHeld
<1>3. k \in 1 .. totalTasks
  BY <1>1, <1>2 DEF Taken
<1>4. k \in 1 .. TileCount(rows) * TileCount(cols)
  BY <1>3 DEF totalTasks
<1> HIDE DEF k
<1>5. /\ task[h] \in TileTasks
      /\ 0 <= task[h].startRow /\ task[h].startRow < task[h].endRow /\ task[h].endRow <= rows
      /\ 0 <= task[h].startCol /\ task[h].startCol < task[h].endCol /\ task[h].endCol <= cols
  BY <1>1, <1>2, <1>4, QueueTask DEF Queue
<1> QED BY <1>2, <1>3, <1>5 DEF k

\* No two handlers at work have an element in common.
LEMMA HeldApart ==
  ASSUME TaskInv, NEW g \in Busy, NEW h \in Busy, g # h,
         NEW r, NEW c, Cell(r, c), Covers(task[g], r, c), Covers(task[h], r, c)
  PROVE  FALSE
<1>1. /\ task[g].taskId + 1 \in 1 .. totalTasks /\ task[g] = Queue[task[g].taskId + 1]
      /\ task[h].taskId + 1 \in 1 .. totalTasks /\ task[h] = Queue[task[h].taskId + 1]
      /\ task[g].taskId \in Int /\ task[h].taskId \in Int
  BY HeldTask DEF TileTasks
<1>2. rows \in Nat \ {0} /\ cols \in Nat \ {0}
  BY SizeFacts DEF TaskInv
<1>3. task[g].taskId + 1 = task[h].taskId + 1
  BY <1>1, <1>2, QueueDisjoint DEF Queue, totalTasks, Cell
<1> QED BY <1>1, <1>3 DEF TaskInv, TasksHeld

LEMMA InitTasks == Init => TaskInv
<1> SUFFICES ASSUME Init PROVE TaskInv
  OBVIOUS
<1>1. Sizes
  BY DEF Init, Sizes
<1>2. /\ rows \in Nat \ {0} /\ cols \in Nat \ {0} /\ totalTasks \in Nat
  BY <1>1, SizeFacts
<1>3. tasks = Queue /\ Queue = [k \in 1 .. totalTasks |-> Queue[k]]
  BY DEF Init, Queue, TaskQueue, totalTasks
<1>4. \A k \in 1 .. totalTasks : Queue[k] \in TileTasks
  BY <1>2, QueueTask DEF Queue, totalTasks
<1>5. tasks \in [1 .. totalTasks -> TileTasks]
  BY <1>3, <1>4
<1>6. tasks \in Seq(TileTasks) /\ Len(tasks) = totalTasks
  BY <1>2, <1>5
<1>7. Types
  <2>1. NoTask \in TileTasks
    BY DEF NoTask, TileTasks
  <2> QED BY <1>6, <2>1 DEF Init, Types
<1>8. QueueIsRest
  BY <1>2, <1>3, <1>6 DEF QueueIsRest, Taken
<1>9. Busy = {}
  BY DEF Init, Busy
<1>10. TasksHeld
  BY <1>9 DEF Init, TasksHeld, NoTask
<1>11. Counted
  BY <1>2, <1>6, <1>9, BusyFinite DEF Init, Counted, Taken
<1> QED BY <1>1, <1>7, <1>8, <1>10, <1>11 DEF TaskInv

LEMMA TakeTasks ==
  ASSUME TaskInv, NEW h \in Handlers, TakeTask(h)
  PROVE  /\ TaskInv' /\ Queue' = Queue
         /\ Len(tasks) > 0 /\ Len(tasks') = Len(tasks) - 1
         /\ \A i \in 1 .. Len(tasks') : tasks'[i] = tasks[i + 1]
         /\ task'[h] = tasks[1] /\ hpc'[h] = "compute" /\ hpc[h] = "idle"
         /\ \A g \in Handlers \ {h} : task'[g] = task[g] /\ hpc'[g] = hpc[g]
<1>1. /\ hpc[h] = "idle" /\ tasks # <<>> /\ tasks' = Tail(tasks)
      /\ task' = [task EXCEPT ![h] = Head(tasks)]
      /\ hpc' = [hpc EXCEPT ![h] = "compute"]
      /\ UNCHANGED <<rows, cols, tile, next, completed, data, copy, mpc, at>>
  BY DEF TakeTask
<1>2. tasks \in Seq(TileTasks)
  BY DEF TaskInv, Types
<1>3. /\ Head(tasks) \in TileTasks /\ tasks' \in Seq(TileTasks)
      /\ Len(tasks') = Len(tasks) - 1 /\ Len(tasks) \in Nat /\ Len(tasks) > 0
      /\ Head(tasks) = tasks[1]
      /\ \A i \in 1 .. Len(tasks') : tasks'[i] = tasks[i + 1]
  BY <1>1, <1>2, HeadTailProperties, EmptySeq, LenProperties
<1>4. /\ task'[h] = tasks[1] /\ hpc'[h] = "compute"
      /\ \A g \in Handlers \ {h} : task'[g] = task[g] /\ hpc'[g] = hpc[g]
  BY <1>1, <1>3 DEF TaskInv, Types
<1>5. Queue' = Queue /\ totalTasks' = totalTasks /\ totalTasks \in Nat /\ Sizes'
      /\ Last' = Last
  BY <1>1, SizeFacts DEF TaskInv, Sizes, Queue, totalTasks, Last
<1>6. Taken \in Nat /\ Taken' = Taken + 1 /\ Taken + 1 <= totalTasks
  BY <1>3, <1>5 DEF Taken, TaskInv, QueueIsRest
<1>7. Types'
  BY <1>1, <1>3, <1>5 DEF TaskInv, Types
<1>8. QueueIsRest'
  <2>1. \A i \in 1 .. Len(tasks') : tasks'[i] = Queue[Taken + (i + 1)]
    BY <1>3 DEF TaskInv, QueueIsRest
  <2>2. \A i \in 1 .. Len(tasks') : Taken + (i + 1) = Taken' + i
    BY <1>6
  <2> QED BY <1>3, <1>5, <2>1, <2>2 DEF TaskInv, QueueIsRest
<1>9. Busy' = Busy \cup {h} /\ h \notin Busy
  BY <1>1, <1>4 DEF Busy
<1>10. tasks[1] = Queue[Taken + 1] /\ tasks[1].taskId = Taken
  <2>1. tasks[1] = Queue[Taken + 1]
    BY <1>3 DEF TaskInv, QueueIsRest
  <2>2. Taken + 1 \in 1 .. TileCount(rows) * TileCount(cols) /\ rows \in Nat \ {0} /\ cols \in Nat \ {0}
    BY <1>6, <1>5, SizeFacts DEF TaskInv, totalTasks
  <2>3. tasks[1].taskId = (Taken + 1) - 1
    BY <2>1, <2>2, QueueTask DEF Queue
  <2> QED BY <1>6, <2>1, <2>3
<1>11. TasksHeld'
  <2>1. ASSUME NEW g \in Busy'
        PROVE  task'[g].taskId \in 0 .. Taken' - 1 /\ task'[g] = Queue'[task'[g].taskId + 1]
    <3>1. CASE g = h
      BY <1>4, <1>5, <1>6, <1>10, <3>1
    <3>2. CASE g # h
      <4>1. g \in Busy /\ task'[g] = task[g]
        BY <1>4, <1>9, <2>1, <3>2 DEF Busy
      <4> QED BY <1>5, <1>6, <4>1 DEF TaskInv, TasksHeld
    <3> QED BY <3>1, <3>2
  <2>2. \A g \in Busy : g # h /\ task'[g] = task[g] /\ task[g].taskId \in 0 .. Taken - 1
    BY <1>4, <1>9 DEF TaskInv, TasksHeld, Busy
  <2>3. \A g \in Busy : task'[g].taskId # task'[h].taskId
    BY <1>4, <1>6, <1>10, <2>2
  <2>4. \A f, g \in Busy' : f # g => task'[f].taskId # task'[g].taskId
    BY <1>9, <2>2, <2>3 DEF TaskInv, TasksHeld
  <2>5. \A g \in Handlers \ Busy' : task'[g].endRow = 0 /\ task'[g].endCol = 0
    BY <1>4, <1>9 DEF TaskInv, TasksHeld
  <2> QED BY <2>1, <2>4, <2>5 DEF TasksHeld
<1>12. Counted'
  <2>1. Cardinality(Busy') = Cardinality(Busy) + 1
    BY <1>9, BusyFinite, FS_AddElement
  <2> QED BY <1>1, <1>6, <2>1, BusyFinite DEF TaskInv, Types, Counted
<1> QED BY <1>1, <1>3, <1>4, <1>5, <1>7, <1>8, <1>11, <1>12 DEF TaskInv

\* A step that hands out nothing and frees nobody.
LEMMA SameTasks ==
  ASSUME TaskInv, UNCHANGED <<rows, cols, tasks, task, completed>>,
         Types', \A h \in Handlers : hpc'[h] = "idle" <=> hpc[h] = "idle"
  PROVE  TaskInv'
<1>1. Busy' = Busy
  BY DEF Busy
<1>2. Queue' = Queue /\ totalTasks' = totalTasks /\ Taken' = Taken /\ Sizes'
  BY DEF Queue, totalTasks, Taken, TaskInv, Sizes
<1> QED BY <1>1, <1>2 DEF TaskInv, QueueIsRest, TasksHeld, Counted

LEMMA CountTasks ==
  ASSUME TaskInv, NEW h \in Handlers, CountCompletion(h)
  PROVE  TaskInv'
<1>1. /\ hpc[h] = "bump" /\ completed' = completed + 1
      /\ task' = [task EXCEPT ![h] = NoTask] /\ tile' = [tile EXCEPT ![h] = <<>>]
      /\ hpc' = [hpc EXCEPT ![h] = "idle"]
      /\ UNCHANGED <<rows, cols, tasks, next, data, copy, mpc, at>>
  BY DEF CountCompletion
<1>2. /\ task'[h] = NoTask /\ hpc'[h] = "idle"
      /\ \A g \in Handlers \ {h} : task'[g] = task[g] /\ hpc'[g] = hpc[g]
  BY <1>1 DEF TaskInv, Types
<1>3. Queue' = Queue /\ totalTasks' = totalTasks /\ Taken' = Taken /\ Sizes' /\ Last' = Last
  BY <1>1 DEF Queue, totalTasks, Taken, TaskInv, Sizes, Last
<1>4. Types'
  BY <1>1, <1>3 DEF TaskInv, Types, NoTask, TileTasks
<1>5. QueueIsRest'
  BY <1>1, <1>3 DEF TaskInv, QueueIsRest
<1>6. Busy' = Busy \ {h} /\ h \in Busy
  BY <1>1, <1>2 DEF Busy
<1>7. TasksHeld'
  <2>1. \A g \in Busy' : g \in Busy /\ g # h /\ task'[g] = task[g]
    BY <1>2, <1>6 DEF Busy
  <2>2. \A g \in Handlers \ Busy' : task'[g].endRow = 0 /\ task'[g].endCol = 0
    <3>1. NoTask.endRow = 0 /\ NoTask.endCol = 0
      BY DEF NoTask
    <3> QED BY <1>2, <1>6, <3>1 DEF TaskInv, TasksHeld
  <2> QED BY <1>3, <2>1, <2>2 DEF TaskInv, TasksHeld
<1>8. Counted'
  <2>1. Cardinality(Busy') = Cardinality(Busy) - 1
    BY <1>6, BusyFinite, FS_RemoveElement
  <2> QED BY <1>1, <1>3, <2>1, BusyFinite DEF TaskInv, Types, Counted
<1> QED BY <1>3, <1>4, <1>5, <1>7, <1>8 DEF TaskInv

-----------------------------------------------------------------------------
(* The elements.                                                             *)

LEMMA CellPlace ==
  ASSUME Sizes, NEW r, NEW c, Cell(r, c)
  PROVE  /\ Index(r, c) \in 0 .. Last
         /\ \A s, d : Cell(s, d) /\ Index(s, d) = Index(r, c) => s = r /\ d = c
<1>1. rows \in Nat \ {0} /\ cols \in Nat \ {0} /\ Last \in Nat
  BY SizeFacts
<1>2. Index(r, c) \in 0 .. Last
  BY <1>1, PlaceInRange DEF Cell, Index, Last
<1>3. ASSUME NEW s, NEW d, Cell(s, d), Index(s, d) = Index(r, c)
      PROVE  s = r /\ d = c
  <2>1. /\ r \in Nat /\ c \in 0 .. cols - 1 /\ s \in Nat /\ d \in 0 .. cols - 1
        /\ s * cols + d = r * cols + c
    BY <1>1, <1>3 DEF Cell, Index
  <2> QED BY <1>1, <2>1, PlaceUnique
<1> QED BY <1>2, <1>3

\* Where an element is in the vector of its tile.
LEMMA TilePlace ==
  ASSUME TaskInv, NEW h \in Busy, NEW r \in Int, NEW c \in Int, Covers(task[h], r, c)
  PROVE  LET t == task[h]
             n == TileIdx(t, r, c)
         IN  /\ Cell(r, c)
             /\ n \in 0 .. NumRows(t) * NumCols(t) - 1
             /\ t.startRow + n \div NumCols(t) = r /\ t.startCol + (n % NumCols(t)) = c
<1> DEFINE t == task[h]
           i == r - t.startRow
           j == c - t.startCol
<1>1. /\ 0 <= t.startRow /\ t.startRow < t.endRow /\ t.endRow <= rows
      /\ 0 <= t.startCol /\ t.startCol < t.endCol /\ t.endCol <= cols
      /\ t.startRow \in Int /\ t.endRow \in Int /\ t.startCol \in Int /\ t.endCol \in Int
  BY HeldTask DEF TileTasks
<1>2. /\ t.startRow <= r /\ r < t.endRow /\ t.startCol <= c /\ c < t.endCol
  BY DEF Covers
<1>3. rows \in Nat /\ cols \in Nat
  BY SizeFacts DEF TaskInv
<1> HIDE DEF t
<1>4. /\ NumRows(t) \in Nat /\ NumCols(t) \in Nat \ {0}
      /\ i \in 0 .. NumRows(t) - 1 /\ j \in 0 .. NumCols(t) - 1 /\ i \in Nat
  BY <1>1, <1>2 DEF NumRows, NumCols
<1>5. TileIdx(t, r, c) = i * NumCols(t) + j
  BY DEF TileIdx
<1>6. TileIdx(t, r, c) \in 0 .. NumRows(t) * NumCols(t) - 1
  BY <1>4, <1>5, PlaceInRange
<1>7. TileIdx(t, r, c) \div NumCols(t) = i /\ TileIdx(t, r, c) % NumCols(t) = j
  <2> HIDE DEF i, j
  <2>1. (i * NumCols(t) + j) \div NumCols(t) = i /\ (i * NumCols(t) + j) % NumCols(t) = j
    BY <1>4, DivModUnique
  <2> QED BY <1>5, <2>1
<1>8. t.startRow + i = r /\ t.startCol + j = c
  BY <1>1
<1>9. Cell(r, c)
  BY <1>1, <1>2, <1>3 DEF Cell
<1> QED BY <1>6, <1>7, <1>8, <1>9 DEF t

\* The element a handler is about to store.
LEMMA StorePlace ==
  ASSUME TaskInv, TilesFilled, NEW h \in Storing
  PROVE  LET t == task[h]
             r == next[h][1]
             c == next[h][2]
         IN  /\ h \in Busy /\ r \in Int /\ c \in Int /\ Covers(t, r, c) /\ Cell(r, c)
             /\ TileIdx(t, r, c) \in DOMAIN tile[h]
             /\ tile[h][TileIdx(t, r, c)].of = <<r, c>>
<1> DEFINE t == task[h]
           r == next[h][1]
           c == next[h][2]
<1>1. h \in Handlers /\ h \in Busy /\ r \in Int /\ c \in Int
  BY DEF Storing, Busy, TaskInv, Types
<1>2. /\ Covers(t, r, c) /\ DOMAIN tile[h] = 0 .. NumRows(t) * NumCols(t) - 1
      /\ \A n \in DOMAIN tile[h] : tile[h][n].of =
             <<t.startRow + n \div NumCols(t), t.startCol + (n % NumCols(t))>>
  BY DEF TilesFilled
<1> HIDE DEF r, c
<1>3. /\ Cell(r, c) /\ TileIdx(t, r, c) \in DOMAIN tile[h]
      /\ t.startRow + TileIdx(t, r, c) \div NumCols(t) = r
      /\ t.startCol + (TileIdx(t, r, c) % NumCols(t)) = c
  BY <1>1, <1>2, TilePlace
<1>4. tile[h][TileIdx(t, r, c)].of = <<r, c>>
  BY <1>2, <1>3
<1> QED BY <1>1, <1>2, <1>3, <1>4 DEF r, c

\* When every task is counted nobody is at work and nothing is queued.
LEMMA AllCounted ==
  ASSUME TaskInv, completed >= totalTasks
  PROVE  Busy = {} /\ Len(tasks) = 0 /\ Storing = {} /\ completed = totalTasks
<1>1. /\ totalTasks \in Nat /\ completed \in Nat /\ Cardinality(Busy) \in Nat
      /\ Len(tasks) \in Nat
  BY SizeFacts, BusyFinite, LenProperties DEF TaskInv, Types
<1>2. completed + Cardinality(Busy) = totalTasks - Len(tasks)
  BY DEF TaskInv, Counted, Taken
<1>3. Cardinality(Busy) = 0 /\ Len(tasks) = 0 /\ completed = totalTasks
  BY <1>1, <1>2
<1> QED BY <1>3, BusyFinite DEF Busy, Storing

LEMMA InitJob == Init => JobInv
<1> SUFFICES ASSUME Init PROVE JobInv
  OBVIOUS
<1>1. TaskInv
  BY InitTasks
<1>2. /\ rows \in Nat \ {0} /\ cols \in Nat \ {0} /\ totalTasks \in Nat
  BY <1>1, SizeFacts DEF TaskInv
<1>3. tasks = [k \in 1 .. totalTasks |-> Queue[k]] /\ Len(tasks) = totalTasks
  <2>1. tasks = [k \in 1 .. totalTasks |-> Queue[k]]
    BY DEF Init, Queue, TaskQueue, totalTasks
  <2> QED BY <1>2, <2>1
<1>4. ASSUME NEW r, NEW c, Cell(r, c)
      PROVE  Ahead(r, c)
  <2>1. PICK k \in 1 .. totalTasks : Covers(Queue[k], r, c)
    BY <1>2, <1>4, QueueCovers DEF Queue, totalTasks, Cell
  <2> QED BY <1>3, <2>1 DEF Ahead
<1>5. TilesFilled /\ CopyFollows
  BY DEF Init, TilesFilled, Storing, CopyFollows
<1> QED BY <1>1, <1>4, <1>5 DEF JobInv, StoredOrAhead

LEMMA TakeJob ==
  ASSUME JobInv, NEW h \in Handlers, TakeTask(h)
  PROVE  JobInv'
<1>1. /\ TaskInv' /\ Len(tasks) > 0 /\ Len(tasks') = Len(tasks) - 1
      /\ \A i \in 1 .. Len(tasks') : tasks'[i] = tasks[i + 1]
      /\ task'[h] = tasks[1] /\ hpc'[h] = "compute" /\ hpc[h] = "idle"
      /\ \A g \in Handlers \ {h} : task'[g] = task[g] /\ hpc'[g] = hpc[g]
  BY TakeTasks DEF JobInv
<1>2. UNCHANGED <<rows, cols, tile, next, completed, data, copy, mpc, at>>
  BY DEF TakeTask
<1>3. Len(tasks) \in Nat
  BY LenProperties DEF JobInv, TaskInv, Types
<1>4. TilesFilled'
  <2>1. Storing' = Storing /\ \A g \in Storing : task'[g] = task[g]
    BY <1>1 DEF Storing
  <2> QED BY <1>2, <2>1 DEF JobInv, TilesFilled
<1>5. ASSUME NEW r, NEW c, Ahead(r, c)
      PROVE  Ahead(r, c)'
  <2>1. ASSUME NEW i \in 1 .. Len(tasks), Covers(tasks[i], r, c)
        PROVE  Ahead(r, c)'
    <3>1. CASE i = 1
      <4>1. Covers(task'[h], r, c)
        BY <1>1, <2>1, <3>1
      <4> QED BY <1>1, <4>1 DEF Ahead, ToStore, Covers
    <3>2. CASE i # 1
      <4>1. i - 1 \in 1 .. Len(tasks') /\ tasks'[i - 1] = tasks[i]
        BY <1>1, <1>3, <3>2
      <4>2. Covers(tasks'[i - 1], r, c)
        BY <2>1, <4>1
      <4> QED BY <4>1, <4>2 DEF Ahead, Covers
    <3> QED BY <3>1, <3>2
  <2>2. ASSUME NEW g \in Handlers, ToStore(g, r, c)
        PROVE  Ahead(r, c)'
    <3>1. g # h
      BY <1>1, <2>2 DEF ToStore
    <3>2. ToStore(g, r, c)'
      BY <1>1, <1>2, <2>2, <3>1 DEF ToStore, Passed, Covers
    <3> QED BY <3>2 DEF Ahead
  <2> QED BY <1>5, <2>1, <2>2 DEF Ahead
<1>6. StoredOrAhead'
  BY <1>2, <1>5 DEF JobInv, StoredOrAhead, Stored, Cell, Index
<1>7. CopyFollows'
  BY <1>2 DEF JobInv, CopyFollows, totalTasks, Last
<1> QED BY <1>1, <1>4, <1>6, <1>7 DEF JobInv

LEMMA ComputeJob ==
  ASSUME JobInv, NEW h \in Handlers, Compute(h)
  PROVE  JobInv'
<1> DEFINE t == task[h]
<1>1. /\ hpc[h] = "compute" /\ hpc' = [hpc EXCEPT ![h] = "store"]
      /\ next' = [next EXCEPT ![h] = <<t.startRow, t.startCol>>]
      /\ UNCHANGED <<rows, cols, tasks, task, completed, data, copy, mpc, at>>
  BY DEF Compute
<1>2. /\ hpc'[h] = "store" /\ next'[h] = <<t.startRow, t.startCol>>
      /\ \A g \in Handlers \ {h} : hpc'[g] = hpc[g] /\ next'[g] = next[g]
  BY <1>1 DEF JobInv, TaskInv, Types
<1>3. /\ h \in Busy /\ 0 <= t.startRow /\ t.startRow < t.endRow /\ t.endRow <= rows
      /\ 0 <= t.startCol /\ t.startCol < t.endCol /\ t.endCol <= cols /\ t \in TileTasks
      /\ t.startRow \in Int /\ t.endRow \in Int /\ t.startCol \in Int /\ t.endCol \in Int
  BY <1>1, HeldTask DEF JobInv, Busy, TileTasks
<1>4. PICK s \in [0 .. NumRows(t) * NumCols(t) - 1 -> {0} \cup Garbage] :
        tile' = [tile EXCEPT ![h] =
                  [n \in DOMAIN s |-> [of |-> <<t.startRow + n \div NumCols(t),
                                                t.startCol + (n % NumCols(t))>>,
                                       sum |-> s[n]]]]
  BY DEF Compute
<1>5. DOMAIN s = 0 .. NumRows(t) * NumCols(t) - 1
  OBVIOUS
<1>6. /\ DOMAIN tile' = Handlers
      /\ tile'[h] = [n \in 0 .. NumRows(t) * NumCols(t) - 1 |->
                       [of |-> <<t.startRow + n \div NumCols(t),
                                 t.startCol + (n % NumCols(t))>>, sum |-> s[n]]]
      /\ \A g \in Handlers \ {h} : tile'[g] = tile[g]
  BY <1>4, <1>5 DEF JobInv, TaskInv, Types
<1>7. Last' = Last
  BY <1>1 DEF Last
<1>8. Types'
  BY <1>1, <1>3, <1>6, <1>7 DEF JobInv, TaskInv, Types
<1>9. TaskInv'
  <2>1. \A g \in Handlers : hpc'[g] = "idle" <=> hpc[g] = "idle"
    BY <1>1, <1>2
  <2> QED BY <1>1, <1>8, <2>1, SameTasks DEF JobInv
<1>10. TilesFilled'
  <2>1. ASSUME NEW g \in Storing'
        PROVE  /\ Covers(task'[g], next'[g][1], next'[g][2])
               /\ DOMAIN tile'[g] = 0 .. NumRows(task'[g]) * NumCols(task'[g]) - 1
               /\ \A n \in DOMAIN tile'[g] : tile'[g][n].of =
                    <<task'[g].startRow + n \div NumCols(task'[g]),
                      task'[g].startCol + (n % NumCols(task'[g]))>>
    <3>1. CASE g = h
      <4>1. Covers(t, t.startRow, t.startCol)
        BY <1>3 DEF Covers
      <4>2. task'[g] = t /\ next'[g][1] = t.startRow /\ next'[g][2] = t.startCol
        BY <1>1, <1>2, <3>1
      <4> QED BY <1>6, <3>1, <4>1, <4>2
    <3>2. CASE g # h
      <4>1. /\ g \in Storing /\ task'[g] = task[g] /\ next'[g] = next[g] /\ tile'[g] = tile[g]
        BY <1>1, <1>2, <1>6, <2>1, <3>2 DEF Storing
      <4> QED BY <4>1 DEF JobInv, TilesFilled
    <3> QED BY <3>1, <3>2
  <2> QED BY <2>1 DEF TilesFilled, Covers, NumRows, NumCols
<1>11. ASSUME NEW r, NEW c, Cell(r, c), Ahead(r, c)
       PROVE  Ahead(r, c)'
  <2>1. CASE \E i \in 1 .. Len(tasks) : Covers(tasks[i], r, c)
    BY <1>1, <2>1 DEF Ahead, Covers
  <2>2. ASSUME NEW g \in Handlers, ToStore(g, r, c)
        PROVE  ToStore(g, r, c)'
    <3>1. CASE g = h
      <4>1. /\ next'[h][1] = t.startRow /\ next'[h][2] = t.startCol
            /\ t.startRow <= r /\ t.startCol <= c
        BY <1>2, <2>2, <3>1 DEF ToStore, Covers
      <4>2. r \in Int /\ c \in Int
        BY <1>11 DEF Cell
      <4>3. ~(r < t.startRow \/ (r = t.startRow /\ c < t.startCol))
        BY <1>3, <4>1, <4>2
      <4>4. ~Passed(h, r, c)'
        BY <4>1, <4>3 DEF Passed
      <4> QED BY <1>1, <1>2, <2>2, <3>1, <4>4 DEF ToStore, Covers
    <3>2. CASE g # h
      BY <1>1, <1>2, <2>2, <3>2 DEF ToStore, Passed, Covers
    <3> QED BY <3>1, <3>2
  <2> QED BY <1>11, <2>1, <2>2 DEF Ahead
<1>12. StoredOrAhead'
  BY <1>1, <1>11 DEF JobInv, StoredOrAhead, Stored, Cell, Index
<1>13. CopyFollows'
  BY <1>1 DEF JobInv, CopyFollows, totalTasks, Last
<1> QED BY <1>9, <1>10, <1>12, <1>13 DEF JobInv

\* One element is stored at its place, and the loops go on to the next of the tile.
LEMMA StoreJob ==
  ASSUME JobInv, NEW h \in Handlers, StoreElement(h)
  PROVE  JobInv'
<1> DEFINE t == task[h]
           r == next[h][1]
           c == next[h][2]
           endOfRow == c + 1 = t.endCol
           v == tile[h][TileIdx(t, r, c)]
<1>1. /\ hpc[h] = "store"
      /\ data' = [data EXCEPT ![Index(r, c)] = v]
      /\ next' = [next EXCEPT ![h] = IF endOfRow THEN <<r + 1, t.startCol>> ELSE <<r, c + 1>>]
      /\ hpc' = [hpc EXCEPT ![h] = IF endOfRow /\ r + 1 = t.endRow THEN "bump" ELSE "store"]
      /\ UNCHANGED <<rows, cols, tasks, task, tile, completed, copy, mpc, at>>
  BY DEF StoreElement
<1>2. h \in Storing /\ h \in Busy
  BY <1>1 DEF Storing, Busy
<1>3. /\ r \in Int /\ c \in Int /\ Covers(t, r, c) /\ Cell(r, c) /\ v.of = <<r, c>>
  BY <1>2, StorePlace DEF JobInv
<1>4. /\ 0 <= t.startRow /\ t.startRow < t.endRow /\ t.endRow <= rows
      /\ 0 <= t.startCol /\ t.startCol < t.endCol /\ t.endCol <= cols
      /\ t.startRow \in Int /\ t.endRow \in Int /\ t.startCol \in Int /\ t.endCol \in Int
  BY <1>2, HeldTask DEF JobInv, TileTasks
<1>5. t.startRow <= r /\ r < t.endRow /\ t.startCol <= c /\ c < t.endCol
  BY <1>3 DEF Covers
<1>6. Index(r, c) \in 0 .. Last /\ DOMAIN data = 0 .. Last /\ Last' = Last
  BY <1>1, <1>3, CellPlace DEF JobInv, TaskInv, Types, Last
<1>7. /\ DOMAIN data' = 0 .. Last /\ data'[Index(r, c)] = v
      /\ \A n \in 0 .. Last : n # Index(r, c) => data'[n] = data[n]
  BY <1>1, <1>6
<1>8. /\ hpc'[h] = IF endOfRow /\ r + 1 = t.endRow THEN "bump" ELSE "store"
      /\ next'[h] = IF endOfRow THEN <<r + 1, t.startCol>> ELSE <<r, c + 1>>
      /\ \A g \in Handlers \ {h} : hpc'[g] = hpc[g] /\ next'[g] = next[g]
  BY <1>1 DEF JobInv, TaskInv, Types
<1> HIDE DEF r, c, v
<1>9. Types'
  <2>1. next' \in [Handlers -> Int \X Int]
    BY <1>1, <1>3, <1>4 DEF JobInv, TaskInv, Types
  <2>2. hpc' \in [Handlers -> {"idle", "compute", "store", "bump"}]
    BY <1>1 DEF JobInv, TaskInv, Types
  <2> QED BY <1>1, <1>6, <1>7, <2>1, <2>2 DEF JobInv, TaskInv, Types
<1>10. TaskInv'
  <2>1. \A g \in Handlers : hpc'[g] = "idle" <=> hpc[g] = "idle"
    BY <1>1, <1>8
  <2> QED BY <1>1, <1>9, <2>1, SameTasks DEF JobInv
<1>11. TilesFilled'
  <2>1. ASSUME NEW g \in Storing'
        PROVE  /\ g \in Storing /\ Covers(task[g], next'[g][1], next'[g][2])
    <3>1. CASE g = h
      <4>1. CASE endOfRow
        <5>1. next'[g][1] = r + 1 /\ next'[g][2] = t.startCol /\ r + 1 # t.endRow
          BY <1>8, <2>1, <3>1, <4>1 DEF Storing
        <5>2. r + 1 < t.endRow
          BY <1>3, <1>4, <1>5, <5>1
        <5>3. t.startRow <= r + 1
          BY <1>3, <1>4, <1>5
        <5>4. t.startCol <= t.startCol
          BY <1>4
        <5> QED BY <1>2, <1>4, <3>1, <5>1, <5>2, <5>3, <5>4 DEF Covers
      <4>2. CASE ~endOfRow
        <5>1. next'[g][1] = r /\ next'[g][2] = c + 1
          BY <1>8, <3>1, <4>2
        <5>2. c + 1 < t.endCol /\ t.startCol <= c + 1
          BY <1>3, <1>4, <1>5, <4>2
        <5> QED BY <1>2, <1>5, <3>1, <5>1, <5>2 DEF Covers
      <4> QED BY <4>1, <4>2
    <3>2. CASE g # h
      BY <1>8, <2>1, <3>2 DEF JobInv, TilesFilled, Storing
    <3> QED BY <3>1, <3>2
  <2> QED BY <1>1, <2>1 DEF JobInv, TilesFilled, Covers, NumRows, NumCols
<1>12. ASSUME NEW p, NEW q, Cell(p, q), Ahead(p, q), ~(p = r /\ q = c)
       PROVE  Ahead(p, q)'
  <2>1. CASE \E i \in 1 .. Len(tasks) : Covers(tasks[i], p, q)
    BY <1>1, <2>1 DEF Ahead, Covers
  <2>2. ASSUME NEW g \in Handlers, ToStore(g, p, q)
        PROVE  ToStore(g, p, q)'
    <3>1. CASE g = h
      <4>1. /\ t.startRow <= p /\ p < t.endRow /\ t.startCol <= q /\ q < t.endCol
            /\ ~(p < r \/ (p = r /\ q < c)) /\ p \in Int /\ q \in Int
        BY <1>1, <1>12, <2>2, <3>1 DEF ToStore, Covers, Passed, Cell, r, c
      <4>2. CASE endOfRow
        <5>1. r < p
          BY <1>3, <1>4, <1>5, <1>12, <4>1, <4>2
        <5>2. r + 1 # t.endRow /\ ~(p < r + 1 \/ (p = r + 1 /\ q < t.startCol))
          BY <1>3, <1>4, <4>1, <5>1
        <5>3. hpc'[h] = "store" /\ next'[h][1] = r + 1 /\ next'[h][2] = t.startCol
          BY <1>8, <4>2, <5>2
        <5> QED BY <1>1, <2>2, <3>1, <5>2, <5>3 DEF ToStore, Covers, Passed
      <4>3. CASE ~endOfRow
        <5>1. ~(p < r \/ (p = r /\ q < c + 1))
          BY <1>3, <1>12, <4>1
        <5>2. hpc'[h] = "store" /\ next'[h][1] = r /\ next'[h][2] = c + 1
          BY <1>8, <4>3
        <5> QED BY <1>1, <2>2, <3>1, <5>1, <5>2 DEF ToStore, Covers, Passed
      <4> QED BY <4>2, <4>3
    <3>2. CASE g # h
      BY <1>1, <1>8, <2>2, <3>2 DEF ToStore, Passed, Covers
    <3> QED BY <3>1, <3>2
  <2> QED BY <1>12, <2>1, <2>2 DEF Ahead
<1>13. ASSUME NEW p, NEW q, Cell(p, q), Ahead(p, q) \/ Stored(p, q)
       PROVE  Ahead(p, q)' \/ Stored(p, q)'
  <2>1. Index(p, q)' = Index(p, q)
    BY <1>1 DEF Index
  <2>2. CASE p = r /\ q = c
    <3>1. data'[Index(p, q)].of = <<p, q>>
      BY <1>3, <1>7, <2>2
    <3> QED BY <2>1, <3>1 DEF Stored
  <2>3. CASE ~(p = r /\ q = c)
    <3>1. Index(p, q) \in 0 .. Last /\ Index(p, q) # Index(r, c)
      BY <1>3, <1>13, <2>3, CellPlace DEF JobInv, TaskInv
    <3>2. data'[Index(p, q)] = data[Index(p, q)]
      BY <1>7, <3>1
    <3>3. Stored(p, q) => Stored(p, q)'
      BY <2>1, <3>2 DEF Stored
    <3> QED BY <1>12, <1>13, <2>3, <3>3
  <2> QED BY <2>2, <2>3
<1>14. StoredOrAhead'
  <2>1. \A p, q : Cell(p, q)' <=> Cell(p, q)
    BY <1>1 DEF Cell
  <2> QED BY <1>13, <2>1 DEF JobInv, StoredOrAhead
<1>15. CopyFollows'
  <2>1. mpc = "polling"
    BY <1>2, AllCounted DEF JobInv, CopyFollows
  <2> QED BY <1>1, <2>1 DEF JobInv, CopyFollows
<1> QED BY <1>10, <1>11, <1>14, <1>15 DEF JobInv

LEMMA CountJob ==
  ASSUME JobInv, NEW h \in Handlers, CountCompletion(h)
  PROVE  JobInv'
<1>1. /\ hpc[h] = "bump" /\ completed' = completed + 1
      /\ task' = [task EXCEPT ![h] = NoTask] /\ tile' = [tile EXCEPT ![h] = <<>>]
      /\ hpc' = [hpc EXCEPT ![h] = "idle"]
      /\ UNCHANGED <<rows, cols, tasks, next, data, copy, mpc, at>>
  BY DEF CountCompletion
<1>2. /\ hpc'[h] = "idle"
      /\ \A g \in Handlers \ {h} : task'[g] = task[g] /\ hpc'[g] = hpc[g] /\ tile'[g] = tile[g]
  BY <1>1 DEF JobInv, TaskInv, Types
<1>3. TaskInv'
  BY CountTasks DEF JobInv
<1>4. TilesFilled'
  <2>1. \A g \in Storing' : g \in Storing /\ task'[g] = task[g] /\ tile'[g] = tile[g]
    BY <1>2 DEF Storing
  <2> QED BY <1>1, <2>1 DEF JobInv, TilesFilled
<1>5. ASSUME NEW p, NEW q, Ahead(p, q)
      PROVE  Ahead(p, q)'
  <2>1. ASSUME NEW g \in Handlers, ToStore(g, p, q)
        PROVE  ToStore(g, p, q)'
    BY <1>1, <1>2, <2>1 DEF ToStore, Passed, Covers
  <2> QED BY <1>1, <1>5, <2>1 DEF Ahead, Covers
<1>6. StoredOrAhead'
  BY <1>1, <1>5 DEF JobInv, StoredOrAhead, Stored, Cell, Index
<1>7. CopyFollows'
  <2>1. h \in Busy
    BY <1>1 DEF Busy
  <2>2. mpc = "polling"
    BY <2>1, AllCounted DEF JobInv, CopyFollows
  <2> QED BY <1>1, <2>2 DEF JobInv, CopyFollows
<1> QED BY <1>3, <1>4, <1>6, <1>7 DEF JobInv

\* The steps of the main thread change nothing that the handlers use.
LEMMA MainJob ==
  ASSUME JobInv, UNCHANGED <<rows, cols, tasks, hpc, task, tile, next, completed, data>>,
         mpc' \in {"polling", "copying", "got"}, at' \in Nat, CopyFollows'
  PROVE  JobInv'
<1>1. Types'
  BY DEF JobInv, TaskInv, Types, Last
<1>2. TaskInv'
  BY <1>1, SameTasks DEF JobInv
<1>3. TilesFilled'
  BY DEF JobInv, TilesFilled, Storing
<1>4. StoredOrAhead'
  BY DEF JobInv, StoredOrAhead, Ahead, ToStore, Passed, Stored, Cell, Index, Covers
<1> QED BY <1>2, <1>3, <1>4 DEF JobInv

LEMMA JobStep == JobInv /\ [Next]_vars => JobInv'
<1> SUFFICES ASSUME JobInv, [Next]_vars PROVE JobInv'
  OBVIOUS
<1>1. ASSUME NEW h \in Handlers,
             TakeTask(h) \/ Compute(h) \/ StoreElement(h) \/ CountCompletion(h)
      PROVE  JobInv'
  BY <1>1, TakeJob, ComputeJob, StoreJob, CountJob
<1>2. Last \in Nat /\ at \in Nat
  BY SizeFacts DEF JobInv, TaskInv, Types
<1>3. CASE FindComplete
  <2>1. /\ mpc = "polling" /\ completed >= totalTasks /\ mpc' = "copying"
        /\ copy' = [n \in 0 .. Last |-> Zero]
        /\ UNCHANGED <<rows, cols, tasks, hpc, task, tile, next, completed, data, at>>
    BY <1>3 DEF FindComplete
  <2>2. at = 0
    BY <2>1 DEF JobInv, CopyFollows
  <2>3. Last' = Last /\ totalTasks' = totalTasks
    BY <2>1 DEF Last, totalTasks
  <2>4. CopyFollows'
    BY <1>2, <2>1, <2>2, <2>3 DEF CopyFollows
  <2> QED BY <1>2, <2>1, <2>4, MainJob
<1>4. CASE CopyElement
  <2>1. /\ mpc = "copying" /\ copy' = [copy EXCEPT ![at] = data[at]] /\ at' = at + 1
        /\ mpc' = IF at = Last THEN "got" ELSE "copying"
        /\ UNCHANGED <<rows, cols, tasks, hpc, task, tile, next, completed, data>>
    BY <1>4 DEF CopyElement
  <2>2. /\ at \in 0 .. Last /\ completed >= totalTasks /\ DOMAIN copy = 0 .. Last
        /\ \A n \in 0 .. at - 1 : copy[n] = data[n]
    BY <2>1 DEF JobInv, CopyFollows
  <2>3. Last' = Last /\ totalTasks' = totalTasks
    BY <2>1 DEF Last, totalTasks
  <2>4. DOMAIN copy' = 0 .. Last /\ \A n \in 0 .. at : copy'[n] = data[n]
    <3>1. DOMAIN copy' = 0 .. Last /\ copy'[at] = data[at]
      BY <2>1, <2>2
    <3>2. \A n \in 0 .. at : n # at => n \in 0 .. at - 1 /\ n \in 0 .. Last
      BY <1>2, <2>2
    <3>3. \A n \in 0 .. Last : n # at => copy'[n] = copy[n]
      BY <2>1, <2>2
    <3> QED BY <2>2, <3>1, <3>2, <3>3
  <2>5. CopyFollows'
    BY <1>2, <2>1, <2>2, <2>3, <2>4 DEF CopyFollows
  <2> QED BY <1>2, <2>1, <2>5, MainJob
<1>5. CASE UNCHANGED vars
  <2>1. CopyFollows'
    BY <1>5 DEF vars, JobInv, CopyFollows, totalTasks, Last
  <2> QED BY <1>2, <1>5, <2>1, MainJob DEF vars, JobInv, TaskInv, Types
<1> QED BY <1>1, <1>3, <1>4, <1>5 DEF Next

LEMMA JobInvariant == Spec => []JobInv
BY InitJob, JobStep, PTL DEF Spec

-----------------------------------------------------------------------------
\* In every run the tasks of the job cover each element of the result once.
THEOREM JobPartition == Spec => []TilesPartition
<1>1. JobInv => TilesPartition
  <2> SUFFICES ASSUME JobInv PROVE TilesPartition
    OBVIOUS
  <2>1. rows \in Nat /\ cols \in Nat
    BY SizeFacts DEF JobInv, TaskInv
  <2> QED BY <2>1, PartitionHolds DEF TilesPartition
<1> QED BY JobInvariant, <1>1, PTL

\* Every variable keeps its type; completed never exceeds totalTasks and no task
\* reaches beyond the matrix.
THEOREM JobType == Spec => []TypeOK
<1>1. JobInv => TypeOK
  <2> SUFFICES ASSUME JobInv PROVE TypeOK
    OBVIOUS
  <2>1. rows \in Nat \ {0} /\ cols \in Nat \ {0} /\ totalTasks \in Nat /\ Last \in Nat
    BY SizeFacts DEF JobInv, TaskInv
  <2>2. completed \in 0 .. totalTasks
    <3>1. completed \in Nat /\ Len(tasks) \in Nat
      BY LenProperties DEF JobInv, TaskInv, Types
    <3>2. completed + Cardinality(Busy) = totalTasks - Len(tasks)
      BY DEF JobInv, TaskInv, Counted, Taken
    <3> QED BY <2>1, <3>1, <3>2, BusyFinite
  <2>3. at \in 0 .. Last + 1
    BY <2>1 DEF JobInv, CopyFollows, TaskInv, Types
  <2>4. ASSUME NEW h \in Handlers
        PROVE  /\ task[h].endRow <= rows /\ task[h].endCol <= cols
               /\ hpc[h] # "idle" => NumRows(task[h]) > 0 /\ NumCols(task[h]) > 0
    <3>1. CASE h \in Busy
      BY <3>1, HeldTask DEF JobInv, NumRows, NumCols, TileTasks
    <3>2. CASE h \notin Busy
      BY <2>1, <3>2 DEF JobInv, TaskInv, TasksHeld, Busy
    <3> QED BY <3>1, <3>2
  <2> QED BY <2>2, <2>3, <2>4 DEF TypeOK, JobInv, TaskInv, Types, Sizes
<1> QED BY JobInvariant, <1>1, PTL

\* The unlocked accesses to resultMatrix_ never meet: no two handlers are ever
\* about to store the same element, and none stores once the main thread copies
\* (master.cpp:101-109, 339-362).
THEOREM JobNoRace == Spec => []NoRace
<1>1. JobInv => NoRace
  <2> SUFFICES ASSUME JobInv PROVE NoRace
    OBVIOUS
  <2>1. ASSUME NEW g \in Storing, NEW h \in Storing, g # h, Target(g) = Target(h)
        PROVE  FALSE
    <3> DEFINE r == next[g][1]
               c == next[g][2]
    <3>1. g \in Busy /\ Cell(r, c) /\ Covers(task[g], r, c)
      BY StorePlace DEF JobInv
    <3>2. /\ h \in Busy /\ Cell(next[h][1], next[h][2])
          /\ Covers(task[h], next[h][1], next[h][2])
      BY StorePlace DEF JobInv
    <3>3. next[h][1] = r /\ next[h][2] = c
      BY <2>1, <3>1, <3>2, CellPlace DEF JobInv, TaskInv, Target
    <3>4. Covers(task[h], r, c)
      BY <3>2, <3>3
    <3> HIDE DEF r, c
    <3> QED BY <2>1, <3>1, <3>2, <3>4, HeldApart DEF JobInv
  <2>2. mpc # "polling" => Storing = {}
    BY AllCounted DEF JobInv, CopyFollows
  <2> QED BY <2>1, <2>2 DEF NoRace
<1> QED BY JobInvariant, <1>1, PTL

\* Every store is inside the matrix and reads inside the tile of its client.
THEOREM JobInBounds == Spec => []InBounds
<1>1. JobInv => InBounds
  <2> SUFFICES ASSUME JobInv, NEW h \in Storing
               PROVE  /\ Target(h) \in DOMAIN data
                      /\ TileIdx(task[h], next[h][1], next[h][2]) \in DOMAIN tile[h]
    BY DEF InBounds
  <2>1. /\ Cell(next[h][1], next[h][2])
        /\ TileIdx(task[h], next[h][1], next[h][2]) \in DOMAIN tile[h]
    BY StorePlace DEF JobInv
  <2>2. Target(h) \in 0 .. Last
    BY <2>1, CellPlace DEF JobInv, TaskInv, Target
  <2> QED BY <2>1, <2>2 DEF JobInv, TaskInv, Types
<1> QED BY JobInvariant, <1>1, PTL

\* In the matrix the main thread gets, every element is the one that some client
\* computed for that place: none is missing, moved or left over.
THEOREM JobPlaced == Spec => []ResultPlaced
<1>1. JobInv => ResultPlaced
  <2> SUFFICES ASSUME JobInv, mpc = "got", NEW r \in 0 .. rows - 1, NEW c \in 0 .. cols - 1
               PROVE  copy[Index(r, c)].of = <<r, c>>
    BY DEF ResultPlaced
  <2>1. Cell(r, c)
    BY DEF Cell
  <2>2. Busy = {} /\ Len(tasks) = 0
    BY AllCounted DEF JobInv, CopyFollows
  <2>3. ~Ahead(r, c)
    BY <2>2 DEF Ahead, ToStore, Busy
  <2>4. data[Index(r, c)].of = <<r, c>>
    BY <2>1, <2>3 DEF JobInv, StoredOrAhead, Stored
  <2>5. Index(r, c) \in 0 .. Last
    BY <2>1, CellPlace DEF JobInv, TaskInv
  <2>6. copy[Index(r, c)] = data[Index(r, c)]
    <3>1. Last \in Nat
      BY SizeFacts DEF JobInv, TaskInv
    <3>2. at = Last + 1 /\ \A n \in 0 .. at - 1 : copy[n] = data[n]
      BY DEF JobInv, CopyFollows
    <3> QED BY <2>5, <3>1, <3>2
  <2> QED BY <2>4, <2>6
<1> QED BY JobInvariant, <1>1, PTL
=============================================================================
