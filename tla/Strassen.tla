------------------------------ MODULE Strassen -------------------------------
(***************************************************************************)
(* The two multiplications that src/testbench.cpp compares before it       *)
(* compares them with the result of the clients. A matrix of size n is a   *)
(* function on pairs of 0 .. n - 1; its elements are integers, since no    *)
(* property here is about rounding.                                        *)
(***************************************************************************)
EXTENDS Integers, FiniteSetsExt, Tables

Square(n) == (0 .. n - 1) \X (0 .. n - 1)

BruteForceMultiplication(n, A, B) ==
  Table([ij \in Square(n) |->
     MapThenSumSet(LAMBDA k : A[ij[1], k] * B[k, ij[2]], 0 .. n - 1)])

AddMat(A, B) == Table([ij \in DOMAIN A |-> A[ij] + B[ij]])
Subtract(A, B) == Table([ij \in DOMAIN A |-> A[ij] - B[ij]])

\* A11, A12, A21, A22: of an odd size, the last row and column are in none.
Quadrants(A, h) ==
  [q \in {1, 2} \X {1, 2} |->
     Table([ij \in Square(h) |-> A[ij[1] + (q[1] - 1) * h, ij[2] + (q[2] - 1) * h]])]

\* The factors of M1 .. M7.
Factors(a, b) ==
  << <<AddMat(a[1, 1], a[2, 2]), AddMat(b[1, 1], b[2, 2])>>,
     <<AddMat(a[2, 1], a[2, 2]), b[1, 1]>>,
     <<a[1, 1], Subtract(b[1, 2], b[2, 2])>>,
     <<a[2, 2], Subtract(b[2, 1], b[1, 1])>>,
     <<AddMat(a[1, 1], a[1, 2]), b[2, 2]>>,
     <<Subtract(a[2, 1], a[1, 1]), AddMat(b[1, 1], b[1, 2])>>,
     <<Subtract(a[1, 2], a[2, 2]), AddMat(b[2, 1], b[2, 2])>> >>

\* Mutant: the last product goes to the wrong quadrants.
CombineSwapped(M) ==
  [q \in {1, 2} \X {1, 2} |->
     CASE q = <<1, 1>> -> AddMat(Subtract(AddMat(M[1], M[4]), M[5]), M[6])
       [] q = <<1, 2>> -> AddMat(M[3], M[5])
       [] q = <<2, 1>> -> AddMat(M[2], M[4])
       [] q = <<2, 2>> -> AddMat(Subtract(AddMat(M[1], M[3]), M[2]), M[7])]

\* C11, C12, C21, C22.
Combine(M) ==
  [q \in {1, 2} \X {1, 2} |->
     CASE q = <<1, 1>> -> AddMat(Subtract(AddMat(M[1], M[4]), M[5]), M[7])
       [] q = <<1, 2>> -> AddMat(M[3], M[5])
       [] q = <<2, 1>> -> AddMat(M[2], M[4])
       [] q = <<2, 2>> -> AddMat(Subtract(AddMat(M[1], M[3]), M[2]), M[6])]

\* C, which starts as zeros.
Assemble(n, h, c) ==
  Table([ij \in Square(n) |->
     IF ij[1] < 2 * h /\ ij[2] < 2 * h
       THEN c[ij[1] \div h + 1, ij[2] \div h + 1][ij[1] % h, ij[2] % h] ELSE 0])

RECURSIVE StrassenMultiplication(_, _, _)
StrassenMultiplication(n, A, B) ==
  LET newSize == n \div 2
      factors == Factors(Quadrants(A, newSize), Quadrants(B, newSize))
  IN  IF n <= 2 THEN BruteForceMultiplication(n, A, B)
      ELSE Assemble(n, newSize,
             Combine([m \in 1 .. 7 |->
                        StrassenMultiplication(newSize, factors[m][1], factors[m][2])]))

-----------------------------------------------------------------------------
MaxSize == 6

\* The matrix with a single one. Both multiplications are bilinear for each
\* size, so that pairs of these decide.
Elementary(n, one) == [ij \in Square(n) |-> IF ij = one THEN 1 ELSE 0]

\* Whether the two multiplications are the same function for matrices of size n.
Agree ==
  Table([n \in 1 .. MaxSize |->
     \A p, q \in Square(n) :
       StrassenMultiplication(n, Elementary(n, p), Elementary(n, q))
         = BruteForceMultiplication(n, Elementary(n, p), Elementary(n, q))])

PowerOfTwo(n) == \E k \in 0 .. n : n = 2 ^ k
=============================================================================
