---------------------------- MODULE MCMatrixJob ------------------------------
(* Small instances of MatrixJob for TLC: the handlers do the same work, so   *)
(* their permutations are a symmetry.                                        *)
EXTENDS MatrixJob, Strassen, TLC

HandlerSymmetry == Permutations(Handlers)

\* Strassen's multiplication is the product for the sizes that halve evenly down
\* to 1 (testbench.cpp:50-97: quadrants, seven products, and their sums).  The
\* sizes tried are those up to the number of elements of the job.
StrassenOfPowers ==
  \A n \in 1 .. lesser(rows * cols, MaxSize) : PowerOfTwo(n) => Agree[n]

-----------------------------------------------------------------------------
\* testbench.cpp:172-174: "Matrix multiplication results are correct."  The bench
\* asserts it of two products of square matrices, of any size its user asks for:
\* Strassen's, and that of the clients.  Not even one of the two has to be right,
\* which refutes both assertions; the subject of a run that TLC must refute.
BenchFindsOneRight ==
  mpc = "got" /\ rows = cols /\ rows <= MaxSize => Agree[rows] \/ ResultIsProduct
=============================================================================
