------------------------------- MODULE Tables -------------------------------
EXTENDS TLC

\* f itself. TLC computes its values here, once, to compare them, where it would
\* otherwise evaluate the expression that defines f wherever f is applied.
Table(f) == CHOOSE table \in {f} : table = f
=============================================================================
