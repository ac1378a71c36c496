------------------------------- MODULE MCSched -------------------------------
\* Two Ps; one thread more than goroutines: one that runs, one in a system call
\* and one that is on its way to park or started again.
EXTENDS Sched, TLC

Symmetry == Permutations(Ms)
=============================================================================
