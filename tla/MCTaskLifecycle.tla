-------------------------- MODULE MCTaskLifecycle --------------------------
EXTENDS TaskLifecycle, TLC
CONSTANTS c0, c1
\* The CPUs are interchangeable here.
Symmetry == Permutations(CPUs)
=============================================================================
