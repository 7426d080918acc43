---------------------------- MODULE MCFiberTable ----------------------------
(***************************************************************************)
(* Threads and readers for the run of FiberTable.                          *)
(***************************************************************************)
EXTENDS FiberTable, TLC

CONSTANTS t1, t2, r1

Threads  == {t1, t2}
Readers  == {r1}
Symmetry == Permutations(Threads)

=============================================================================
