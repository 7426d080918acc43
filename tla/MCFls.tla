-------------------------------- MODULE MCFls -------------------------------
(***************************************************************************)
(* Small threads, fibers and values for the run of Fls.                    *)
(***************************************************************************)
EXTENDS Fls, TLC

CONSTANTS t1, t2, f1, f2, f3

Threads   == {t1, t2}
Fibers    == {f1, f2, f3}
TwoValues == {0, 7}

\* Threads are interchangeable, and so are fibers.
Symmetry == Permutations(Threads) \cup Permutations(Fibers)

=============================================================================
