------------------------------ MODULE MCFibers ------------------------------
(***************************************************************************)
(* Model values and symmetry for the runs of Fibers.                       *)
(***************************************************************************)
EXTENDS FibersProps, TLC

CONSTANTS t1, t2, t3

TwoThreads   == {t1, t2}
ThreeThreads == {t1, t2, t3}

\* The threads other than Main are interchangeable.
OtherThreads == Permutations(Thread \ {Main})

=============================================================================
