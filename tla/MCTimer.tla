------------------------------ MODULE MCTimer -------------------------------
(***************************************************************************)
(* CPUs, tasks and fibers for the run of Timer.                            *)
(***************************************************************************)
EXTENDS Timer

CONSTANTS c1, t1, u1, o1

Fibers == {1, 2}
Starts == [t \in {t1} |-> 1]

=============================================================================
