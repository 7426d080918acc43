----------------------------- MODULE MCProcDir ------------------------------
(***************************************************************************)
(* Readers for the runs of ProcDir.                                        *)
(***************************************************************************)
EXTENDS ProcDir, TLC

CONSTANTS r1, r2

Readers  == {r1, r2}
Symmetry == Permutations(Readers)

=============================================================================
