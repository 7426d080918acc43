----------------------------- MODULE MCLibrary ------------------------------
(***************************************************************************)
(* Programs for the run of Library.                                        *)
(***************************************************************************)
EXTENDS Library, TLC

CONSTANTS p1, p2

Programs == {p1, p2}
Symmetry == Permutations(Programs)

=============================================================================
