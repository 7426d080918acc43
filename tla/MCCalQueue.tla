----------------------------- MODULE MCCalQueue -----------------------------
(***************************************************************************)
(* Draws of a cell, for the run of CalQueue.                               *)
(***************************************************************************)
EXTENDS CalQueue

Draws == [first : {5, 13}, gap : {1, 7}, burst : {4, 9}, pause : {50},
          odd : {2, 9, 30}, even : {4, 11}]

=============================================================================
