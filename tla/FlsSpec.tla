------------------------------ MODULE FlsSpec -------------------------------
(***************************************************************************)
(* What fiber-local storage promises: every fiber has a map of its own     *)
(* from the indices it has allocated to values, and each call is one       *)
(* atomic operation on the map of the fiber that the calling thread runs.  *)
(* The value of an index is unspecified between its allocation and the     *)
(* first FlsSetValue.                                                      *)
(***************************************************************************)
EXTENDS Integers

CONSTANTS
  Thread, FiberId, NoFiber,
  MAX_FLS_POINTERS,  \* the number of indices a fiber has
  Value              \* the values that are stored

Index == 0..(MAX_FLS_POINTERS - 1)

VARIABLES
  run,    \* run[t]: the fiber thread t runs
  store,  \* store[f]: the map of fiber f
  ret     \* ret[t]: what the last call of thread t returned

vars == <<run, store, ret>>

Empty == [i \in {} |-> 0]

Returns(t, r) == ret' = [ret EXCEPT ![t] = r]

Init ==
  /\ run = [t \in Thread |-> NoFiber]
  /\ store = [f \in FiberId |-> Empty]
  /\ ret = [t \in Thread |-> 0]

\* Threads move between fibers; a fiber that is created starts with an empty
\* map.  The map of a fiber that some thread runs does not change here.
Move ==
  /\ run' \in [Thread -> FiberId \cup {NoFiber}]
  /\ \E new \in SUBSET {f \in FiberId : \A t \in Thread : run[t] # f} :
       store' = [f \in FiberId |-> IF f \in new THEN Empty ELSE store[f]]
  /\ UNCHANGED ret

\* A thread that runs no fiber has no storage.
Refused(t) ==
  /\ run[t] = NoFiber
  /\ \E r \in {-1, 0, ret[t]} : Returns(t, r)
  /\ UNCHANGED <<run, store>>

\* Some index that is not in use, or -1 when all are.
FlsAlloc(t) ==
  LET m == store[run[t]]
      free == Index \ DOMAIN m
  IN
  /\ run[t] # NoFiber
  /\ \/ \E i \in free, v \in Value :
          /\ store' = [store EXCEPT ![run[t]] =
                         [j \in DOMAIN m \cup {i} |-> IF j = i THEN v ELSE m[j]]]
          /\ Returns(t, i)
     \/ free = {} /\ Returns(t, -1) /\ UNCHANGED store
  /\ UNCHANGED run

\* True (1) exactly when the index was in use.
FlsFree(t, i) ==
  LET m == store[run[t]]
  IN
  /\ run[t] # NoFiber
  /\ store' = [store EXCEPT ![run[t]] = [j \in DOMAIN m \ {i} |-> m[j]]]
  /\ Returns(t, IF i \in DOMAIN m THEN 1 ELSE 0)
  /\ UNCHANGED run

FlsGetValue(t, i) ==
  /\ run[t] # NoFiber
  /\ Returns(t, IF i \in DOMAIN store[run[t]] THEN store[run[t]][i] ELSE -1)
  /\ UNCHANGED <<run, store>>

\* A value for an index that is not in use is dropped.
FlsSetValue(t, i, v) ==
  /\ run[t] # NoFiber
  /\ store' = [store EXCEPT ![run[t]] =
                 [j \in DOMAIN @ |-> IF j = i THEN v ELSE @[j]]]
  /\ UNCHANGED <<run, ret>>

Next ==
  \/ Move
  \/ \E t \in Thread :
       \/ Refused(t)
       \/ FlsAlloc(t)
       \/ \E i \in -1..MAX_FLS_POINTERS :
            \/ FlsFree(t, i)
            \/ FlsGetValue(t, i)
            \/ \E v \in Value : FlsSetValue(t, i, v)

Spec == Init /\ [][Next]_vars

=============================================================================
