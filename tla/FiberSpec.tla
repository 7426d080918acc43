----------------------------- MODULE FiberSpec ------------------------------
(***************************************************************************)
(* What the fibers of a process promise to the code that uses them,        *)
(* whatever implements them: a fiber is run by one thread at a time, it    *)
(* makes progress only while a thread runs it, a thread that switches to   *)
(* it continues it where it stopped, whichever thread ran it before, and   *)
(* the fibers live until the last thread that runs one leaves.             *)
(*                                                                         *)
(* Conversion, creation, switching and leaving are atomic here; a switch   *)
(* to a fiber that some thread runs is refused and changes nothing.        *)
(***************************************************************************)
EXTENDS Naturals

CONSTANTS
  Thread,   \* the threads that may run fibers
  FiberId,  \* the fibers there may be
  NoFiber,  \* what a thread that is no fiber runs; not in FiberId
  Phases    \* working code cycles through the phases 1..Phases

VARIABLES
  run,   \* run[t]: the fiber thread t runs
  fibs,  \* the fibers that exist
  ctx    \* ctx[f]: the code of fiber f and the phase it has reached

vars == <<run, fibs, ctx>>

NextPhase(p) == IF p < Phases THEN p + 1 ELSE 1

\* Where a fiber that has not run yet stands.
Entry == [f \in FiberId |-> [code |-> f, phase |-> 0]]

Init ==
  /\ run = [t \in Thread |-> NoFiber]
  /\ fibs = {}
  /\ ctx = Entry

\* The code of thread t becomes a new fiber, which t runs; it may have
\* worked before.
Convert(t, f) ==
  /\ run[t] = NoFiber
  /\ f \notin fibs
  /\ fibs' = fibs \cup {f}
  /\ run' = [run EXCEPT ![t] = f]
  /\ \E p \in 0..Phases : ctx' = [ctx EXCEPT ![f] = [code |-> t, phase |-> p]]

\* A new fiber, suspended at its entry.
Create(t, f) ==
  /\ run[t] # NoFiber
  /\ f \notin fibs
  /\ fibs' = fibs \cup {f}
  /\ ctx' = [ctx EXCEPT ![f] = Entry[f]]
  /\ UNCHANGED run

\* No thread runs f.
SuspendedUnchecked(f) == TRUE
Suspended(f) == \A u \in Thread : run[u] # f

\* t suspends the fiber it runs and resumes another, suspended one.
Switch(t, f) ==
  /\ run[t] # NoFiber
  /\ f \in fibs
  /\ Suspended(f)
  /\ run' = [run EXCEPT ![t] = f]
  /\ UNCHANGED <<fibs, ctx>>

\* Only the fiber that a thread runs makes progress.
Work(t) ==
  /\ run[t] # NoFiber
  /\ ctx' = [ctx EXCEPT ![run[t]].phase = NextPhase(@)]
  /\ UNCHANGED <<run, fibs>>

\* t dies and leaves the fiber it ran suspended for the others.
Release(t) ==
  /\ run[t] # NoFiber
  /\ run' = [run EXCEPT ![t] = NoFiber]
  /\ UNCHANGED <<fibs, ctx>>

\* t is the only thread that runs a fiber.
Last(t) == \A u \in Thread \ {t} : run[u] = NoFiber

\* The last thread that runs a fiber leaves, and the fibers go with it.
CleanUp(t) ==
  /\ run[t] # NoFiber
  /\ Last(t)
  /\ run' = [run EXCEPT ![t] = NoFiber]
  /\ fibs' = {}
  /\ ctx' = Entry

Next == \E t \in Thread :
  \/ Work(t) \/ Release(t) \/ CleanUp(t)
  \/ \E f \in FiberId : Convert(t, f) \/ Create(t, f) \/ Switch(t, f)

Spec == Init /\ [][Next]_vars

-----------------------------------------------------------------------------

\* A fiber is run by one thread at a time, and only fibers that exist are run.
OneRunner ==
  \A t \in Thread : run[t] # NoFiber =>
    /\ run[t] \in fibs
    /\ \A u \in Thread : run[u] = run[t] => u = t

=============================================================================
